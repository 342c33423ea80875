--------------------------- MODULE ServicesProofs ---------------------------
(***************************************************************************)
(* Safety of the parts MCServices runs beside the expert tasks, for every  *)
(* value of their constants: the agent settings, the native tasks of the   *)
(* protocol, the uploads, the rebuilding of the applicability index, the   *)
(* review of changes, the operations feed, the workbench, the analysis of  *)
(* paths, the crawl of a collection, the search and the extraction of      *)
(* evidence.  They share no state, so each has an inductive invariant of   *)
(* its own.                                                                *)
(***************************************************************************)
EXTENDS ModelSettings, ProtocolTasks, IntakeUploads, CaseWorkbench, OperationsFeed,
        ChangeReview, ApplicabilityIndex, CollectionCrawl, PathAnalysis, KnowledgeSearch,
        EvidenceExtraction, FiniteSetTheorems, WellFoundedInduction, TLAPS

-----------------------------------------------------------------------------
(* The agent settings.  Nobody overwrites settings he has not seen.  The    *)
(* version alone is compared, so the argument is that a copy of the         *)
(* settings with the current version is the current settings, wherever the  *)
(* copy has been in between.                                                *)

\* A copy of the settings is older than they are, or it is what they are.
Fresh(x, s) == x.version <= s.version /\ (x.version = s.version => x = s)

\* Every copy is one: what a page shows, what is on its way to it and what a
\* draft began from.  A request that saves has a draft.
CopiesInv ==
    \A a \in Admins :
        /\ view[a] # NoCopy => Fresh(view[a], settings)
        /\ reading[a] # NoCopy => Fresh(reading[a], settings)
        /\ draft[a] # NoCopy => Fresh(draft[a].from, settings)
        /\ phase[a] = "sent" => draft[a] # NoCopy

SettingsInv == SettingsTypeOK /\ CopiesInv

LEMMA SettingsInitInv == SettingsBounds /\ SettingsInit => SettingsInv
<1> SUFFICES ASSUME SettingsBounds, SettingsInit PROVE SettingsInv
  OBVIOUS
<1>1. settings \in Settings
  BY DEF SettingsInit, Settings, SettingsBounds
<1>2. SettingsTypeOK
  BY <1>1 DEF SettingsInit, SettingsTypeOK, Phases, SettingsBounds
<1>3. CopiesInv
  BY DEF SettingsInit, CopiesInv
<1> QED BY <1>2, <1>3 DEF SettingsInv

\* The end of a read, with the answer or without.
LEMMA ReloadedInv ==
  ASSUME SettingsInv, NEW a \in Admins, Reloaded(a),
         view' = view \/ (view' = [view EXCEPT ![a] = reading[a]] /\ reading[a] # NoCopy),
         settingsFaults' \in 0..MaxFaults
  PROVE  SettingsInv'
<1> USE DEF SettingsInv
<1>1. settings' = settings /\ catalog' = catalog
  BY DEF Reloaded
<1>2. /\ reading' \in [Admins -> Settings \cup {NoCopy}]
      /\ \A b \in Admins : reading'[b] \in {reading[b], NoCopy}
  BY DEF Reloaded, SettingsTypeOK
<1>3. /\ view' \in [Admins -> Settings \cup {NoCopy}]
      /\ \A b \in Admins : view'[b] = view[b] \/ (view'[b] = reading[b] /\ reading[b] # NoCopy)
  <2>1. CASE view' = view
    BY <2>1 DEF SettingsTypeOK
  <2>2. CASE view' = [view EXCEPT ![a] = reading[a]] /\ reading[a] # NoCopy
    BY <2>2 DEF SettingsTypeOK
  <2> QED BY <2>1, <2>2
<1>4. /\ draft' \in [Admins -> Draft \cup {NoCopy}]
      /\ phase' \in [Admins -> Phases]
      /\ \A b \in Admins : \/ draft'[b] = draft[b] /\ phase'[b] = phase[b]
                           \/ draft'[b] = NoCopy /\ phase'[b] = "editing"
  BY DEF Reloaded, SettingsTypeOK, Phases
<1>5. SettingsTypeOK'
  BY <1>1, <1>2, <1>3, <1>4 DEF SettingsTypeOK
<1>6. CopiesInv'
  <2> SUFFICES ASSUME NEW b \in Admins
               PROVE  /\ view'[b] # NoCopy => Fresh(view'[b], settings')
                      /\ reading'[b] # NoCopy => Fresh(reading'[b], settings')
                      /\ draft'[b] # NoCopy => Fresh(draft'[b].from, settings')
                      /\ phase'[b] = "sent" => draft'[b] # NoCopy
    BY DEF CopiesInv
  <2>1. view'[b] # NoCopy => Fresh(view'[b], settings')
    BY <1>1, <1>3 DEF CopiesInv, Fresh
  <2>2. reading'[b] # NoCopy => Fresh(reading'[b], settings')
    BY <1>1, <1>2 DEF CopiesInv, Fresh
  <2>3. /\ draft'[b] # NoCopy => Fresh(draft'[b].from, settings')
        /\ phase'[b] = "sent" => draft'[b] # NoCopy
    BY <1>1, <1>4 DEF CopiesInv, Fresh
  <2> QED BY <2>1, <2>2, <2>3
<1> QED BY <1>5, <1>6

\* The settings change: every older copy stays older.
LEMMA SaveInv ==
  ASSUME SettingsBounds, SettingsInv, NEW a \in Admins, SetExecutionSettings(a)
  PROVE  SettingsInv'
<1> USE DEF SettingsInv
<1>1. /\ view' = view /\ reading' = reading /\ draft' = draft /\ catalog' = catalog
      /\ settingsFaults' \in 0..MaxFaults
  BY DEF SetExecutionSettings, SettingsTypeOK, SettingsBounds
<1>2. /\ phase' \in [Admins -> Phases]
      /\ \A b \in Admins : phase'[b] = "sent" => phase[b] = "sent"
  BY DEF SetExecutionSettings, SettingsTypeOK, Phases
<1>3. CASE settings' = settings
  <2>1. SettingsTypeOK'
    BY <1>1, <1>2, <1>3 DEF SettingsTypeOK
  <2>2. CopiesInv'
    BY <1>1, <1>2, <1>3 DEF CopiesInv, Fresh
  <2> QED BY <2>1, <2>2
<1>4. CASE Accepts(a)
  <2>1. /\ settings.version < MaxVersion
        /\ settings' = [version |-> settings.version + 1, values |-> draft[a].values]
    BY <1>4 DEF SetExecutionSettings
  <2>2. draft[a] \in Draft
    BY DEF SetExecutionSettings, SettingsTypeOK, CopiesInv
  <2>3. settings.version \in 1..MaxVersion
    BY DEF SettingsTypeOK, Settings
  <2>4. settings' \in Settings
    BY <2>1, <2>2, <2>3 DEF Settings, Draft, SettingsBounds
  <2>5. \A x \in Settings : Fresh(x, settings) => Fresh(x, settings')
    <3> SUFFICES ASSUME NEW x \in Settings, Fresh(x, settings) PROVE Fresh(x, settings')
      OBVIOUS
    <3>1. x.version \in 1..MaxVersion /\ x.version <= settings.version
      BY DEF Settings, Fresh
    <3>2. settings'.version = settings.version + 1
      BY <2>1
    <3> QED BY <2>3, <3>1, <3>2 DEF Fresh, SettingsBounds
  <2>6. SettingsTypeOK'
    BY <1>1, <1>2, <2>4 DEF SettingsTypeOK
  <2>7. CopiesInv'
    <3> SUFFICES ASSUME NEW b \in Admins
                 PROVE  /\ view[b] # NoCopy => Fresh(view[b], settings')
                        /\ reading[b] # NoCopy => Fresh(reading[b], settings')
                        /\ draft[b] # NoCopy => Fresh(draft[b].from, settings')
                        /\ phase'[b] = "sent" => draft[b] # NoCopy
      BY <1>1 DEF CopiesInv
    <3>1. view[b] # NoCopy => Fresh(view[b], settings')
      BY <2>5 DEF CopiesInv, SettingsTypeOK
    <3>2. reading[b] # NoCopy => Fresh(reading[b], settings')
      BY <2>5 DEF CopiesInv, SettingsTypeOK
    <3>3. draft[b] # NoCopy => Fresh(draft[b].from, settings')
      BY <2>5 DEF CopiesInv, SettingsTypeOK, Draft
    <3>4. phase'[b] = "sent" => draft[b] # NoCopy
      BY <1>2 DEF CopiesInv
    <3> QED BY <3>1, <3>2, <3>3, <3>4
  <2> QED BY <2>6, <2>7
<1> QED BY <1>3, <1>4 DEF SetExecutionSettings

LEMMA SettingsNextInv ==
  ASSUME ReportsAssumption, SettingsBounds
  PROVE  SettingsInv /\ [SettingsNext]_settingsVars => SettingsInv'
<1> SUFFICES ASSUME SettingsInv, [SettingsNext]_settingsVars PROVE SettingsInv'
  OBVIOUS
<1> USE DEF SettingsInv
<1>1. ASSUME NEW a \in Admins, PollSettings(a) PROVE SettingsInv'
  <2>1. SettingsTypeOK'
    BY <1>1 DEF PollSettings, GetExecutionSettings, SettingsTypeOK
  <2>2. CopiesInv'
    BY <1>1 DEF PollSettings, GetExecutionSettings, CopiesInv, Fresh, SettingsTypeOK, Settings,
                SettingsBounds
  <2> QED BY <2>1, <2>2
<1>2. ASSUME NEW a \in Admins, SettingsArrive(a) PROVE SettingsInv'
  BY <1>2, ReloadedInv DEF SettingsArrive, SettingsTypeOK
<1>3. ASSUME NEW a \in Admins, ReadFails(a) PROVE SettingsInv'
  BY <1>3, ReloadedInv DEF ReadFails, SettingsTypeOK, SettingsBounds
<1>4. ASSUME NEW a \in Admins, NEW values \in Values, Edit(a, values) PROVE SettingsInv'
  <2>1. /\ Form(a) \in Draft
        /\ Fresh(Form(a).from, settings)
    BY <1>4 DEF Edit, Form, SettingsTypeOK, CopiesInv, Draft, Settings
  <2>2. /\ [Form(a) EXCEPT !.values = values] \in Draft
        /\ [Form(a) EXCEPT !.values = values].from = Form(a).from
    BY <2>1 DEF Draft
  <2>3. SettingsTypeOK'
    BY <1>4, <2>2 DEF Edit, SettingsTypeOK
  <2>4. CopiesInv'
    BY <1>4, <2>1, <2>2 DEF Edit, CopiesInv, Fresh, SettingsTypeOK
  <2> QED BY <2>3, <2>4
<1>5. ASSUME NEW a \in Admins, CancelChanges(a) PROVE SettingsInv'
  <2>1. SettingsTypeOK'
    BY <1>5 DEF CancelChanges, GetExecutionSettings, SettingsTypeOK
  <2>2. CopiesInv'
    BY <1>5 DEF CancelChanges, GetExecutionSettings, CopiesInv, Fresh, SettingsTypeOK, Settings,
                SettingsBounds
  <2> QED BY <2>1, <2>2
<1>6. ASSUME NEW a \in Admins, Save(a) PROVE SettingsInv'
  <2>1. SettingsTypeOK'
    BY <1>6 DEF Save, SettingsTypeOK, Phases
  <2>2. CopiesInv'
    BY <1>6 DEF Save, CopiesInv, Fresh, SettingsTypeOK
  <2> QED BY <2>1, <2>2
<1>7. ASSUME NEW a \in Admins, SetExecutionSettings(a) PROVE SettingsInv'
  BY <1>7, SaveInv
<1>8. ASSUME NEW a \in Admins, Invalidate(a) PROVE SettingsInv'
  <2>1. SettingsTypeOK'
    BY <1>8 DEF Invalidate, GetExecutionSettings, SettingsTypeOK, Phases
  <2>2. CopiesInv'
    BY <1>8 DEF Invalidate, GetExecutionSettings, CopiesInv, Fresh, SettingsTypeOK, Settings,
                SettingsBounds
  <2> QED BY <2>1, <2>2
<1>9. ASSUME NEW report \in Reports, PublishExecutionCatalog(report) PROVE SettingsInv'
  <2>1. report \in [models : SUBSET Models, error : BOOLEAN, fit : BOOLEAN]
    BY DEF ReportsAssumption
  <2>2. SettingsTypeOK'
    BY <1>9, <2>1 DEF PublishExecutionCatalog, SettingsTypeOK
  <2>3. CopiesInv'
    BY <1>9 DEF PublishExecutionCatalog, CopiesInv, Fresh
  <2> QED BY <2>2, <2>3
<1>10. CASE CatalogAges
  <2>1. SettingsTypeOK'
    BY <1>10 DEF CatalogAges, SettingsTypeOK
  <2>2. CopiesInv'
    BY <1>10 DEF CatalogAges, CopiesInv, Fresh
  <2> QED BY <2>1, <2>2
<1>11. CASE UNCHANGED settingsVars
  BY <1>11 DEF settingsVars, SettingsTypeOK, CopiesInv, Fresh
<1> QED BY <1>1, <1>2, <1>3, <1>4, <1>5, <1>6, <1>7, <1>8, <1>9, <1>10, <1>11 DEF SettingsNext

\* The settings, their copies and the requests keep their types.
THEOREM SettingsTyped ==
  ASSUME ReportsAssumption, SettingsBounds
  PROVE  SettingsSpec => []SettingsTypeOK
<1>1. SettingsInv => SettingsTypeOK
  BY DEF SettingsInv
<1> QED BY <1>1, SettingsInitInv, SettingsNextInv, PTL DEF SettingsSpec

\* A save is accepted only with values its form began from: setExecutionSettings
\* compares versions, and a copy of the same version has the same values.
THEOREM NobodyOverwrites ==
  ASSUME ReportsAssumption, SettingsBounds
  PROVE  SettingsSpec => SettingsAreSeen
<1> DEFINE Seen == settings' # settings =>
                     \E a \in Admins : /\ phase[a] = "sent" /\ draft[a] # NoCopy
                                       /\ draft[a].from.values = settings.values
                                       /\ draft[a].values = settings'.values
<1>1. SettingsInv /\ [SettingsNext]_settingsVars => [Seen]_settingsVars
  <2> SUFFICES ASSUME SettingsInv, SettingsNext, settings' # settings PROVE Seen
    BY DEF settingsVars
  <2>1. PICK a \in Admins : SetExecutionSettings(a)
    BY DEF SettingsNext, PollSettings, SettingsArrive, ReadFails, Reloaded, Edit, CancelChanges, Save,
           Invalidate, PublishExecutionCatalog, CatalogAges
  <2>2. /\ phase[a] = "sent" /\ Accepts(a)
        /\ settings' = [version |-> settings.version + 1, values |-> draft[a].values]
    BY <2>1 DEF SetExecutionSettings
  <2>3. draft[a] # NoCopy /\ Fresh(draft[a].from, settings)
    BY <2>2 DEF SettingsInv, CopiesInv
  <2>4. draft[a].from = settings
    BY <2>2, <2>3 DEF Accepts, Fresh
  <2>5. draft[a].values = settings'.values
    BY <2>2
  <2> QED BY <2>2, <2>3, <2>4, <2>5
<1> QED BY <1>1, SettingsInitInv, SettingsNextInv, PTL DEF SettingsSpec, SettingsAreSeen
-----------------------------------------------------------------------------
(* Native tasks.  A task that was handed out has its result when its client *)
(* is led to read it, for every number of calls and keys.  A handed row is  *)
(* linked for good, and a plain call's row was completed when it was        *)
(* created: no cancel reaches it before it is handed out, so linking gives  *)
(* it its fallback result.                                                  *)

NativeRow == [present : BOOLEAN, status : Statuses, payload : BOOLEAN,
        expert : Keys \cup {None}, expired : BOOLEAN]
Handler == [pc : {"idle", "expert", "created", "handed", "refused", "stopped"},
            key : Keys \cup {None}, augmented : BOOLEAN]

\* What is known of a call's row by the step of its handler.
LinkInv ==
    \A c \in Calls :
        /\ call[c].pc \in {"expert", "created", "handed"} => call[c].key \in Keys
        /\ call[c].pc = "created" /\ ~call[c].augmented => native[c].status = "completed"
        /\ call[c].pc = "handed" => native[c].expert = call[c].key
        /\ call[c].pc = "handed" /\ ~call[c].augmented => native[c].payload
        /\ c \in cancels => call[c].pc = "handed"

NativeInv == NativeTypeOK /\ LinkInv

LEMMA NativeTypes ==
  NativeTypeOK <=> /\ call \in [Calls -> Handler] /\ native \in [Calls -> NativeRow]
             /\ tasks \in [Keys -> Statuses \cup {"none"}] /\ cancels \subseteq Calls
<1> QED BY DEF NativeTypeOK, NativeRow, Handler

LEMMA NativeInitInv == NativeInit => NativeInv
<1> SUFFICES ASSUME NativeInit PROVE NativeInv
  OBVIOUS
<1>1. Idle \in Handler /\ NoRow \in NativeRow
  BY DEF Idle, NoRow, Handler, NativeRow, Statuses
<1>2. NativeTypeOK
  BY <1>1, NativeTypes DEF NativeInit
<1>3. LinkInv
  BY DEF NativeInit, LinkInv, Idle
<1> QED BY <1>2, <1>3 DEF NativeInv

\* The steps of one handler.
LEMMA HandlerInv ==
  ASSUME NoneIsNoKey, NativeInv, NEW c \in Calls,
         CreateExpertTask(c) \/ CreateTask(c) \/ LinkExpertTask(c) \/ Stop(c)
  PROVE  NativeInv'
<1> USE DEF NativeInv
<1>0. /\ call \in [Calls -> Handler] /\ native \in [Calls -> NativeRow]
      /\ tasks \in [Keys -> Statuses \cup {"none"}] /\ cancels \subseteq Calls
  BY NativeTypes
<1>1. CASE CreateExpertTask(c)
  <2>1. PICK k \in Keys, augmented \in BOOLEAN :
           /\ call' = [call EXCEPT ![c] = [pc |-> "expert", key |-> k, augmented |-> augmented]]
           /\ tasks' = [tasks EXCEPT ![k] = IF @ = "none" THEN "working" ELSE @]
    BY <1>1 DEF CreateExpertTask
  <2>2. [pc |-> "expert", key |-> k, augmented |-> augmented] \in Handler
    BY DEF Handler
  <2>3. call' \in [Calls -> Handler] /\ tasks' \in [Keys -> Statuses \cup {"none"}]
    BY <1>0, <2>1, <2>2 DEF Statuses
  <2>4. NativeTypeOK'
    BY <1>0, <1>1, <2>3, NativeTypes DEF CreateExpertTask, NativeTypeOK, NativeRow, Handler
  <2>5. LinkInv'
    BY <1>0, <1>1, <2>1 DEF CreateExpertTask, LinkInv
  <2> QED BY <2>4, <2>5
<1>2. CASE CreateTask(c)
  <2> DEFINE row == [NoRow EXCEPT !.present = TRUE,
                        !.status = IF call[c].augmented THEN "working" ELSE "completed"]
  <2>1. row \in NativeRow /\ (~call[c].augmented => row.status = "completed")
    BY DEF NoRow, NativeRow, Statuses, NativeTerminal
  <2>2. native' = [native EXCEPT ![c] = row] /\ call' = [call EXCEPT ![c].pc = "created"]
    BY <1>2 DEF CreateTask
  <2>3. call' \in [Calls -> Handler] /\ native' \in [Calls -> NativeRow]
    <3>1. [call[c] EXCEPT !.pc = "created"] \in Handler
      BY <1>0 DEF Handler
    <3> QED BY <1>0, <2>1, <2>2, <3>1
  <2> HIDE DEF row
  <2>4. NativeTypeOK'
    BY <1>0, <1>2, <2>3 DEF CreateTask, NativeTypeOK, NativeRow, Handler
  <2>5. LinkInv'
    BY <1>0, <1>2, <2>1, <2>2 DEF CreateTask, LinkInv, Handler
  <2> QED BY <2>4, <2>5
<1>3. CASE LinkExpertTask(c)
  <2>1. CASE /\ native' = [native EXCEPT ![c] = Linked(@, call[c].key)]
             /\ call' = [call EXCEPT ![c].pc = "handed"]
    <3>1. /\ Linked(native[c], call[c].key) \in NativeRow
          /\ Linked(native[c], call[c].key).expert = call[c].key
          /\ native[c].status = "completed" => Linked(native[c], call[c].key).payload
      BY <1>0 DEF Linked, NativeRow, Handler
    <3>2. call' \in [Calls -> Handler] /\ native' \in [Calls -> NativeRow]
      <4>1. [call[c] EXCEPT !.pc = "handed"] \in Handler
        BY <1>0 DEF Handler
      <4> QED BY <1>0, <2>1, <3>1, <4>1
    <3>3. NativeTypeOK'
      BY <1>0, <1>3, <3>2 DEF LinkExpertTask, NativeTypeOK, NativeRow, Handler
    <3>4. LinkInv'
      BY <1>0, <1>3, <2>1, <3>1 DEF LinkExpertTask, LinkInv, Handler
    <3> QED BY <3>3, <3>4
  <2>2. CASE call' = [call EXCEPT ![c].pc = "refused"] /\ native' = native
    <3>1. [call[c] EXCEPT !.pc = "refused"] \in Handler
      BY <1>0 DEF Handler
    <3>2. NativeTypeOK'
      BY <1>0, <1>3, <2>2, <3>1 DEF LinkExpertTask, NativeTypeOK, NativeRow, Handler
    <3>3. LinkInv'
      BY <1>0, <1>3, <2>2 DEF LinkExpertTask, LinkInv, Handler
    <3> QED BY <3>2, <3>3
  <2> QED BY <1>3, <2>1, <2>2 DEF LinkExpertTask
<1>4. CASE Stop(c)
  <2>1. [call[c] EXCEPT !.pc = "stopped"] \in Handler
    BY <1>0 DEF Handler
  <2>2. NativeTypeOK'
    BY <1>0, <1>4, <2>1 DEF Stop, NativeTypeOK, NativeRow, Handler
  <2>3. LinkInv'
    BY <1>0, <1>4 DEF Stop, LinkInv, Handler
  <2> QED BY <2>2, <2>3
<1> QED BY <1>1, <1>2, <1>3, <1>4

\* What happens to a row after it was handed out.
LEMMA HandedInv ==
  ASSUME NoneIsNoKey, NativeInv, NEW c \in Calls,
         CancelReads(c) \/ UpdateTaskStatus(c) \/ Expire(c)
  PROVE  NativeInv'
<1> USE DEF NativeInv
<1>0. /\ call \in [Calls -> Handler] /\ native \in [Calls -> NativeRow]
      /\ tasks \in [Keys -> Statuses \cup {"none"}] /\ cancels \subseteq Calls
  BY NativeTypes
<1>1. CASE CancelReads(c)
  <2>1. NativeTypeOK'
    BY <1>0, <1>1 DEF CancelReads, NativeTypeOK, NativeRow, Handler
  <2>2. LinkInv'
    BY <1>0, <1>1 DEF CancelReads, LinkInv
  <2> QED BY <2>1, <2>2
<1>2. CASE UpdateTaskStatus(c)
  <2>1. c \in cancels /\ call[c].pc = "handed"
    BY <1>2 DEF UpdateTaskStatus, LinkInv
  <2>2. /\ [native[c] EXCEPT !.status = "cancelled"] \in NativeRow
        /\ [native[c] EXCEPT !.status = "cancelled"].expert = native[c].expert
        /\ [native[c] EXCEPT !.status = "cancelled"].payload = native[c].payload
    BY <1>0 DEF NativeRow, Statuses, NativeTerminal
  <2>3. native' \in [Calls -> NativeRow] /\ tasks' \in [Keys -> Statuses \cup {"none"}]
    BY <1>0, <1>2, <2>2 DEF UpdateTaskStatus, Statuses, NativeTerminal
  <2>4. NativeTypeOK'
    BY <1>0, <1>2, <2>3 DEF UpdateTaskStatus, NativeTypeOK, NativeRow, Handler
  <2>5. LinkInv'
    BY <1>0, <1>2, <2>1, <2>2 DEF UpdateTaskStatus, LinkInv
  <2> QED BY <2>4, <2>5
<1>3. CASE Expire(c)
  <2>1. /\ [native[c] EXCEPT !.expired = TRUE] \in NativeRow
        /\ [native[c] EXCEPT !.expired = TRUE].expert = native[c].expert
        /\ [native[c] EXCEPT !.expired = TRUE].payload = native[c].payload
        /\ [native[c] EXCEPT !.expired = TRUE].status = native[c].status
    BY <1>0 DEF NativeRow
  <2>2. native' \in [Calls -> NativeRow]
    BY <1>0, <1>3, <2>1 DEF Expire
  <2>3. NativeTypeOK'
    BY <1>0, <1>3, <2>2 DEF Expire, NativeTypeOK, NativeRow, Handler
  <2>4. LinkInv'
    BY <1>0, <1>3, <2>1 DEF Expire, LinkInv
  <2> QED BY <2>3, <2>4
<1> QED BY <1>1, <1>2, <1>3

LEMMA NativeNextInv == NoneIsNoKey /\ NativeInv /\ [NativeNext]_nativeVars => NativeInv'
<1> SUFFICES ASSUME NoneIsNoKey, NativeInv, [NativeNext]_nativeVars PROVE NativeInv'
  OBVIOUS
<1>1. ASSUME NEW k \in Keys, Research(k) PROVE NativeInv'
  BY <1>1 DEF Research, NativeInv, NativeTypeOK, LinkInv
<1>2. CASE UNCHANGED nativeVars
  BY <1>2 DEF nativeVars, NativeInv, NativeTypeOK, LinkInv
<1> QED BY <1>1, <1>2, HandlerInv, HandedInv DEF NativeNext

\* Calls, native rows and expert tasks keep their form.
THEOREM NativeTyped == ASSUME NoneIsNoKey PROVE NativeSpec => []NativeTypeOK
<1>1. NativeInv => NativeTypeOK
  BY DEF NativeInv
<1> QED BY <1>1, NativeInitInv, NativeNextInv, PTL DEF NativeSpec

\* linkExpertTask stores the fallback result of a task that is complete already,
\* and every task a client holds is linked (getTask, getTaskResult).
THEOREM ResultIsThere == ASSUME NoneIsNoKey PROVE NativeSpec => []HandedTaskHasItsResult
<1>1. NoneIsNoKey /\ NativeInv => HandedTaskHasItsResult
  <2> SUFFICES ASSUME NoneIsNoKey, NativeInv, NEW c \in Calls, call[c].pc = "handed",
                      ~call[c].augmented \/ ToTask(c) = "completed"
               PROVE  ResultReady(c)
    BY DEF HandedTaskHasItsResult
  <2>1. native[c].expert # None
    BY DEF NativeInv, LinkInv, NoneIsNoKey
  <2>2. CASE ~call[c].augmented
    BY <2>2 DEF NativeInv, LinkInv, ResultReady
  <2>3. CASE ToTask(c) = "completed"
    BY <2>1, <2>3 DEF ResultReady, ToTask
  <2> QED BY <2>2, <2>3
<1> QED BY <1>1, NativeInitInv, NativeNextInv, PTL DEF NativeSpec
-----------------------------------------------------------------------------
(* Uploads.  A committed source has its document, for every number of       *)
(* uploads and whatever sizes and kinds they have, with lost answers to a   *)
(* COMMIT and stops of the process.  Each step of a request says where its  *)
(* file is; that is what Refuse relies on when it takes the file away.      *)

UploadRequest == [step : Steps, document : Documents, answer : Answers]

\* Where the file of a request is, and whether it has its rows, by its step.
FileInv ==
    \A u \in Uploads :
        /\ At(u, "new") => u \notin staged \cup stored \cup raw
        /\ At(u, "streamed") => u \notin stored
        /\ At(u, "checked") => u \notin stored \cup raw
        /\ At(u, "renamed") => u \in stored \ staged
        /\ u \in stored => u \notin raw
        /\ u \in rows => /\ At(u, "ended")
                         /\ upload[u].answer # "refused" => u \in stored
        /\ stops = 0 /\ At(u, "ended") /\ u \in staged \cup stored => u \in rows

UploadsInv == UploadsTypeOK /\ FileInv

LEMMA UploadsInitInv == UploadsBounds /\ UploadsInit => UploadsInv
<1> SUFFICES ASSUME UploadsBounds, UploadsInit PROVE UploadsInv
  OBVIOUS
<1>1. upload \in [Uploads -> UploadRequest]
  BY DEF UploadsInit, UploadRequest, Steps, Answers
<1>2. \A u \in Uploads : At(u, "new")
  BY DEF UploadsInit, At
<1>3. UploadsTypeOK
  BY <1>1 DEF UploadsInit, UploadsTypeOK, UploadRequest, UploadsBounds
<1>4. FileInv
  BY <1>2 DEF UploadsInit, FileInv, At
<1> QED BY <1>3, <1>4 DEF UploadsInv

\* A request that moves or is answered; the others stay as they are.
LEMMA MovedRow ==
  ASSUME UploadsInv, NEW u \in Uploads, NEW s \in Steps, Moved(u, s)
  PROVE  /\ upload' \in [Uploads -> UploadRequest]
         /\ upload'[u].step = s
         /\ \A v \in Uploads \ {u} : upload'[v] = upload[v]
<1>1. upload \in [Uploads -> UploadRequest]
  BY DEF UploadsInv, UploadsTypeOK, UploadRequest
<1>2. [upload[u] EXCEPT !.step = s] \in UploadRequest /\ [upload[u] EXCEPT !.step = s].step = s
  BY <1>1 DEF UploadRequest
<1> QED BY <1>1, <1>2 DEF Moved

LEMMA AnsweredRow ==
  ASSUME UploadsInv, NEW u \in Uploads, NEW a \in Answers, Answered(u, a)
  PROVE  /\ upload' \in [Uploads -> UploadRequest]
         /\ upload'[u].step = "ended" /\ upload'[u].answer = a
         /\ \A v \in Uploads \ {u} : upload'[v] = upload[v]
<1>1. upload \in [Uploads -> UploadRequest]
  BY DEF UploadsInv, UploadsTypeOK, UploadRequest
<1>2. upload' = [upload EXCEPT ![u] = [@ EXCEPT !.step = "ended", !.answer = a]]
  BY <1>1 DEF Answered
<1>3. /\ [upload[u] EXCEPT !.step = "ended", !.answer = a] \in UploadRequest
      /\ [upload[u] EXCEPT !.step = "ended", !.answer = a].step = "ended"
      /\ [upload[u] EXCEPT !.step = "ended", !.answer = a].answer = a
  BY <1>1 DEF UploadRequest, Steps
<1> QED BY <1>1, <1>2, <1>3

\* What is refused has no file left, whether its rows were committed or not.
LEMMA RefuseInv ==
  ASSUME UploadsInv, NEW u \in Uploads, Refuse(u), rows' \in {rows, rows \cup {u}},
         lost' \in 0..MaxLost, stops' = stops
  PROVE  UploadsInv'
<1>1. /\ upload' \in [Uploads -> UploadRequest]
      /\ upload'[u].step = "ended" /\ upload'[u].answer = "refused"
      /\ \A v \in Uploads \ {u} : upload'[v] = upload[v]
  BY AnsweredRow DEF Refuse, Answers
<1>2. UploadsTypeOK'
  BY <1>1 DEF UploadsInv, UploadsTypeOK, Refuse, UploadRequest
<1>3. FileInv'
  BY <1>1 DEF UploadsInv, FileInv, Refuse, At
<1> QED BY <1>2, <1>3 DEF UploadsInv

LEMMA UploadInv ==
  ASSUME UploadsBounds, UploadsInv, NEW u \in Uploads,
         \/ WriteStreamToFile(u) \/ CheckMedia(u) \/ RenameArtifact(u)
         \/ InsertUpload(u) \/ InsertFails(u) \/ CommitAnswerLost(u)
  PROVE  UploadsInv'
<1>0. lost \in 0..MaxLost /\ stops \in 0..MaxStops
  BY DEF UploadsInv, UploadsTypeOK
<1>1. CASE WriteStreamToFile(u)
  <2>1. CASE Refuse(u)
    BY <1>0, <1>1, <2>1, RefuseInv DEF WriteStreamToFile
  <2>2. CASE /\ staged' = staged \cup {u} /\ raw' \in {raw, raw \cup {u}}
             /\ Moved(u, "streamed") /\ stored' = stored
    <3>1. At(u, "new") /\ rows' = rows /\ lost' = lost /\ stops' = stops
      BY <1>1 DEF WriteStreamToFile
    <3>2. /\ upload' \in [Uploads -> UploadRequest] /\ upload'[u].step = "streamed"
          /\ \A v \in Uploads \ {u} : upload'[v] = upload[v]
      BY <2>2, MovedRow DEF Steps
    <3>3. UploadsTypeOK'
      BY <2>2, <3>1, <3>2 DEF UploadsInv, UploadsTypeOK, UploadRequest
    <3>4. FileInv'
      BY <2>2, <3>1, <3>2 DEF UploadsInv, FileInv, At
    <3> QED BY <3>3, <3>4 DEF UploadsInv
  <2> QED BY <1>1, <2>1, <2>2 DEF WriteStreamToFile
<1>2. CASE CheckMedia(u)
  <2>1. CASE Refuse(u)
    BY <1>0, <1>2, <2>1, RefuseInv DEF CheckMedia
  <2>2. CASE raw' = raw \ {u} /\ Moved(u, "checked") /\ UNCHANGED <<staged, stored>>
    <3>1. At(u, "streamed") /\ rows' = rows /\ lost' = lost /\ stops' = stops
      BY <1>2 DEF CheckMedia
    <3>2. /\ upload' \in [Uploads -> UploadRequest] /\ upload'[u].step = "checked"
          /\ \A v \in Uploads \ {u} : upload'[v] = upload[v]
      BY <2>2, MovedRow DEF Steps
    <3>3. UploadsTypeOK'
      BY <2>2, <3>1, <3>2 DEF UploadsInv, UploadsTypeOK, UploadRequest
    <3>4. FileInv'
      BY <2>2, <3>1, <3>2 DEF UploadsInv, FileInv, At
    <3> QED BY <3>3, <3>4 DEF UploadsInv
  <2> QED BY <1>2, <2>1, <2>2 DEF CheckMedia
<1>3. CASE RenameArtifact(u)
  <2>1. /\ At(u, "checked") /\ staged' = staged \ {u} /\ stored' = stored \cup {u}
        /\ raw' = raw /\ rows' = rows /\ lost' = lost /\ stops' = stops
    BY <1>3 DEF RenameArtifact
  <2>2. /\ upload' \in [Uploads -> UploadRequest] /\ upload'[u].step = "renamed"
        /\ \A v \in Uploads \ {u} : upload'[v] = upload[v]
    BY <1>3, MovedRow DEF RenameArtifact, Steps
  <2>3. UploadsTypeOK'
    BY <2>1, <2>2 DEF UploadsInv, UploadsTypeOK, UploadRequest
  <2>4. FileInv'
    BY <2>1, <2>2 DEF UploadsInv, FileInv, At
  <2> QED BY <2>3, <2>4 DEF UploadsInv
<1>4. CASE InsertUpload(u)
  <2>1. /\ At(u, "renamed") /\ rows' = rows \cup {u} /\ staged' = staged
        /\ stored' = stored /\ raw' = raw /\ lost' = lost /\ stops' = stops
    BY <1>4 DEF InsertUpload
  <2>2. /\ upload' \in [Uploads -> UploadRequest] /\ upload'[u].step = "ended"
        /\ \A v \in Uploads \ {u} : upload'[v] = upload[v]
    BY <1>4, AnsweredRow DEF InsertUpload, Answers
  <2>3. UploadsTypeOK'
    BY <2>1, <2>2 DEF UploadsInv, UploadsTypeOK, UploadRequest
  <2>4. FileInv'
    BY <2>1, <2>2 DEF UploadsInv, FileInv, At
  <2> QED BY <2>3, <2>4 DEF UploadsInv
<1>5. CASE InsertFails(u)
  BY <1>0, <1>5, RefuseInv DEF InsertFails
<1>6. CASE CommitAnswerLost(u)
  <2>1. lost' \in 0..MaxLost
    BY <1>0, <1>6 DEF CommitAnswerLost, UploadsBounds
  <2> QED BY <1>6, <2>1, RefuseInv DEF CommitAnswerLost
<1> QED BY <1>1, <1>2, <1>3, <1>4, <1>5, <1>6

\* After a stop the files of the requests that ended with it stay.
LEMMA StopInv == ASSUME UploadsBounds, UploadsInv, StopProcess PROVE UploadsInv'
<1>1. /\ stops \in Nat /\ stops' = stops + 1 /\ stops' \in 0..MaxStops
      /\ staged' = staged /\ stored' = stored /\ raw' = raw /\ rows' = rows /\ lost' = lost
  BY DEF StopProcess, UploadsInv, UploadsTypeOK, UploadsBounds
<1>2. upload \in [Uploads -> UploadRequest]
  BY DEF UploadsInv, UploadsTypeOK, UploadRequest
<1>3. \A v \in Uploads : /\ [upload[v] EXCEPT !.step = "ended"] \in UploadRequest
                         /\ [upload[v] EXCEPT !.step = "ended"].step = "ended"
                         /\ [upload[v] EXCEPT !.step = "ended"].answer = upload[v].answer
  BY <1>2 DEF UploadRequest, Steps
<1>4. upload' = [v \in Uploads |->
          IF upload[v].step = "new" THEN upload[v] ELSE [upload[v] EXCEPT !.step = "ended"]]
  BY DEF StopProcess
<1>5. /\ upload' \in [Uploads -> UploadRequest]
      /\ \A v \in Uploads : /\ upload'[v].answer = upload[v].answer
                            /\ upload'[v].step = IF upload[v].step = "new" THEN "new"
                                                                           ELSE "ended"
  BY <1>2, <1>3, <1>4
<1>6. UploadsTypeOK'
  BY <1>1, <1>5 DEF UploadsInv, UploadsTypeOK, UploadRequest
<1>7. FileInv'
  BY <1>1, <1>5 DEF UploadsInv, FileInv, At
<1> QED BY <1>6, <1>7 DEF UploadsInv

LEMMA UploadsNextInv == UploadsBounds /\ UploadsInv /\ [UploadsNext]_uploadVars => UploadsInv'
<1>1. ASSUME UploadsInv, UNCHANGED uploadVars PROVE UploadsInv'
  BY <1>1 DEF uploadVars, UploadsInv, UploadsTypeOK, FileInv, At
<1> QED BY <1>1, UploadInv, StopInv DEF UploadsNext

\* The requests, their files and rows keep their types.
THEOREM UploadsTyped == ASSUME UploadsBounds PROVE UploadsSpec => []UploadsTypeOK
<1>1. UploadsInv => UploadsTypeOK
  BY DEF UploadsInv
<1> QED BY <1>1, UploadsInitInv, UploadsNextInv, PTL DEF UploadsSpec

\* acceptSourceUpload leaves a document for every source it was not told to have
\* failed, none that is an unsanitised log, and none without a source but after a
\* stop of the process.
THEOREM DocumentsAreKept == ASSUME UploadsBounds PROVE UploadsSpec => []AcceptedHasItsDocument
<1>1. UploadsInv => AcceptedHasItsDocument
  <2> SUFFICES ASSUME UploadsInv PROVE AcceptedHasItsDocument
    OBVIOUS
  <2>1. rows \subseteq Uploads /\ stored \subseteq Uploads /\ staged \subseteq Uploads
    BY DEF UploadsInv, UploadsTypeOK
  <2> QED BY <2>1 DEF UploadsInv, FileInv, AcceptedHasItsDocument, At
<1> QED BY <1>1, UploadsInitInv, UploadsNextInv, PTL DEF UploadsSpec

\* A nonempty set of numbers up to a bound has a greatest one: of the sets of those
\* above each, one is the smallest.
LEMMA GreatestExists ==
  ASSUME NEW N \in Nat, NEW S \in SUBSET (0..N), S # {}
  PROVE  Max(S) \in S /\ \A y \in S : y <= Max(S)
<1> DEFINE Above(x) == {y \in S : y > x}
           T == {Above(x) : x \in S}
<1>1. IsFiniteSet(S)
  <2>1. IsFiniteSet(0..N)
    BY FS_Interval
  <2> QED BY <2>1, FS_Subset
<1>2. PICK m \in T : \A t \in T : ~(<<t, m>> \in StrictSubsetOrdering(S))
  <2>1. T \subseteq SUBSET S /\ T # {}
    OBVIOUS
  <2>2. T \subseteq FiniteSubsetsOf(S)
    BY <1>1, <2>1, FS_FiniteSubsetsOfFinite
  <2>3. IsWellFoundedOn(StrictSubsetOrdering(S), FiniteSubsetsOf(S))
    BY FS_StrictSubsetOrderingWellFounded
  <2> HIDE DEF T
  <2> QED BY <2>1, <2>2, <2>3, WFMin
<1>3. PICK x \in S : m = Above(x)
  BY <1>2
<1>4. ASSUME NEW y \in S, y > x PROVE FALSE
  <2>1. Above(y) \subseteq Above(x) /\ Above(y) # Above(x)
    <3>1. y \in Above(x) /\ y \notin Above(y)
      BY <1>4
    <3>2. \A z \in S : z > y => z > x
      BY <1>4
    <3> QED BY <3>1, <3>2
  <2>2. Above(y) \in T
    OBVIOUS
  <2>3. <<Above(y), m>> \in StrictSubsetOrdering(S)
    <3> DEFINE a == Above(y)
    <3>1. a \in SUBSET S /\ m \in SUBSET S /\ a \subseteq m /\ a # m
      BY <2>1, <1>3
    <3> HIDE DEF a
    <3>2. <<a, m>> \in StrictSubsetOrdering(S)
      BY <3>1 DEF StrictSubsetOrdering
    <3> QED BY <3>2 DEF a
  <2> QED BY <2>2, <2>3, <1>2
<1>5. \A y \in S : x >= y
  BY <1>4
<1> QED BY <1>5 DEF Max

LEMMA LeastExists ==
  ASSUME NEW N \in Nat, NEW S \in SUBSET (0..N), S # {}
  PROVE  Min(S) \in S /\ \A y \in S : Min(S) <= y
<1> DEFINE T == {N - x : x \in S}
<1>1. T \in SUBSET (0..N) /\ T # {}
  <2>1. \A x \in S : N - x \in 0..N
    <3> TAKE x \in S
    <3>1. x \in 0..N
      OBVIOUS
    <3> QED BY <3>1
  <2> QED BY <2>1
<1>2. Max(T) \in T /\ \A y \in T : y <= Max(T)
  <2> HIDE DEF T
  <2> QED BY <1>1, GreatestExists
<1>3. PICK x \in S : Max(T) = N - x
  BY <1>2
<1>4. \A y \in S : N - y <= N - x
  BY <1>2, <1>3
<1>5. \A y \in S : x =< y
  <2> TAKE y \in S
  <2>1. N - y <= N - x /\ y \in 0..N /\ x \in 0..N
    BY <1>4
  <2> QED BY <2>1
<1> QED BY <1>5 DEF Min

-----------------------------------------------------------------------------
(* The applicability index.  A batch is the next revisions after the cursor:  *)
(* there is one while there are any, and it leaves none out.                  *)

LEMMA RevisionsFinite == IndexAssumption => IsFiniteSet(Revisions)
  BY FS_Interval DEF IndexAssumption, Revisions

LEMMA BatchIsFirst ==
  ASSUME IndexAssumption, revisions \subseteq Revisions, NEW c \in 0..LastRevision
  PROVE  /\ Batch(c) \subseteq After(c)
         /\ \A i \in Batch(c), j \in After(c) : j <= i => j \in Batch(c)
         /\ After(c) # {} => Batch(c) # {}
         /\ Batch(c) # {} => /\ Max(Batch(c)) \in Batch(c)
                             /\ \A i \in Batch(c) : i <= Max(Batch(c))
<1> DEFINE Upto(i) == {j \in After(c) : j <= i}
<1>1. After(c) \in SUBSET Revisions /\ IsFiniteSet(After(c)) /\ LastRevision \in Nat
  BY RevisionsFinite, FS_Subset DEF After, IndexAssumption
<1>2. After(c) \in SUBSET (0..LastRevision)
  BY <1>1 DEF Revisions
<1>3. \A i \in After(c) : IsFiniteSet(Upto(i)) /\ Cardinality(Upto(i)) \in Nat
  <2> TAKE i \in After(c)
  <2>1. Upto(i) \in SUBSET After(c)
    OBVIOUS
  <2> HIDE DEF Upto
  <2> QED BY <2>1, <1>1, FS_Subset, FS_CardinalityType
<1>4. \A i \in Batch(c) : i \in After(c) /\ Cardinality(Upto(i)) <= BatchSize
  BY DEF Batch
<1>5. \A i \in After(c) : Cardinality(Upto(i)) <= BatchSize => i \in Batch(c)
  BY DEF Batch
<1>6. ASSUME NEW i \in Batch(c), NEW j \in After(c), j <= i PROVE j \in Batch(c)
  <2>1. Upto(j) \in SUBSET Upto(i)
    <3>1. \A k \in After(c) : k <= j => k <= i
      <4> TAKE k \in After(c)
      <4>1. i \in 0..LastRevision /\ j \in 0..LastRevision /\ k \in 0..LastRevision
        BY <1>4, <1>2, <1>6
      <4> QED BY <4>1, <1>6
    <3> QED BY <3>1
  <2>2. Cardinality(Upto(j)) <= Cardinality(Upto(i))
    <3> HIDE DEF Upto
    <3> QED BY <2>1, <1>3, <1>4, FS_Subset
  <2>3. Cardinality(Upto(j)) <= BatchSize
    <3> HIDE DEF Upto
    <3> QED BY <2>2, <1>3, <1>4 DEF IndexAssumption
  <2> QED BY <2>3, <1>5
<1>7. ASSUME After(c) # {} PROVE Batch(c) # {}
  <2> DEFINE m == Min(After(c))
  <2>1. m \in After(c) /\ \A y \in After(c) : m <= y
    BY <1>1, <1>2, <1>7, LeastExists
  <2>2. Upto(m) = {m}
    <3> HIDE DEF m
    <3>1. \A y \in After(c) : y <= m => y = m
      BY <2>1, <1>2
    <3>2. m <= m
      BY <2>1, <1>2
    <3> QED BY <3>1, <3>2, <2>1
  <2>3. Cardinality(Upto(m)) = 1
    <3> HIDE DEF m, Upto
    <3> QED BY <2>2, FS_Singleton
  <2>4. Cardinality(Upto(m)) <= BatchSize
    <3> HIDE DEF m, Upto
    <3> QED BY <2>3 DEF IndexAssumption
  <2> QED BY <2>1, <2>4, <1>5
<1>8. Batch(c) \in SUBSET (0..LastRevision)
  BY <1>2, <1>4
<1>9. Batch(c) # {} => /\ Max(Batch(c)) \in Batch(c)
                       /\ \A i \in Batch(c) : i <= Max(Batch(c))
  BY <1>1, <1>8, GreatestExists
<1> QED BY <1>4, <1>6, <1>7, <1>9

\* What the rows and the processes have counted.
Counted == {reindex[r].counted : r \in Runs} \cup {process[p].counted : p \in Processes}

\* Revisions are only added: of two counts one contains the other, so those of the
\* same number are the same.
CountsInv ==
    /\ \A x \in Counted : x \subseteq revisions
    /\ \A x, y \in Counted : x \subseteq y \/ y \subseteq x

\* Where a run is resumed, everything before is indexed.
RowsInv ==
    \A r \in Runs : {i \in reindex[r].counted : i <= reindex[r].cursor} \subseteq indexed

\* A process rebuilds for the count of its row, and all of that has a family.
RebuildInv ==
    \A p \in Processes :
        process[p].pc \in {"rebuild", "completed"} =>
            /\ process[p].run \in Runs
            /\ reindex[process[p].run].status # "none"
            /\ reindex[process[p].run].counted = process[p].counted
            /\ process[p].counted \subseteq families

IndexInv == IndexTypeOK /\ CountsInv /\ RowsInv /\ RebuildInv /\ CountedIsIndexed

Row == [status : {"none", "running", "failed", "completed"},
        counted : SUBSET Revisions, cursor : 0..LastRevision]
Process == [pc : {"idle", "counted", "rebuild", "completed"}, counted : SUBSET Revisions,
            run : 0..MaxRuns, cursor : 0..LastRevision]

LEMMA IndexTypes ==
  IndexTypeOK <=> /\ revisions \subseteq Revisions
                  /\ indexed \subseteq families /\ families \subseteq revisions
                  /\ reindex \in [Runs -> Row] /\ process \in [Processes -> Process]
                  /\ indexFaults \in 0..MaxIndexFaults
  BY DEF IndexTypeOK, Row, Process

LEMMA IndexTypesNext ==
  IndexTypeOK' <=> /\ revisions' \subseteq Revisions
                   /\ indexed' \subseteq families' /\ families' \subseteq revisions'
                   /\ reindex' \in [Runs -> Row] /\ process' \in [Processes -> Process]
                   /\ indexFaults' \in 0..MaxIndexFaults
  BY DEF IndexTypeOK, Row, Process

LEMMA IndexInitInv == IndexAssumption /\ IndexInit => IndexInv
<1> SUFFICES ASSUME IndexAssumption, IndexInit PROVE IndexInv
  OBVIOUS
<1>1. LastRevision \in Nat /\ MaxRuns \in Nat /\ MaxIndexFaults \in Nat
  BY DEF IndexAssumption
<1>2. NoRun \in Row /\ AtRest \in Process
  BY <1>1 DEF NoRun, AtRest, Row, Process
<1>3. IndexTypeOK
  BY <1>1, <1>2, IndexTypes DEF IndexInit
<1>4. \A x \in Counted : x = {}
  BY DEF Counted, IndexInit, NoRun, AtRest
<1>5. CountsInv
  BY <1>4 DEF CountsInv
<1>6. RowsInv
  BY DEF RowsInv, IndexInit, NoRun
<1>7. \A p \in Processes : process[p].pc = "idle"
  BY DEF IndexInit, AtRest
<1> QED BY <1>3, <1>5, <1>6, <1>7 DEF IndexInv, RebuildInv, CountedIsIndexed

\* The counts of a step are counts of before, all there is now, or nothing.
LEMMA CountsNext ==
  ASSUME CountsInv, revisions \subseteq revisions',
         \A r \in Runs : reindex'[r].counted \in Counted \cup {revisions, {}},
         \A p \in Processes : process'[p].counted \in Counted \cup {revisions, {}}
  PROVE  CountsInv'
<1>1. Counted' = {reindex'[r].counted : r \in Runs}
                 \cup {process'[p].counted : p \in Processes}
  BY DEF Counted
<1>2. \A x \in Counted' : x \in Counted \/ x = revisions \/ x = {}
  BY <1>1
<1>3. \A x \in Counted' : x \subseteq revisions
  BY <1>2 DEF CountsInv
<1>4. \A x, y \in Counted' : x \subseteq y \/ y \subseteq x
  <2> TAKE x, y \in Counted'
  <2>1. CASE x \in Counted /\ y \in Counted
    BY <2>1 DEF CountsInv
  <2>2. CASE x = revisions \/ y = revisions \/ x = {} \/ y = {}
    BY <2>2, <1>3
  <2> QED BY <2>1, <2>2, <1>2
<1> QED BY <1>3, <1>4 DEF CountsInv

LEMMA IsCounted ==
  /\ \A r \in Runs : reindex[r].counted \in Counted
  /\ \A p \in Processes : process[p].counted \in Counted
  BY DEF Counted

\* A row whose status alone changes.
LEMMA StatusSet ==
  ASSUME reindex \in [Runs -> Row], NEW q \in Runs, NEW s \in {"running", "failed", "completed"},
         reindex' = [reindex EXCEPT ![q].status = s]
  PROVE  /\ reindex' \in [Runs -> Row]
         /\ \A r \in Runs : /\ reindex'[r].counted = reindex[r].counted
                            /\ reindex'[r].cursor = reindex[r].cursor
                            /\ reindex[r].status # "none" => reindex'[r].status # "none"
  BY DEF Row

\* A process that stops.
LEMMA AtRestSet ==
  ASSUME IndexAssumption, process \in [Processes -> Process], NEW p \in Processes,
         process' = [process EXCEPT ![p] = AtRest]
  PROVE  /\ process' \in [Processes -> Process]
         /\ process'[p].pc = "idle" /\ process'[p].counted = {}
         /\ \A q \in Processes \ {p} : process'[q] = process[q]
<1>1. AtRest \in Process
  BY DEF AtRest, Process, IndexAssumption
<1> QED BY <1>1 DEF AtRest

\* A step that leaves every row's count and cursor, and every process as it is or
\* at rest.
LEMMA Rests ==
  ASSUME IndexInv, revisions \subseteq revisions', families \subseteq families',
         indexed \subseteq indexed',
         \A r \in Runs : /\ reindex'[r].counted = reindex[r].counted
                         /\ reindex'[r].cursor = reindex[r].cursor
                         /\ reindex[r].status # "none" => reindex'[r].status # "none",
         \A p \in Processes : \/ process'[p] = process[p]
                              \/ process'[p].pc = "idle" /\ process'[p].counted = {}
  PROVE  CountsInv' /\ RowsInv' /\ RebuildInv' /\ CountedIsIndexed'
<1>1. CountsInv'
  BY IsCounted, CountsNext DEF IndexInv
<1>2. RowsInv'
  BY DEF IndexInv, RowsInv
<1>3. RebuildInv'
  <2> SUFFICES ASSUME NEW p \in Processes, process'[p].pc \in {"rebuild", "completed"}
               PROVE  /\ process'[p].run \in Runs
                      /\ reindex'[process'[p].run].status # "none"
                      /\ reindex'[process'[p].run].counted = process'[p].counted
                      /\ process'[p].counted \subseteq families'
    BY DEF RebuildInv
  <2>1. process'[p] = process[p]
    OBVIOUS
  <2> QED BY <2>1 DEF IndexInv, RebuildInv
<1>4. CountedIsIndexed'
  <2> SUFFICES ASSUME NEW p \in Processes
               PROVE  /\ process'[p].pc = "rebuild" =>
                           {i \in process'[p].counted : i <= process'[p].cursor} \subseteq indexed'
                      /\ process'[p].pc = "completed" => process'[p].counted \subseteq indexed'
    BY DEF CountedIsIndexed
  <2>1. CASE process'[p] = process[p]
    BY <2>1 DEF IndexInv, CountedIsIndexed
  <2>2. CASE process'[p].pc = "idle"
    BY <2>2
  <2> QED BY <2>1, <2>2
<1> QED BY <1>1, <1>2, <1>3, <1>4

LEMMA CreateInv ==
  ASSUME IndexAssumption, IndexInv, NEW i \in Revisions, CreateKnowledgeRevision(i)
  PROVE  IndexInv'
<1>1. /\ revisions' = revisions \cup {i}
      /\ families' = families \cup ({i} \cap Known) /\ indexed' = indexed \cup ({i} \cap Known)
      /\ reindex' = reindex /\ process' = process /\ indexFaults' = indexFaults
  BY DEF CreateKnowledgeRevision
<1>2. IndexTypeOK'
  BY <1>1, IndexTypes, IndexTypesNext DEF IndexInv
<1>3. CountsInv' /\ RowsInv' /\ RebuildInv' /\ CountedIsIndexed'
  BY <1>1, Rests
<1> QED BY <1>2, <1>3 DEF IndexInv

LEMMA CountExpectedInv ==
  ASSUME IndexAssumption, IndexInv, NEW p \in Processes, CountExpected(p)
  PROVE  IndexInv'
<1> DEFINE new == [AtRest EXCEPT !.pc = "counted", !.counted = revisions]
<1>1. /\ revisions' = revisions /\ families' = families /\ indexed' = indexed
      /\ reindex' = reindex /\ indexFaults' = indexFaults
      /\ process' = [process EXCEPT ![p] = new]
  BY DEF CountExpected
<1>2. new \in Process /\ new.pc = "counted" /\ new.counted = revisions
  <2>1. revisions \in SUBSET Revisions /\ 0 \in 0..MaxRuns /\ 0 \in 0..LastRevision
    BY IndexTypes DEF IndexInv, IndexAssumption
  <2> QED BY <2>1 DEF AtRest, Process
<1>3. process \in [Processes -> Process]
  BY IndexTypes DEF IndexInv
<1>4. /\ process' \in [Processes -> Process]
      /\ process'[p].pc = "counted" /\ process'[p].counted = revisions
      /\ \A q \in Processes \ {p} : process'[q] = process[q]
  <2> HIDE DEF new
  <2> QED BY <1>1, <1>2, <1>3
<1>5. IndexTypeOK'
  BY <1>1, <1>4, IndexTypes, IndexTypesNext DEF IndexInv
<1>6. CountsInv'
  BY <1>1, <1>4, IsCounted, CountsNext DEF IndexInv
<1>7. RowsInv'
  BY <1>1 DEF IndexInv, RowsInv
<1>8. RebuildInv'
  BY <1>1, <1>4 DEF IndexInv, RebuildInv
<1>9. CountedIsIndexed'
  BY <1>1, <1>4 DEF IndexInv, CountedIsIndexed
<1> QED BY <1>5, <1>6, <1>7, <1>8, <1>9 DEF IndexInv

\* Setup takes a row that has counted as many as the process, or a free one: either
\* way the row stands for the count of the process from then on.
LEMMA SetupTakes ==
  ASSUME IndexAssumption, IndexInv, NEW p \in Processes, Setup(p)
  PROVE  \E r \in Runs, row \in Row :
            /\ row.counted = process[p].counted
            /\ {i \in row.counted : i <= row.cursor} \subseteq indexed
            /\ reindex[r].status = "none" \/ row = reindex[r]
            /\ reindex' = [reindex EXCEPT ![r] = [row EXCEPT !.status = "running"]]
            /\ process' = [process EXCEPT ![p].pc = "rebuild", ![p].run = r,
                                          ![p].cursor = row.cursor]
<1> DEFINE counted == process[p].counted
           resumed == Resumable(counted)
           fresh == {r \in Runs : reindex[r].status = "none"}
           Begin(r, row) ==
              /\ reindex' = [reindex EXCEPT ![r] = [row EXCEPT !.status = "running"]]
              /\ process' = [process EXCEPT ![p].pc = "rebuild", ![p].run = r,
                                            ![p].cursor = row.cursor]
<1>1. /\ reindex \in [Runs -> Row] /\ process \in [Processes -> Process]
      /\ revisions \subseteq Revisions
  BY IndexTypes DEF IndexInv
<1>2. MaxRuns \in Nat /\ Runs \subseteq 0..MaxRuns
  BY DEF IndexAssumption, Runs
<1>3. \/ resumed # {} /\ Begin(Max(resumed), reindex[Max(resumed)])
      \/ fresh # {} /\ Begin(Min(fresh), [NoRun EXCEPT !.counted = counted])
  BY DEF Setup
<1>4. CASE resumed # {} /\ Begin(Max(resumed), reindex[Max(resumed)])
  <2> DEFINE r == Max(resumed)
  <2>1. resumed \in SUBSET (0..MaxRuns)
    BY <1>2 DEF Resumable
  <2>2. r \in resumed
    <3> HIDE DEF resumed
    <3> QED BY <1>2, <1>4, <2>1, GreatestExists
  <2>3. r \in Runs /\ Cardinality(reindex[r].counted) = Cardinality(counted)
    BY <2>2 DEF Resumable
  <2> HIDE DEF r
  <2>4. reindex[r].counted = counted
    <3>1. reindex[r].counted \in Counted /\ counted \in Counted
      BY <2>3, IsCounted
    <3>2. /\ reindex[r].counted \subseteq Revisions /\ counted \subseteq Revisions
          /\ reindex[r].counted \subseteq counted \/ counted \subseteq reindex[r].counted
      BY <3>1, <1>1 DEF IndexInv, CountsInv
    <3>3. IsFiniteSet(reindex[r].counted) /\ IsFiniteSet(counted)
      BY <3>2, RevisionsFinite, FS_Subset
    <3>4. CASE reindex[r].counted \subseteq counted
      BY <3>3, <3>4, <2>3, FS_Subset
    <3>5. CASE counted \subseteq reindex[r].counted
      BY <3>3, <3>5, <2>3, FS_Subset
    <3> QED BY <3>2, <3>4, <3>5
  <2>5. Begin(r, reindex[r])
    BY <1>4 DEF r
  <2>6. reindex[r] \in Row
    BY <1>1, <2>3
  <2>7. {i \in reindex[r].counted : i <= reindex[r].cursor} \subseteq indexed
    BY <2>3 DEF IndexInv, RowsInv
  <2> QED BY <2>3, <2>4, <2>5, <2>6, <2>7
<1>5. CASE fresh # {} /\ Begin(Min(fresh), [NoRun EXCEPT !.counted = counted])
  <2> DEFINE r == Min(fresh)
             row == [NoRun EXCEPT !.counted = counted]
  <2>1. fresh \in SUBSET (0..MaxRuns)
    BY <1>2
  <2>2. r \in fresh
    <3> HIDE DEF fresh
    <3> QED BY <1>2, <1>5, <2>1, LeastExists
  <2>3. r \in Runs /\ reindex[r].status = "none"
    BY <2>2
  <2>4. row \in Row /\ row.counted = counted /\ row.cursor = 0
    BY <1>1 DEF NoRun, Row, Process, IndexAssumption
  <2>5. {i \in row.counted : i <= row.cursor} \subseteq indexed
    <3>1. \A i \in counted : ~(i <= 0)
      BY <1>1 DEF Process, Revisions
    <3> HIDE DEF row
    <3> QED BY <2>4, <3>1
  <2>6. Begin(r, row)
    BY <1>5
  <2> HIDE DEF r, row
  <2> QED BY <2>3, <2>4, <2>5, <2>6
<1> QED BY <1>3, <1>4, <1>5

LEMMA SetupInv ==
  ASSUME IndexAssumption, IndexInv, NEW p \in Processes, Setup(p)
  PROVE  IndexInv'
<1>1. /\ revisions' = revisions /\ indexed' = indexed /\ indexFaults' = indexFaults
      /\ families' = families \cup revisions /\ process[p].pc = "counted"
  BY DEF Setup
<1>2. /\ revisions \subseteq Revisions /\ indexed \subseteq families
      /\ families \subseteq revisions
      /\ reindex \in [Runs -> Row] /\ process \in [Processes -> Process]
      /\ indexFaults \in 0..MaxIndexFaults
  BY IndexTypes DEF IndexInv
<1>3. PICK r \in Runs, row \in Row :
            /\ row.counted = process[p].counted
            /\ {i \in row.counted : i <= row.cursor} \subseteq indexed
            /\ reindex[r].status = "none" \/ row = reindex[r]
            /\ reindex' = [reindex EXCEPT ![r] = [row EXCEPT !.status = "running"]]
            /\ process' = [process EXCEPT ![p].pc = "rebuild", ![p].run = r,
                                          ![p].cursor = row.cursor]
  BY SetupTakes
<1>4. /\ reindex' \in [Runs -> Row]
      /\ reindex'[r].status = "running" /\ reindex'[r].counted = row.counted
      /\ reindex'[r].cursor = row.cursor
      /\ \A q \in Runs \ {r} : reindex'[q] = reindex[q]
  BY <1>2, <1>3 DEF Row
<1>5. process' \in [Processes -> Process]
  <2>1. r \in 0..MaxRuns /\ row.cursor \in 0..LastRevision
    BY DEF Runs, Row, IndexAssumption
  <2> QED BY <1>2, <1>3, <2>1 DEF Process
<1>6. /\ process'[p].pc = "rebuild" /\ process'[p].run = r
      /\ process'[p].cursor = row.cursor /\ process'[p].counted = row.counted
      /\ \A q \in Processes \ {p} : process'[q] = process[q]
  BY <1>2, <1>3 DEF Process
<1>7. IndexTypeOK'
  BY <1>1, <1>2, <1>4, <1>5, IndexTypesNext
<1>8. CountsInv'
  BY <1>1, <1>3, <1>4, <1>6, IsCounted, CountsNext DEF IndexInv
<1>9. RowsInv'
  BY <1>1, <1>3, <1>4 DEF IndexInv, RowsInv
<1>10. row.counted \subseteq revisions
  BY <1>3, IsCounted DEF IndexInv, CountsInv
<1>11. RebuildInv'
  <2> SUFFICES ASSUME NEW q \in Processes, process'[q].pc \in {"rebuild", "completed"}
               PROVE  /\ process'[q].run \in Runs
                      /\ reindex'[process'[q].run].status # "none"
                      /\ reindex'[process'[q].run].counted = process'[q].counted
                      /\ process'[q].counted \subseteq families'
    BY DEF RebuildInv
  <2>1. CASE q = p
    BY <2>1, <1>1, <1>4, <1>6, <1>10
  <2>2. CASE q # p
    <3>1. process'[q] = process[q]
      BY <2>2, <1>6
    <3>2. /\ process[q].run \in Runs /\ reindex[process[q].run].status # "none"
          /\ reindex[process[q].run].counted = process[q].counted
          /\ process[q].counted \subseteq families
      BY <3>1 DEF IndexInv, RebuildInv
    <3>3. CASE process[q].run = r
      BY <3>1, <3>2, <3>3, <1>1, <1>3, <1>4
    <3>4. CASE process[q].run # r
      BY <3>1, <3>2, <3>4, <1>1, <1>4
    <3> QED BY <3>3, <3>4
  <2> QED BY <2>1, <2>2
<1>12. CountedIsIndexed'
  BY <1>1, <1>3, <1>6 DEF IndexInv, CountedIsIndexed
<1> QED BY <1>7, <1>8, <1>9, <1>11, <1>12 DEF IndexInv

\* A batch indexes what the count has between the old cursor and the new one.
LEMMA RebuildIndexBatchInv ==
  ASSUME IndexAssumption, IndexInv, NEW p \in Processes, RebuildIndexBatch(p)
  PROVE  IndexInv'
<1> DEFINE c == process[p].cursor
           r == process[p].run
           batch == Batch(c)
           top == Max(batch)
<1>1. /\ revisions \subseteq Revisions /\ indexed \subseteq families
      /\ families \subseteq revisions
      /\ reindex \in [Runs -> Row] /\ process \in [Processes -> Process]
      /\ indexFaults \in 0..MaxIndexFaults
  BY IndexTypes DEF IndexInv
<1>2. /\ process[p].pc = "rebuild" /\ batch # {}
      /\ indexed' = indexed \cup (batch \cap families)
      /\ reindex' = [reindex EXCEPT ![r].cursor = top]
      /\ process' = [process EXCEPT ![p].cursor = top]
      /\ revisions' = revisions /\ families' = families /\ indexFaults' = indexFaults
  BY DEF RebuildIndexBatch
<1>3. c \in 0..LastRevision
  BY <1>1 DEF Process
<1>4. /\ batch \subseteq After(c) /\ top \in batch /\ \A i \in batch : i <= top
      /\ \A i \in batch, j \in After(c) : j <= i => j \in batch
  BY <1>1, <1>2, <1>3, BatchIsFirst
<1>5. top \in revisions /\ top \in 0..LastRevision
  <2> HIDE DEF top, batch
  <2>1. top \in revisions
    BY <1>4 DEF After
  <2> QED BY <2>1, <1>1 DEF Revisions, IndexAssumption
<1>6. /\ r \in Runs /\ reindex[r].status # "none" /\ reindex[r].counted = process[p].counted
      /\ process[p].counted \subseteq families
  BY <1>2 DEF IndexInv, RebuildInv
<1>7. {i \in process[p].counted : i <= top} \subseteq indexed'
  <2> HIDE DEF top
  <2> SUFFICES ASSUME NEW i \in process[p].counted, i <= top PROVE i \in indexed'
    OBVIOUS
  <2>1. i \in families /\ i \in revisions /\ i \in Nat
    <3>1. i \in families
      BY <1>6
    <3>2. i \in revisions /\ i \in 1..LastRevision
      BY <1>1, <3>1 DEF Revisions
    <3> QED BY <3>1, <3>2
  <2>2. CASE i <= c
    BY <1>2, <2>2 DEF IndexInv, CountedIsIndexed
  <2>3. CASE i > c
    <3>1. i \in After(c)
      BY <2>1, <2>3 DEF After
    <3> QED BY <3>1, <1>2, <1>4, <2>1
  <2> QED BY <2>1, <2>2, <2>3, <1>3
<1> HIDE DEF top, batch
<1>8. /\ reindex' \in [Runs -> Row]
      /\ reindex'[r].status = reindex[r].status /\ reindex'[r].counted = reindex[r].counted
      /\ reindex'[r].cursor = top
      /\ \A q \in Runs \ {r} : reindex'[q] = reindex[q]
  BY <1>1, <1>2, <1>5, <1>6 DEF Row
<1>9. /\ process' \in [Processes -> Process]
      /\ process'[p].pc = "rebuild" /\ process'[p].run = r
      /\ process'[p].counted = process[p].counted /\ process'[p].cursor = top
      /\ \A q \in Processes \ {p} : process'[q] = process[q]
  BY <1>1, <1>2, <1>5 DEF Process
<1> HIDE DEF r
<1>10. IndexTypeOK'
  BY <1>1, <1>2, <1>8, <1>9, IndexTypesNext
<1>11. CountsInv'
  <2>1. \A q \in Runs : reindex'[q].counted \in Counted
    BY <1>8, IsCounted
  <2>2. \A q \in Processes : process'[q].counted \in Counted
    BY <1>9, IsCounted
  <2> QED BY <2>1, <2>2, <1>2, CountsNext DEF IndexInv
<1>12. RowsInv'
  <2> SUFFICES ASSUME NEW q \in Runs
               PROVE  {i \in reindex'[q].counted : i <= reindex'[q].cursor} \subseteq indexed'
    BY DEF RowsInv
  <2>1. CASE q = r
    BY <2>1, <1>6, <1>7, <1>8
  <2>2. CASE q # r
    BY <2>2, <1>2, <1>8 DEF IndexInv, RowsInv
  <2> QED BY <2>1, <2>2
<1>13. RebuildInv'
  <2> SUFFICES ASSUME NEW q \in Processes, process'[q].pc \in {"rebuild", "completed"}
               PROVE  /\ process'[q].run \in Runs
                      /\ reindex'[process'[q].run].status # "none"
                      /\ reindex'[process'[q].run].counted = process'[q].counted
                      /\ process'[q].counted \subseteq families'
    BY DEF RebuildInv
  <2>1. CASE q = p
    BY <2>1, <1>2, <1>6, <1>8, <1>9
  <2>2. CASE q # p
    <3>1. process'[q] = process[q]
      BY <2>2, <1>9
    <3>2. /\ process[q].run \in Runs /\ reindex[process[q].run].status # "none"
          /\ reindex[process[q].run].counted = process[q].counted
          /\ process[q].counted \subseteq families
      BY <3>1 DEF IndexInv, RebuildInv
    <3> QED BY <3>1, <3>2, <1>2, <1>8
  <2> QED BY <2>1, <2>2
<1>14. CountedIsIndexed'
  <2> SUFFICES ASSUME NEW q \in Processes
               PROVE  /\ process'[q].pc = "rebuild" =>
                           {i \in process'[q].counted : i <= process'[q].cursor} \subseteq indexed'
                      /\ process'[q].pc = "completed" => process'[q].counted \subseteq indexed'
    BY DEF CountedIsIndexed
  <2>1. CASE q = p
    BY <2>1, <1>7, <1>9
  <2>2. CASE q # p
    BY <2>2, <1>2, <1>9 DEF IndexInv, CountedIsIndexed
  <2> QED BY <2>1, <2>2
<1> QED BY <1>10, <1>11, <1>12, <1>13, <1>14 DEF IndexInv

\* A run that is recorded as failed.
LEMMA FailedInv ==
  ASSUME IndexAssumption, IndexInv, NEW p \in Processes,
         process[p].pc \in {"rebuild", "completed"},
         reindex' = [reindex EXCEPT ![process[p].run].status = "failed"],
         process' = [process EXCEPT ![p] = AtRest],
         indexFaults' \in 0..MaxIndexFaults,
         UNCHANGED <<revisions, families, indexed>>
  PROVE  IndexInv'
<1>1. /\ revisions \subseteq Revisions /\ indexed \subseteq families
      /\ families \subseteq revisions
      /\ reindex \in [Runs -> Row] /\ process \in [Processes -> Process]
  BY IndexTypes DEF IndexInv
<1>2. process[p].run \in Runs
  BY DEF IndexInv, RebuildInv
<1>3. /\ reindex' \in [Runs -> Row]
      /\ \A r \in Runs : /\ reindex'[r].counted = reindex[r].counted
                         /\ reindex'[r].cursor = reindex[r].cursor
                         /\ reindex[r].status # "none" => reindex'[r].status # "none"
  BY <1>1, <1>2, StatusSet
<1>4. /\ process' \in [Processes -> Process]
      /\ process'[p].pc = "idle" /\ process'[p].counted = {}
      /\ \A q \in Processes \ {p} : process'[q] = process[q]
  BY <1>1, AtRestSet
<1>5. IndexTypeOK'
  BY <1>1, <1>3, <1>4, IndexTypesNext
<1>6. CountsInv' /\ RowsInv' /\ RebuildInv' /\ CountedIsIndexed'
  BY <1>3, <1>4, Rests
<1> QED BY <1>5, <1>6 DEF IndexInv

\* A run is over when no revision is left after the cursor.
LEMMA CompleteInv ==
  ASSUME IndexAssumption, IndexInv, NEW p \in Processes, Complete(p)
  PROVE  IndexInv'
<1>1. /\ revisions \subseteq Revisions /\ indexed \subseteq families
      /\ families \subseteq revisions
      /\ reindex \in [Runs -> Row] /\ process \in [Processes -> Process]
      /\ indexFaults \in 0..MaxIndexFaults
  BY IndexTypes DEF IndexInv
<1>2. /\ process[p].pc = "rebuild" /\ Batch(process[p].cursor) = {}
      /\ UNCHANGED <<revisions, families, indexed, indexFaults>>
  BY DEF Complete
<1>3. \/ /\ reindex' = [reindex EXCEPT ![process[p].run].status = "failed"]
         /\ process' = [process EXCEPT ![p] = AtRest]
      \/ /\ reindex' = [reindex EXCEPT ![process[p].run].status = "completed"]
         /\ process' = [process EXCEPT ![p].pc = "completed"]
  BY DEF Complete
<1>4. CASE /\ reindex' = [reindex EXCEPT ![process[p].run].status = "failed"]
           /\ process' = [process EXCEPT ![p] = AtRest]
  BY <1>1, <1>2, <1>4, FailedInv
<1>5. CASE /\ reindex' = [reindex EXCEPT ![process[p].run].status = "completed"]
           /\ process' = [process EXCEPT ![p].pc = "completed"]
  <2>1. process[p].run \in Runs /\ process[p].counted \subseteq revisions
    <3>1. process[p].run \in Runs
      BY <1>2 DEF IndexInv, RebuildInv
    <3> QED BY <3>1, IsCounted DEF IndexInv, CountsInv
  <2>2. /\ reindex' \in [Runs -> Row]
        /\ \A r \in Runs : /\ reindex'[r].counted = reindex[r].counted
                           /\ reindex'[r].cursor = reindex[r].cursor
                           /\ reindex[r].status # "none" => reindex'[r].status # "none"
    BY <1>1, <1>5, <2>1, StatusSet
  <2>3. /\ process' \in [Processes -> Process]
        /\ process'[p].pc = "completed" /\ process'[p].counted = process[p].counted
        /\ process'[p].run = process[p].run
        /\ \A q \in Processes \ {p} : process'[q] = process[q]
    BY <1>1, <1>5 DEF Process
  <2>4. process[p].counted \subseteq indexed
    <3>1. process[p].cursor \in 0..LastRevision
      BY <1>1 DEF Process
    <3>2. After(process[p].cursor) = {}
      BY <1>1, <1>2, <3>1, BatchIsFirst
    <3>3. \A i \in process[p].counted : i <= process[p].cursor
      <4> TAKE i \in process[p].counted
      <4>1. i \in revisions /\ i \in 1..LastRevision
        BY <2>1, <1>1 DEF Revisions
      <4>2. ~(i > process[p].cursor)
        BY <4>1, <3>2 DEF After
      <4> QED BY <4>1, <4>2, <3>1
    <3> QED BY <3>3, <1>2 DEF IndexInv, CountedIsIndexed
  <2>5. IndexTypeOK'
    BY <1>1, <1>2, <2>2, <2>3, IndexTypesNext
  <2>6. \A q \in Processes : process'[q].counted = process[q].counted
    BY <2>3
  <2>7. CountsInv'
    BY <1>2, <2>2, <2>6, IsCounted, CountsNext DEF IndexInv
  <2>8. RowsInv'
    BY <1>2, <2>2 DEF IndexInv, RowsInv
  <2>9. RebuildInv'
    <3> SUFFICES ASSUME NEW q \in Processes, process'[q].pc \in {"rebuild", "completed"}
                 PROVE  /\ process'[q].run \in Runs
                        /\ reindex'[process'[q].run].status # "none"
                        /\ reindex'[process'[q].run].counted = process'[q].counted
                        /\ process'[q].counted \subseteq families'
      BY DEF RebuildInv
    <3>1. process[q].pc \in {"rebuild", "completed"} /\ process'[q].run = process[q].run
      BY <1>2, <2>3
    <3> QED BY <3>1, <1>2, <2>2, <2>6 DEF IndexInv, RebuildInv
  <2>10. CountedIsIndexed'
    BY <1>2, <2>3, <2>4 DEF IndexInv, CountedIsIndexed
  <2> QED BY <2>5, <2>7, <2>8, <2>9, <2>10 DEF IndexInv
<1> QED BY <1>3, <1>4, <1>5

LEMMA CrashInv ==
  ASSUME IndexAssumption, IndexInv, NEW p \in Processes, Crash(p)
  PROVE  IndexInv'
<1>1. /\ revisions \subseteq Revisions /\ indexed \subseteq families
      /\ families \subseteq revisions
      /\ reindex \in [Runs -> Row] /\ process \in [Processes -> Process]
      /\ indexFaults \in 0..MaxIndexFaults
  BY IndexTypes DEF IndexInv
<1>2. /\ process' = [process EXCEPT ![p] = AtRest]
      /\ UNCHANGED <<revisions, families, indexed, reindex>>
      /\ indexFaults < MaxIndexFaults /\ indexFaults' = indexFaults + 1
  BY DEF Crash, Fault
<1>3. /\ process' \in [Processes -> Process]
      /\ process'[p].pc = "idle" /\ process'[p].counted = {}
      /\ \A q \in Processes \ {p} : process'[q] = process[q]
  BY <1>1, <1>2, AtRestSet
<1>4. indexFaults' \in 0..MaxIndexFaults
  BY <1>1, <1>2 DEF IndexAssumption
<1>5. IndexTypeOK'
  BY <1>1, <1>2, <1>3, <1>4, IndexTypesNext
<1>6. CountsInv' /\ RowsInv' /\ RebuildInv' /\ CountedIsIndexed'
  BY <1>2, <1>3, Rests
<1> QED BY <1>5, <1>6 DEF IndexInv

LEMMA IndexNextInv == IndexAssumption /\ IndexInv /\ [IndexNext]_indexVars => IndexInv'
<1> SUFFICES ASSUME IndexAssumption, IndexInv, [IndexNext]_indexVars PROVE IndexInv'
  OBVIOUS
<1>1. ASSUME NEW i \in Revisions, CreateKnowledgeRevision(i) PROVE IndexInv'
  BY <1>1, CreateInv
<1>2. ASSUME NEW p \in Processes, CountExpected(p) PROVE IndexInv'
  BY <1>2, CountExpectedInv
<1>3. ASSUME NEW p \in Processes, Setup(p) PROVE IndexInv'
  BY <1>3, SetupInv
<1>4. ASSUME NEW p \in Processes, RebuildIndexBatch(p) PROVE IndexInv'
  BY <1>4, RebuildIndexBatchInv
<1>5. ASSUME NEW p \in Processes, Complete(p) PROVE IndexInv'
  BY <1>5, CompleteInv
<1>6. ASSUME NEW p \in Processes, Fail(p) PROVE IndexInv'
  <2>1. indexFaults' \in 0..MaxIndexFaults
    <3>1. indexFaults \in 0..MaxIndexFaults
      BY IndexTypes DEF IndexInv
    <3> QED BY <3>1, <1>6 DEF Fail, Fault, IndexAssumption
  <2> QED BY <1>6, <2>1, FailedInv DEF Fail
<1>7. ASSUME NEW p \in Processes, Crash(p) PROVE IndexInv'
  BY <1>7, CrashInv
<1>8. CASE UNCHANGED indexVars
  <2>1. /\ revisions' = revisions /\ families' = families /\ indexed' = indexed
        /\ reindex' = reindex /\ process' = process /\ indexFaults' = indexFaults
    BY <1>8 DEF indexVars
  <2>2. IndexTypeOK'
    BY <2>1, IndexTypes, IndexTypesNext DEF IndexInv
  <2>3. CountsInv' /\ RowsInv' /\ RebuildInv' /\ CountedIsIndexed'
    BY <2>1, Rests
  <2> QED BY <2>2, <2>3 DEF IndexInv
<1> QED BY <1>1, <1>2, <1>3, <1>4, <1>5, <1>6, <1>7, <1>8 DEF IndexNext

LEMMA IndexInvariant == ASSUME IndexAssumption PROVE IndexSpec => []IndexInv
  BY IndexInitInv, IndexNextInv, PTL DEF IndexSpec

\* The rows of the index, its runs and its processes keep their types.
THEOREM IndexTyped == ASSUME IndexAssumption PROVE IndexSpec => []IndexTypeOK
<1>1. IndexInv => IndexTypeOK
  BY DEF IndexInv
<1> QED BY <1>1, IndexInvariant, PTL

\* However many processes rebuild the index, stop and resume each other's runs while
\* revisions are published: what a process has counted is indexed up to its cursor,
\* and all of it once it has completed.
THEOREM NothingCountedIsMissed ==
  ASSUME IndexAssumption PROVE IndexSpec => []CountedIsIndexed
<1>1. IndexInv => CountedIsIndexed
  BY DEF IndexInv
<1> QED BY <1>1, IndexInvariant, PTL

-----------------------------------------------------------------------------
(* The review of changes.  The checks of an open review are those of its      *)
(* lines, and a verdict is "passed" only when every check has passed.         *)

ChecksInv ==
    \A t \in Handles :
        session[t].status = "open" =>
            session[t].review.checks =
                VerificationChecksForRules(UNION {RuleOf(l) : l \in session[t].review.lines})

ReviewInv == ReviewTypeOK /\ ChecksInv

LEMMA ReviewTyped ==
  ASSUME NEW lines \in SUBSET Lines
  PROVE  BuildNetworkChangeReview(lines) \in
            [lines : SUBSET Lines, checks : SUBSET Checks, risk : {"low", "medium", "high"}]
<1>1. Risk(lines) \in {"low", "medium", "high"}
  BY DEF Risk
<1>2. \A rules : VerificationChecksForRules(rules) \in SUBSET Checks
  BY DEF VerificationChecksForRules, Checks
<1> QED BY <1>1, <1>2 DEF BuildNetworkChangeReview

LEMMA VerdictTyped ==
  /\ \A statuses : Verdict(statuses) \in {"failed", "passed", "partial", "indeterminate"}
  /\ \A statuses : Verdict(statuses) = "passed" =>
        "failed" \notin statuses /\ "indeterminate" \notin statuses
  BY DEF Verdict

LEMMA ReviewInitInv == ReviewAssumption /\ ReviewInit => ReviewInv
<1> SUFFICES ASSUME ReviewAssumption, ReviewInit PROVE ReviewInv
  OBVIOUS
<1>1. NoReview \in [lines : SUBSET Lines, checks : SUBSET Checks,
                    risk : {"low", "medium", "high"}]
  BY DEF NoReview
<1>2. session \in [Handles -> Session]
  BY <1>1 DEF ReviewInit, Session
<1>3. answer \in Verification
  BY DEF ReviewInit, Verification, Results, ReviewAssumption
<1>4. ChecksInv
  BY DEF ReviewInit, ChecksInv
<1> QED BY <1>2, <1>3, <1>4 DEF ReviewInv, ReviewTypeOK

LEMMA ReviewNextInv == ReviewInv /\ [ReviewNext]_reviewVars => ReviewInv'
<1> SUFFICES ASSUME ReviewInv, [ReviewNext]_reviewVars PROVE ReviewInv'
  OBVIOUS
<1>0. session \in [Handles -> Session] /\ answer \in Verification
  BY DEF ReviewInv, ReviewTypeOK
<1>1. ASSUME NEW t \in Handles, NEW lines \in NormalizedChangeLines,
             ReviewNetworkChange(t, lines)
      PROVE  ReviewInv'
  <2> DEFINE review == BuildNetworkChangeReview(lines)
             new == [status |-> "open", review |-> review]
  <2>1. review \in [lines : SUBSET Lines, checks : SUBSET Checks,
                    risk : {"low", "medium", "high"}]
    <3>1. lines \in SUBSET Lines
      BY DEF NormalizedChangeLines
    <3> HIDE DEF review
    <3> QED BY <3>1, ReviewTyped DEF review
  <2>2. /\ review.lines = lines
        /\ review.checks = VerificationChecksForRules(UNION {RuleOf(l) : l \in lines})
    BY DEF BuildNetworkChangeReview
  <2>3. session' = [session EXCEPT ![t] = new] /\ answer' = answer
    BY <1>1 DEF ReviewNetworkChange
  <2> HIDE DEF review
  <2>4. new \in Session
    BY <2>1 DEF Session
  <2>5. session' \in [Handles -> Session]
    BY <1>0, <2>3, <2>4
  <2>6. ChecksInv'
    BY <1>0, <2>2, <2>3 DEF ReviewInv, ChecksInv
  <2> QED BY <1>0, <2>3, <2>5, <2>6 DEF ReviewInv, ReviewTypeOK
<1>2. ASSUME NEW t \in Handles, ExpireReview(t) PROVE ReviewInv'
  <2>1. session' = [session EXCEPT ![t].status = "expired"] /\ answer' = answer
    BY <1>2 DEF ExpireReview
  <2>2. /\ session' \in [Handles -> Session] /\ session'[t].status = "expired"
        /\ \A u \in Handles \ {t} : session'[u] = session[u]
    BY <1>0, <2>1 DEF Session
  <2>3. ChecksInv'
    BY <2>2 DEF ReviewInv, ChecksInv
  <2> QED BY <1>0, <2>1, <2>2, <2>3 DEF ReviewInv, ReviewTypeOK
<1>3. ASSUME NEW t \in Handles, CleanupExpiredData(t) PROVE ReviewInv'
  <2>1. /\ session' = [session EXCEPT ![t].status = "absent", ![t].review = NoReview]
        /\ answer' = answer
    BY <1>3 DEF CleanupExpiredData
  <2>2. NoReview \in [lines : SUBSET Lines, checks : SUBSET Checks,
                      risk : {"low", "medium", "high"}]
    BY DEF NoReview
  <2>3. /\ session' \in [Handles -> Session] /\ session'[t].status = "absent"
        /\ \A u \in Handles \ {t} : session'[u] = session[u]
    BY <1>0, <2>1, <2>2 DEF Session
  <2>4. ChecksInv'
    BY <2>3 DEF ReviewInv, ChecksInv
  <2> QED BY <1>0, <2>1, <2>3, <2>4 DEF ReviewInv, ReviewTypeOK
<1>4. ASSUME NEW t \in Handles, NEW before \in Outputs, NEW after \in Outputs,
             VerifyNetworkChange(t, before, after)
      PROVE  ReviewInv'
  <2>1. session' = session
    BY <1>4 DEF VerifyNetworkChange
  <2>2. LoadVerificationPayload(t) \in {"open", "expired", "invalid"}
    BY DEF LoadVerificationPayload
  <2>3. PICK statuses :
           answer' = [token |-> t, before |-> before, after |-> after,
                      result |-> IF LoadVerificationPayload(t) = "open"
                                 THEN Verdict(statuses) ELSE LoadVerificationPayload(t)]
    BY <1>4 DEF VerifyNetworkChange
  <2>4. answer' \in Verification
    BY <2>2, <2>3, VerdictTyped DEF Verification, Results
  <2> QED BY <1>0, <2>1, <2>4 DEF ReviewInv, ReviewTypeOK, ChecksInv
<1>5. CASE UNCHANGED reviewVars
  BY <1>5 DEF reviewVars, ReviewInv, ReviewTypeOK, ChecksInv
<1> QED BY <1>1, <1>2, <1>3, <1>4, <1>5 DEF ReviewNext

LEMMA ReviewInvariant == ASSUME ReviewAssumption PROVE ReviewSpec => []ReviewInv
  BY ReviewInitInv, ReviewNextInv, PTL DEF ReviewSpec

\* Reviews and answers keep their types.
THEOREM ReviewsTyped == ASSUME ReviewAssumption PROVE ReviewSpec => []ReviewTypeOK
<1>1. ReviewInv => ReviewTypeOK
  BY DEF ReviewInv
<1> QED BY <1>1, ReviewInvariant, PTL

\* Outputs are the same without their secrets if their marks and texts are.
LEMMA Sanitized ==
  ASSUME ReviewAssumption
  PROVE  /\ \A o \in Outputs : /\ SanitizeSnapshot(o).marks = o.marks
                               /\ SanitizeSnapshot(o).text = o.text
         /\ \A o, p \in Outputs : o.marks = p.marks /\ o.text = p.text =>
               SanitizeSnapshot(o) = SanitizeSnapshot(p)
<1> DEFINE M == {o.marks : o \in Outputs}
           T == {o.text : o \in Outputs}
           Pieces == [marks : M, text : T, secret : BOOLEAN]
<1>1. Outputs \subseteq Pieces
  BY DEF ReviewAssumption
<1> HIDE DEF M, T
<1>2. ASSUME NEW o \in Pieces
      PROVE  /\ SanitizeSnapshot(o) \in Pieces
             /\ SanitizeSnapshot(o).marks = o.marks /\ SanitizeSnapshot(o).text = o.text
             /\ SanitizeSnapshot(o).secret = FALSE
  BY DEF SanitizeSnapshot
<1>3. ASSUME NEW x \in Pieces, NEW y \in Pieces, x.marks = y.marks, x.text = y.text, x.secret = y.secret
      PROVE  x = y
  BY <1>3
<1>4. \A o \in Outputs : /\ SanitizeSnapshot(o) \in Pieces
                         /\ SanitizeSnapshot(o).marks = o.marks
                         /\ SanitizeSnapshot(o).text = o.text
                         /\ SanitizeSnapshot(o).secret = FALSE
  BY <1>1, <1>2
<1>5. ASSUME NEW o \in Outputs, NEW p \in Outputs, o.marks = p.marks, o.text = p.text
      PROVE  SanitizeSnapshot(o) = SanitizeSnapshot(p)
  <2> DEFINE x == SanitizeSnapshot(o)
             y == SanitizeSnapshot(p)
  <2>1. /\ x \in Pieces /\ y \in Pieces /\ x.marks = y.marks /\ x.text = y.text
        /\ x.secret = y.secret
    BY <1>4, <1>5
  <2> HIDE DEF x, y, Pieces
  <2>2. x = y
    BY <2>1, <1>3
  <2> QED BY <2>2 DEF x, y
<1> QED BY <1>4, <1>5

LEMMA CheckPasses ==
  ASSUME ReviewAssumption, NEW b \in Outputs, NEW a \in Outputs, NEW c,
         NEW status, status = CheckStatus(c, SanitizeSnapshot(b), SanitizeSnapshot(a)),
         status \notin {"failed", "indeterminate"}
  PROVE  /\ c = "no_critical_errors" => "critical" \notin a.marks
         /\ c = "output_changed" => a.text # Empty /\ (b.text # a.text \/ b.marks # a.marks)
         /\ c \notin {"no_critical_errors", "output_changed"} => c \in a.marks
<1> DEFINE x == SanitizeSnapshot(b)
           y == SanitizeSnapshot(a)
<1>2. y.marks = a.marks /\ y.text = a.text
  BY Sanitized
<1>3. x # y => b.text # a.text \/ b.marks # a.marks
  BY Sanitized
<1>4. status = CheckStatus(c, x, y)
  OBVIOUS
<1> HIDE DEF x, y
<1>5. CASE c = "no_critical_errors"
  BY <1>2, <1>4, <1>5 DEF CheckStatus
<1>6. CASE c = "output_changed"
  BY <1>2, <1>3, <1>4, <1>6 DEF CheckStatus
<1>7. CASE c \notin {"no_critical_errors", "output_changed"}
  BY <1>2, <1>4, <1>7 DEF CheckStatus
<1> QED BY <1>5, <1>6, <1>7

\* What the outputs must show of a change that is said to have passed.
AsShown(rules, before, after) ==
    /\ "critical" \notin after.marks
    /\ rules \ {"read_only_operation"} # {} =>
          /\ before.text # after.text \/ before.marks # after.marks
          /\ after.text # Empty
    /\ "interface_state_change" \in rules => "interface_state" \in after.marks
    /\ {"routing_process_change", "static_route_change"} \cap rules # {} =>
          "routing_state" \in after.marks
    /\ "acl_change" \in rules => "acl_state" \in after.marks

RulesOf(t) == UNION {RuleOf(l) : l \in session[t].review.lines}

LEMMA VerifyShows ==
  ASSUME ReviewAssumption, ReviewInv, NEW t \in Handles,
         NEW before \in Outputs, NEW after \in Outputs,
         VerifyNetworkChange(t, before, after), answer'.result = "passed"
  PROVE  /\ answer'.token = t /\ answer'.before = before /\ answer'.after = after
         /\ AsShown(RulesOf(t), before, after)
<1> DEFINE b == SanitizeSnapshot(before)
           a == SanitizeSnapshot(after)
           checks == session[t].review.checks
           statuses == {CheckStatus(c, b, a) : c \in checks}
<1>1. answer' = [token |-> t, before |-> before, after |-> after,
                 result |-> IF LoadVerificationPayload(t) = "open" THEN Verdict(statuses)
                            ELSE LoadVerificationPayload(t)]
  BY DEF VerifyNetworkChange
<1>2. LoadVerificationPayload(t) = "open" /\ Verdict(statuses) = "passed"
  <2> HIDE DEF statuses
  <2> QED BY <1>1 DEF LoadVerificationPayload
<1>3. session[t].status = "open"
  BY <1>2 DEF LoadVerificationPayload
<1>4. checks = VerificationChecksForRules(RulesOf(t))
  BY <1>3 DEF ReviewInv, ChecksInv, RulesOf
<1>5. "failed" \notin statuses /\ "indeterminate" \notin statuses
  <2> HIDE DEF statuses
  <2> QED BY <1>2, VerdictTyped
<1>6. \A c \in checks : CheckStatus(c, b, a) \notin {"failed", "indeterminate"}
  <2> HIDE DEF checks, b, a
  <2> QED BY <1>5
<1>7. \A c \in checks :
         /\ c = "no_critical_errors" => "critical" \notin after.marks
         /\ c = "output_changed" =>
               after.text # Empty /\ (before.text # after.text \/ before.marks # after.marks)
         /\ c \notin {"no_critical_errors", "output_changed"} => c \in after.marks
  BY <1>6, CheckPasses
<1> HIDE DEF checks, statuses, b, a
<1>8. AsShown(RulesOf(t), before, after)
  BY <1>4, <1>7 DEF VerificationChecksForRules, AsShown
<1> QED BY <1>1, <1>8

\* For any reviews, verified with any outputs as often as a client likes: a change is
\* said to have passed only when its outputs show it.
THEOREM PassedChangesShow == ASSUME ReviewAssumption PROVE ReviewSpec => PassedIsShown
<1> DEFINE Step == answer' # answer /\ answer'.result = "passed" =>
                      AsShown(RulesOf(answer'.token), answer'.before, answer'.after)
<1>1. ReviewInv /\ [ReviewNext]_reviewVars => [Step]_reviewVars
  <2> SUFFICES ASSUME ReviewInv, ReviewNext, answer' # answer, answer'.result = "passed"
               PROVE  AsShown(RulesOf(answer'.token), answer'.before, answer'.after)
    BY DEF reviewVars
  <2>1. PICK t \in Handles, before \in Outputs, after \in Outputs :
           VerifyNetworkChange(t, before, after)
    BY DEF ReviewNext, ReviewNetworkChange, ExpireReview, CleanupExpiredData
  <2> QED BY <2>1, VerifyShows
<1>2. (ReviewSpec => [][Step]_reviewVars) => (ReviewSpec => PassedIsShown)
  BY DEF PassedIsShown, AsShown, RulesOf
<1> QED BY <1>1, <1>2, ReviewInvariant, PTL DEF ReviewSpec

-----------------------------------------------------------------------------
(* The operations feed.  Once the page has an overview, the request it waits  *)
(* for was sent after the transitions arrived, so its answer counts them.     *)

\* What a page waits to show was committed, and so was what an answer lists.
ListedInv ==
    /\ waiting # Absent => waiting \subseteq committed
    /\ listing # Absent /\ listing.reply # Absent => listing.reply.ids \subseteq committed

\* The answer a page with an overview waits for counts what the page waits to show.
WaitedInv ==
    overview # Absent /\ waiting # Absent /\ fetching # Absent /\ fetching.reply # Absent =>
        waiting \subseteq fetching.reply

FeedInv == ListedInv /\ WaitedInv

LEMMA FeedInitInv == FeedInit => FeedInv
  BY DEF FeedInit, FeedInv, ListedInv, WaitedInv

LEMMA ListedIds == \A after : Listed(after).ids \subseteq committed
  BY DEF Listed

LEMMA FeedNextInv == FeedInv /\ [FeedNext]_feedVars => FeedInv'
<1> SUFFICES ASSUME FeedInv, [FeedNext]_feedVars PROVE FeedInv'
  OBVIOUS
<1> USE DEF FeedInv
<1>1. CASE Write
  <2>1. committed \subseteq committed'
    BY <1>1 DEF Write, RecordPipelineTransition, EndTransaction
  <2> QED BY <1>1, <2>1 DEF Write, ListedInv, WaitedInv
<1>2. ASSUME committed' = committed, PollTransitions PROVE FeedInv'
  <2>1. listing' # Absent => listing'.reply = Absent
    BY <1>2 DEF PollTransitions
  <2> QED BY <1>2, <2>1 DEF PollTransitions, ListedInv, WaitedInv
<1>3. ASSUME committed' = committed, ServeTransitions PROVE FeedInv'
  <2>1. listing' = [listing EXCEPT !.reply = Listed(listing.after)]
    BY <1>3 DEF ServeTransitions
  <2>2. listing'.reply # Absent => listing'.reply.ids \subseteq committed
    BY <2>1, ListedIds
  <2> QED BY <1>3, <2>2 DEF ServeTransitions, ListedInv, WaitedInv
<1>4. ASSUME committed' = committed, LoseTransitions PROVE FeedInv'
  BY <1>4 DEF LoseTransitions, ListedInv, WaitedInv
<1>5. ASSUME committed' = committed, DeliverTransitions PROVE FeedInv'
  <2>1. /\ listing' = Absent /\ overview' = overview
        /\ listing # Absent /\ listing.reply # Absent
    BY <1>5 DEF DeliverTransitions
  <2>2. CASE waiting' = waiting /\ fetching' = fetching
    BY <1>5, <2>1, <2>2 DEF ListedInv, WaitedInv
  <2>3. CASE waiting' = Absent
    BY <1>5, <2>1, <2>3 DEF ListedInv, WaitedInv
  <2>4. CASE waiting' = listing.reply.ids /\ fetching' = Refetch
    <3>1. overview # Absent => fetching'.reply = Absent
      BY <2>4 DEF Refetch
    <3> QED BY <1>5, <2>1, <2>4, <3>1 DEF ListedInv, WaitedInv
  <2> QED BY <1>5, <2>2, <2>3, <2>4 DEF DeliverTransitions
<1>6. ASSUME committed' = committed, PollOverview PROVE FeedInv'
  <2>1. fetching'.reply = Absent
    BY <1>6 DEF PollOverview
  <2> QED BY <1>6, <2>1 DEF PollOverview, ListedInv, WaitedInv
<1>7. ASSUME committed' = committed, ServeOverview PROVE FeedInv'
  <2>1. fetching'.reply = committed
    BY <1>7 DEF ServeOverview
  <2> QED BY <1>7, <2>1 DEF ServeOverview, ListedInv, WaitedInv
<1>8. ASSUME committed' = committed, DeliverOverview PROVE FeedInv'
  BY <1>8 DEF DeliverOverview, ListedInv, WaitedInv
<1>9. ASSUME committed' = committed, LoseOverview PROVE FeedInv'
  BY <1>9 DEF LoseOverview, ListedInv, WaitedInv
<1>10. CASE UNCHANGED feedVars
  BY <1>10 DEF feedVars, ListedInv, WaitedInv
<1>11. CASE Browse
  BY <1>2, <1>3, <1>4, <1>5, <1>6, <1>7, <1>8, <1>9, <1>11 DEF Browse, database
<1> QED BY <1>1, <1>10, <1>11 DEF FeedNext

\* For any writers, page size and order in which requests are sent, answered, lost and
\* cancelled: a page with an overview begins to show transitions only with an overview
\* that counts them.
THEOREM ShownIsCounted == FeedSpec => AnimatedTransitionsAreCounted
<1> DEFINE Step == visible' # visible /\ overview # Absent => visible' \subseteq overview'
<1>1. FeedInv /\ [FeedNext]_feedVars => [Step]_feedVars
  <2> SUFFICES ASSUME FeedInv, FeedNext, visible' # visible, overview # Absent
               PROVE  visible' \subseteq overview'
    BY DEF feedVars
  <2>1. DeliverOverview
    BY DEF FeedNext, Write, Browse, PollTransitions, ServeTransitions, LoseTransitions,
           DeliverTransitions, PollOverview, ServeOverview, LoseOverview
  <2> QED BY <2>1 DEF DeliverOverview, FeedInv, WaitedInv
<1>2. FeedSpec => []FeedInv
  BY FeedInitInv, FeedNextInv, PTL DEF FeedSpec
<1>3. (FeedSpec => [][Step]_feedVars) => (FeedSpec => AnimatedTransitionsAreCounted)
  BY DEF AnimatedTransitionsAreCounted
<1> QED BY <1>1, <1>2, <1>3, PTL DEF FeedSpec

-----------------------------------------------------------------------------
(* The workbench.  An answer is applied to the case with the version it was *)
(* asked for.  That suffices because a version is never used for two        *)
(* questions, contexts or evidences: the committed copy an operation read   *)
(* may be older than the case on the page, but a copy of the same version   *)
(* has the same question, and so has every request made of it.              *)

\* The clauses of ShownBelongsToCase, of any copy of the case.
Belongs(c) ==
    /\ c.snapshot # NoData => c.snapshot = c.evidence
    /\ c.search # NoData =>
          /\ c.search.of = c.version
          /\ c.search.question = c.question
          /\ c.search.context = c.context
    /\ c.creds # NoData =>
          /\ c.creds.of = c.version
          /\ c.creds.question = c.question
          /\ c.creds.context = c.context

\* A copy is of an older version, or it asks what the case asks.
OlderOrSame(c, d) ==
    /\ c.version <= d.version
    /\ c.version = d.version =>
          c.question = d.question /\ c.context = d.context /\ c.evidence = d.evidence

Asks(r) == r.op \in {"search", "hash", "research", "status"}

\* A request of the case's version is made of the case's inputs.
AskedOf(r, c) ==
    /\ r.version <= c.version
    /\ r.op = "analyze" => r.evidence \in Evidences
    /\ Asks(r) => r.question \in Questions /\ r.context \in Contexts
    /\ r.version = c.version /\ r.op = "analyze" => r.evidence = c.evidence
    /\ r.version = c.version /\ r.op \in {"search", "hash", "research"} =>
          r.question = c.question /\ r.context = c.context

WorkbenchInv ==
    /\ CaseTypeOK
    /\ versionRef = ui.version
    /\ Belongs(ui) /\ Belongs(live)
    /\ OlderOrSame(live, ui)
    /\ \A r \in requests : AskedOf(r, ui)

LEMMA WorkbenchInitInv == CaseAssumption /\ CaseInit => WorkbenchInv
<1> SUFFICES ASSUME CaseAssumption, CaseInit PROVE WorkbenchInv
  OBVIOUS
<1>1. PICK q \in Questions : ui = [BlankCase EXCEPT !.question = q]
  BY DEF CaseInit
<1>2. 1 \in 1..MaxCaseVersion
  BY DEF CaseAssumption
<1>3. ui \in Case /\ ui.version = 1 /\ ui.snapshot = NoData /\ ui.search = NoData
      /\ ui.creds = NoData
  <2>1. BlankCase \in Case
    BY <1>2 DEF Case, BlankCase
  <2>2. q \in Questions \cup {NoData}
    OBVIOUS
  <2>3. ui \in Case
    BY <1>1, <2>1, <2>2 DEF Case
  <2>4. BlankCase.version = 1 /\ BlankCase.snapshot = NoData /\ BlankCase.search = NoData
        /\ BlankCase.creds = NoData
    BY DEF BlankCase
  <2> QED
    <3> DEFINE b == BlankCase
    <3>1. b \in Case /\ b.version = 1 /\ b.snapshot = NoData /\ b.search = NoData
          /\ b.creds = NoData /\ ui = [b EXCEPT !.question = q]
      BY <1>1, <2>1, <2>4
    <3> HIDE DEF b
    <3> QED BY <2>3, <3>1 DEF Case
<1>4. CaseTypeOK
  BY <1>2, <1>3 DEF CaseInit, CaseTypeOK
<1>5. Belongs(ui) /\ OlderOrSame(ui, ui)
  BY <1>3 DEF Belongs, OlderOrSame
<1> QED BY <1>3, <1>4, <1>5 DEF CaseInit, WorkbenchInv

\* An edited case, one version on, shows nothing that was derived.
LEMMA Advanced ==
  ASSUME WorkbenchInv, CaseAssumption, versionRef < MaxCaseVersion, NEW e \in Case
  PROVE  /\ AdvancedCase(e) \in Case
         /\ AdvancedCase(e).version = ui.version + 1
         /\ Belongs(AdvancedCase(e))
         /\ AdvancedCase(e).evidence = e.evidence
<1>1. versionRef + 1 \in 1..MaxCaseVersion
  BY DEF WorkbenchInv, CaseTypeOK, CaseAssumption
<1> QED BY <1>1 DEF WorkbenchInv, AdvancedCase, Case, Belongs

\* Copies and requests of the version before stay in order under a newer case.
LEMMA NewVersion ==
  ASSUME WorkbenchInv, CaseAssumption, NEW c \in Case, c.version = ui.version + 1
  PROVE  /\ OlderOrSame(live, c)
         /\ OlderOrSame(c, c)
         /\ \A r \in requests : AskedOf(r, c)
<1>1. ui.version \in Nat /\ live.version \in Nat
  BY DEF WorkbenchInv, CaseTypeOK, Case, CaseAssumption
<1>2. \A r \in requests : r.version \in Nat
  BY DEF WorkbenchInv, CaseTypeOK, Request, CaseAssumption
<1> QED BY <1>1, <1>2 DEF WorkbenchInv, OlderOrSame, AskedOf

\* Replacing one derived field leaves the inputs of the case as they are.
SameInputs(c, d) ==
    /\ c.version = d.version /\ c.question = d.question
    /\ c.context = d.context /\ c.evidence = d.evidence

LEMMA InputsKept ==
  ASSUME WorkbenchInv, NEW c, SameInputs(c, ui)
  PROVE  OlderOrSame(live, c) /\ \A r \in requests : AskedOf(r, c)
BY DEF WorkbenchInv, SameInputs, OlderOrSame, AskedOf

LEMMA UserEditInv ==
  ASSUME CaseAssumption, WorkbenchInv, NEW e \in Case, UserEdit(e)
  PROVE  WorkbenchInv'
<1> DEFINE c == AdvancedCase(e)
<1>1. versionRef < MaxCaseVersion /\ ui' = c /\ live' = c /\ versionRef' = versionRef + 1
      /\ requests' \subseteq requests /\ armed' = FALSE /\ touched' = FALSE
      /\ pollLost' = FALSE /\ server' = server
  BY DEF UserEdit, Survivors
<1>2. c \in Case /\ c.version = ui.version + 1 /\ Belongs(c)
  BY <1>1, Advanced
<1> HIDE DEF c
<1>3. OlderOrSame(c, c) /\ \A r \in requests : AskedOf(r, c)
  BY <1>2, NewVersion
<1>4. versionRef + 1 \in 1..MaxCaseVersion
  BY <1>1 DEF WorkbenchInv, CaseTypeOK, CaseAssumption
<1>5. CaseTypeOK'
  BY <1>1, <1>2, <1>4 DEF WorkbenchInv, CaseTypeOK
<1>6. Belongs(ui)' /\ Belongs(live)' /\ OlderOrSame(live, ui)'
  BY <1>1, <1>2, <1>3 DEF Belongs, OlderOrSame
<1>7. \A r \in requests' : AskedOf(r, ui)'
  BY <1>1, <1>3 DEF AskedOf, Asks
<1>8. versionRef' = ui'.version
  BY <1>1, <1>2 DEF WorkbenchInv
<1> QED BY <1>5, <1>6, <1>7, <1>8 DEF WorkbenchInv

\* A request added to those in flight.
LEMMA RequestInv ==
  ASSUME WorkbenchInv, UNCHANGED <<ui, live, versionRef, touched, server, pollLost>>,
         armed' \in BOOLEAN,
         \A r \in requests' : r \in requests \/ (r \in Request /\ AskedOf(r, ui))
  PROVE  WorkbenchInv'
<1>1. CaseTypeOK'
  BY DEF WorkbenchInv, CaseTypeOK
<1>2. \A r \in requests' : AskedOf(r, ui)'
  BY DEF WorkbenchInv, AskedOf, Asks
<1>3. Belongs(ui)' /\ Belongs(live)' /\ OlderOrSame(live, ui)' /\ (versionRef = ui.version)'
  BY DEF WorkbenchInv, Belongs, OlderOrSame
<1> QED BY <1>1, <1>2, <1>3 DEF WorkbenchInv

\* A derived field is filled in, with what belongs to the case.
LEMMA FilledInv ==
  ASSUME WorkbenchInv, NEW c \in Case, SameInputs(c, ui), Belongs(c), ui' = c,
         UNCHANGED <<live, versionRef, server>>, armed' \in BOOLEAN,
         touched' \in BOOLEAN, pollLost' \in BOOLEAN, requests' \subseteq requests
  PROVE  WorkbenchInv'
<1>1. CaseTypeOK'
  BY DEF WorkbenchInv, CaseTypeOK
<1>2. OlderOrSame(live, c) /\ \A r \in requests : AskedOf(r, c)
  BY InputsKept
<1>3. Belongs(ui)' /\ Belongs(live)' /\ OlderOrSame(live, ui)'
  BY <1>2 DEF WorkbenchInv, Belongs, OlderOrSame
<1>4. \A r \in requests' : AskedOf(r, ui)'
  BY <1>2 DEF AskedOf, Asks
<1>5. (versionRef = ui.version)'
  BY DEF WorkbenchInv, SameInputs
<1> QED BY <1>1, <1>3, <1>4, <1>5 DEF WorkbenchInv

\* An answer brings the page a case of the next version, still to be committed.
LEMMA NextVersionInv ==
  ASSUME CaseAssumption, WorkbenchInv, versionRef < MaxCaseVersion, NEW c \in Case,
         c.version = ui.version + 1, Belongs(c), ui' = c, versionRef' = versionRef + 1,
         requests' = Survivors, touched' = TRUE, pollLost' = FALSE,
         UNCHANGED <<live, armed, server>>
  PROVE  WorkbenchInv'
<1>1. requests' \subseteq requests
  BY DEF Survivors
<1>2. OlderOrSame(live, c) /\ \A r \in requests : AskedOf(r, c)
  BY NewVersion
<1>3. versionRef + 1 \in 1..MaxCaseVersion
  BY DEF WorkbenchInv, CaseTypeOK, CaseAssumption
<1>4. CaseTypeOK'
  BY <1>1, <1>3 DEF WorkbenchInv, CaseTypeOK
<1>5. Belongs(ui)' /\ Belongs(live)' /\ OlderOrSame(live, ui)'
  BY <1>2 DEF WorkbenchInv, Belongs, OlderOrSame
<1>6. \A r \in requests' : AskedOf(r, ui)'
  BY <1>1, <1>2 DEF AskedOf, Asks
<1>7. (versionRef = ui.version)'
  BY DEF WorkbenchInv
<1> QED BY <1>4, <1>5, <1>6, <1>7 DEF WorkbenchInv

LEMMA FieldsTyped ==
  ASSUME NEW c \in Case
  PROVE  /\ \A q \in Questions \cup {NoData} : [c EXCEPT !.question = q] \in Case
         /\ \A x \in Contexts \cup {NoData} : [c EXCEPT !.context = x] \in Case
         /\ \A e \in Evidences : [c EXCEPT !.evidence = e] \in Case
         /\ \A e \in Evidences : [c EXCEPT !.evidence = e, !.context = NoData] \in Case
<1>1. ASSUME NEW q \in Questions \cup {NoData} PROVE [c EXCEPT !.question = q] \in Case
  BY DEF Case
<1>2. ASSUME NEW x \in Contexts \cup {NoData} PROVE [c EXCEPT !.context = x] \in Case
  BY DEF Case
<1>3. ASSUME NEW e \in Evidences PROVE [c EXCEPT !.evidence = e] \in Case
  BY DEF Case
<1>4. ASSUME NEW e \in Evidences PROVE [c EXCEPT !.evidence = e, !.context = NoData] \in Case
  BY DEF Case
<1> QED BY <1>1, <1>2, <1>3, <1>4

LEMMA RequestFields ==
  ASSUME NEW r \in Request
  PROVE  /\ \A e \in Evidences : LET n == [r EXCEPT !.evidence = e]
               IN n \in Request /\ n.op = r.op /\ n.version = r.version /\ n.evidence = e
         /\ \A v \in 1..MaxCaseVersion : LET n == [r EXCEPT !.version = v]
               IN n \in Request /\ n.op = r.op /\ n.version = v
<1>1. ASSUME NEW e \in Evidences
      PROVE  LET n == [r EXCEPT !.evidence = e]
             IN n \in Request /\ n.op = r.op /\ n.version = r.version /\ n.evidence = e
  BY DEF Request
<1>2. ASSUME NEW v \in 1..MaxCaseVersion
      PROVE  LET n == [r EXCEPT !.version = v]
             IN n \in Request /\ n.op = r.op /\ n.version = v
  BY DEF Request
<1> QED BY <1>1, <1>2

LEMMA EditsInv ==
  ASSUME CaseAssumption, WorkbenchInv
  PROVE  /\ UpdateQuestion => WorkbenchInv'
         /\ UpdateContext => WorkbenchInv'
         /\ UpdateEvidence => WorkbenchInv'
         /\ Reset => WorkbenchInv'
         /\ ToggleShare => WorkbenchInv'
<1>0. ui \in Case /\ armed \in BOOLEAN /\ touched \in BOOLEAN /\ pollLost \in BOOLEAN
  BY DEF WorkbenchInv, CaseTypeOK
<1>1. ASSUME UpdateQuestion PROVE WorkbenchInv'
  <2>1. PICK q \in Questions : UserEdit([ui EXCEPT !.question = q])
    BY <1>1 DEF UpdateQuestion
  <2>2. [ui EXCEPT !.question = q] \in Case
    BY <1>0, FieldsTyped
  <2> QED BY <2>1, <2>2, UserEditInv
<1>2. ASSUME UpdateContext PROVE WorkbenchInv'
  <2>1. PICK x \in Contexts \cup {NoData} : UserEdit([ui EXCEPT !.context = x])
    BY <1>2 DEF UpdateContext
  <2>2. [ui EXCEPT !.context = x] \in Case
    BY <1>0, FieldsTyped
  <2> QED BY <2>1, <2>2, UserEditInv
<1>3. ASSUME UpdateEvidence PROVE WorkbenchInv'
  <2>1. PICK e \in Evidences : \/ UserEdit([ui EXCEPT !.evidence = e])
                               \/ UserEdit([ui EXCEPT !.evidence = e, !.context = NoData])
    BY <1>3 DEF UpdateEvidence
  <2>2. [ui EXCEPT !.evidence = e] \in Case /\ [ui EXCEPT !.evidence = e, !.context = NoData] \in Case
    BY <1>0, FieldsTyped
  <2> QED BY <2>1, <2>2, UserEditInv
<1>4. ASSUME Reset PROVE WorkbenchInv'
  <2> DEFINE e == [ui EXCEPT !.question = NoData, !.evidence = NoData,
                             !.context = NoData, !.share = FALSE]
  <2>1. e \in Case
    BY <1>0 DEF Case
  <2>2. UserEdit(e)
    BY <1>4 DEF Reset, UserEdit
  <2> QED BY <2>1, <2>2, UserEditInv
<1>5. ASSUME ToggleShare PROVE WorkbenchInv'
  <2>1. ui' = [ui EXCEPT !.share = ~@] /\ live' = ui' /\ versionRef' = ui.version
        /\ armed' \in BOOLEAN /\ touched' = FALSE /\ requests' = requests
        /\ server' = server /\ pollLost' = pollLost
    BY <1>0, <1>5 DEF ToggleShare, Polls
  <2>2. ui' \in Case /\ SameInputs(ui', ui) /\ ui'.snapshot = ui.snapshot
        /\ ui'.search = ui.search /\ ui'.creds = ui.creds
    <3> DEFINE share == ~ui.share
    <3>1. ui' = [ui EXCEPT !.share = share] /\ share \in BOOLEAN
      BY <2>1
    <3> HIDE DEF share
    <3>2. ui' \in Case
      BY <1>0, <3>1 DEF Case
    <3>3. SameInputs(ui', ui) /\ ui'.snapshot = ui.snapshot
          /\ ui'.search = ui.search /\ ui'.creds = ui.creds
      BY <1>0, <3>1 DEF Case, SameInputs
    <3> QED BY <3>2, <3>3
  <2>3. Belongs(ui') /\ Belongs(ui)' /\ Belongs(live)'
    BY <2>1, <2>2 DEF WorkbenchInv, Belongs, SameInputs
  <2>4. OlderOrSame(live, ui)'
    BY <2>1, <2>2 DEF OlderOrSame, Case, CaseAssumption
  <2>5. \A r \in requests : AskedOf(r, ui')
    BY <2>2, InputsKept
  <2>6. \A r \in requests' : AskedOf(r, ui)'
    BY <2>1, <2>5 DEF AskedOf, Asks
  <2>7. CaseTypeOK'
    BY <2>1, <2>2 DEF WorkbenchInv, CaseTypeOK
  <2> QED BY <2>1, <2>2, <2>3, <2>4, <2>6, <2>7 DEF WorkbenchInv, SameInputs
<1> QED BY <1>1, <1>2, <1>3, <1>4, <1>5

LEMMA CommitInv == ASSUME CaseAssumption, WorkbenchInv, Commit PROVE WorkbenchInv'
<1>0. ui \in Case /\ armed \in BOOLEAN
  BY DEF WorkbenchInv, CaseTypeOK
<1>1. live' = ui /\ ui' = ui /\ versionRef' = ui.version /\ armed' \in BOOLEAN
      /\ touched' = FALSE /\ requests' = requests /\ server' = server /\ pollLost' = pollLost
  BY <1>0 DEF Commit, Polls
<1>2. CaseTypeOK'
  BY <1>0, <1>1 DEF WorkbenchInv, CaseTypeOK
<1>3. Belongs(ui)' /\ Belongs(live)' /\ OlderOrSame(live, ui)'
  BY <1>0, <1>1 DEF WorkbenchInv, Belongs, OlderOrSame, Case, CaseAssumption
<1>4. \A r \in requests' : AskedOf(r, ui)'
  BY <1>1 DEF WorkbenchInv, AskedOf, Asks
<1> QED BY <1>1, <1>2, <1>3, <1>4 DEF WorkbenchInv

LEMMA NewRequestTyped ==
  ASSUME CaseAssumption, WorkbenchInv, NEW op \in Operations, NEW by \in Actors
  PROVE  /\ NewRequest(op, by) \in Request
         /\ NewRequest(op, by).version = live.version
         /\ NewRequest(op, by).op = op
<1>1. live.version \in 1..MaxCaseVersion
  BY DEF WorkbenchInv, CaseTypeOK, Case
<1> QED BY <1>1 DEF NewRequest, Request

LEMMA StartsInv ==
  ASSUME CaseAssumption, WorkbenchInv, NEW by \in {"manual", "agent"}
  PROVE  /\ StartAnalyze(by) => WorkbenchInv'
         /\ StartSearch(by) => WorkbenchInv'
         /\ StartResearch(by) => WorkbenchInv'
<1>0. /\ live \in Case /\ live.version \in 1..MaxCaseVersion /\ ui.version \in Nat
      /\ live.version <= ui.version /\ by \in Actors /\ armed \in BOOLEAN
      /\ live.version = ui.version => live.question = ui.question /\ live.context = ui.context
                                      /\ live.evidence = ui.evidence
  BY DEF WorkbenchInv, CaseTypeOK, Case, OlderOrSame, Actors, CaseAssumption
<1>1. ASSUME StartAnalyze(by) PROVE WorkbenchInv'
  <2> DEFINE r == [NewRequest("analyze", by) EXCEPT !.evidence = live.evidence]
  <2>1. live.evidence \in Evidences
    BY <1>0, <1>1 DEF StartAnalyze, Case
  <2>2. r \in Request /\ r.op = "analyze" /\ r.version = live.version
        /\ r.evidence = live.evidence
    <3> DEFINE n == NewRequest("analyze", by)
    <3>1. n \in Request /\ n.op = "analyze" /\ n.version = live.version
      BY <1>0, NewRequestTyped DEF Operations
    <3> HIDE DEF n
    <3>2. LET m == [n EXCEPT !.evidence = live.evidence]
          IN m \in Request /\ m.op = n.op /\ m.version = n.version /\ m.evidence = live.evidence
      BY <2>1, <3>1, RequestFields
    <3> QED BY <3>1, <3>2 DEF n
  <2>3. requests' = requests \cup {r} /\ UNCHANGED <<ui, live, versionRef, touched, server, pollLost>>
        /\ armed' = armed
    BY <1>1 DEF StartAnalyze, Start
  <2> HIDE DEF r
  <2>4. AskedOf(r, ui)
    BY <1>0, <2>1, <2>2 DEF AskedOf, Asks
  <2> QED BY <1>0, <2>2, <2>3, <2>4, RequestInv
<1>2. ASSUME NEW op \in {"search", "hash"}, live.question \in Questions,
             live.context \in Contexts, Start(QuestionRequest(op, by), by)
      PROVE  WorkbenchInv'
  <2> DEFINE r == QuestionRequest(op, by)
  <2>1. op \in Operations
    BY DEF Operations
  <2>2. r \in Request /\ r.op = op /\ r.version = live.version
        /\ r.question = live.question /\ r.context = live.context
    <3> DEFINE n == NewRequest(op, by)
    <3>1. n \in Request /\ n.op = op /\ n.version = live.version
      BY <1>0, <2>1, NewRequestTyped
    <3> HIDE DEF n
    <3>2. r = [n EXCEPT !.question = live.question, !.context = live.context]
      BY DEF n, QuestionRequest
    <3> HIDE DEF r
    <3> QED BY <1>2, <3>1, <3>2 DEF Request
  <2>3. requests' = requests \cup {r} /\ UNCHANGED <<ui, live, versionRef, touched, server, pollLost>>
        /\ armed' = armed
    BY <1>2 DEF Start
  <2> HIDE DEF r
  <2>4. AskedOf(r, ui)
    BY <1>0, <1>2, <2>2 DEF AskedOf, Asks
  <2> QED BY <1>0, <2>2, <2>3, <2>4, RequestInv
<1>3. ASSUME StartSearch(by) PROVE WorkbenchInv'
  <2>1. live.question \in Questions /\ live.context \in Contexts
    BY <1>0, <1>3 DEF StartSearch, Case
  <2> QED BY <1>2, <1>3, <2>1 DEF StartSearch
<1>4. ASSUME StartResearch(by) PROVE WorkbenchInv'
  <2>1. live.search # NoData /\ live.context # NoData
    BY <1>4 DEF StartResearch
  <2>2. live.search.question = live.question /\ live.search.question \in Questions
    BY <1>0, <2>1 DEF WorkbenchInv, Belongs, Case
  <2>3. live.question \in Questions /\ live.context \in Contexts
    BY <1>0, <2>1, <2>2 DEF Case
  <2> QED BY <1>2, <1>4, <2>3 DEF StartResearch
<1> QED BY <1>1, <1>3, <1>4

LEMMA StatusInv ==
  ASSUME CaseAssumption, WorkbenchInv
  PROVE  /\ AgentStatus => WorkbenchInv'
         /\ PollTimer => WorkbenchInv'
         /\ StartFiles => WorkbenchInv'
<1>0. /\ live \in Case /\ live.version \in 1..MaxCaseVersion /\ ui.version \in Nat
      /\ versionRef \in 1..MaxCaseVersion /\ versionRef = ui.version
      /\ live.version <= ui.version /\ armed \in BOOLEAN
  BY DEF WorkbenchInv, CaseTypeOK, Case, OlderOrSame, CaseAssumption
<1>1. ASSUME NEW by \in Actors, HasCredentials
      PROVE  StatusRequest(by) \in Request /\ AskedOf(StatusRequest(by), ui)
  <2>1. live.creds.question \in Questions /\ live.creds.context \in Contexts
    BY <1>0, <1>1 DEF HasCredentials, Case
  <2> DEFINE r == StatusRequest(by)
  <2>2. r \in Request /\ r.op = "status" /\ r.version = live.version
        /\ r.question = live.creds.question /\ r.context = live.creds.context
    <3> DEFINE n == NewRequest("status", by)
    <3>1. n \in Request /\ n.op = "status" /\ n.version = live.version
      BY NewRequestTyped DEF Operations
    <3> HIDE DEF n
    <3>2. r = [n EXCEPT !.question = live.creds.question, !.context = live.creds.context]
      BY DEF n, StatusRequest
    <3> HIDE DEF r
    <3> QED BY <2>1, <3>1, <3>2 DEF Request
  <2> HIDE DEF r
  <2>3. AskedOf(r, ui)
    BY <1>0, <2>1, <2>2 DEF AskedOf, Asks
  <2> QED BY <2>2, <2>3 DEF r
<1>2. ASSUME AgentStatus PROVE WorkbenchInv'
  BY <1>0, <1>1, <1>2, RequestInv DEF AgentStatus, Actors
<1>3. ASSUME PollTimer PROVE WorkbenchInv'
  BY <1>0, <1>1, <1>3, RequestInv DEF PollTimer, Actors
<1>4. ASSUME StartFiles PROVE WorkbenchInv'
  <2> DEFINE r == [NewRequest("files", "manual") EXCEPT !.version = versionRef]
  <2>1. r \in Request /\ r.op = "files" /\ r.version = versionRef
    BY <1>0, NewRequestTyped, RequestFields DEF Operations, Actors
  <2>2. requests' = requests \cup {r} /\ UNCHANGED <<ui, live, versionRef, touched, server, pollLost>>
        /\ armed' = armed
    BY <1>4 DEF StartFiles
  <2> HIDE DEF r
  <2>3. AskedOf(r, ui)
    BY <1>0, <2>1 DEF AskedOf, Asks
  <2> QED BY <1>0, <2>1, <2>2, <2>3, RequestInv
<1> QED BY <1>2, <1>3, <1>4

LEMMA InFlightInv ==
  ASSUME CaseAssumption, WorkbenchInv, NEW r \in requests
  PROVE  /\ SendResearch(r) => WorkbenchInv'
         /\ Answer(r) => WorkbenchInv'
         /\ FailRequest(r) => WorkbenchInv'
         /\ Outdated(r) => WorkbenchInv'
<1>0. /\ r \in Request /\ AskedOf(r, ui) /\ ui \in Case /\ armed \in BOOLEAN
      /\ touched \in BOOLEAN /\ pollLost \in BOOLEAN /\ Belongs(ui)
      /\ server \in [Questions \X Contexts -> TaskStatuses \cup {NoTask}]
  BY DEF WorkbenchInv, CaseTypeOK
<1>1. ASSUME SendResearch(r) PROVE WorkbenchInv'
  <2> DEFINE n == [r EXCEPT !.op = "research"]
  <2>1. n \in Request /\ n.op = "research" /\ r.op = "hash" /\ n.version = r.version
        /\ n.question = r.question /\ n.context = r.context
    BY <1>0, <1>1 DEF Request, Operations, SendResearch
  <2>2. requests' = (requests \ {r}) \cup {n} /\ armed' = armed
        /\ UNCHANGED <<ui, live, versionRef, touched, server, pollLost>>
    BY <1>1 DEF SendResearch
  <2> HIDE DEF n
  <2>3. AskedOf(n, ui)
    BY <1>0, <2>1 DEF AskedOf, Asks
  <2> QED BY <1>0, <2>1, <2>2, <2>3, RequestInv
<1>2. ASSUME NEW found \in SUBSET Refs, NEW status \in TaskStatuses \cup {NoData},
             NEW n, \/ n = [r EXCEPT !.replied = TRUE]
                    \/ n = [r EXCEPT !.replied = TRUE, !.answers = found]
                    \/ n = [r EXCEPT !.replied = TRUE, !.status = status]
      PROVE  n \in Request /\ AskedOf(n, ui)
  <2>1. /\ n \in Request /\ n.op = r.op /\ n.version = r.version /\ n.question = r.question
        /\ n.context = r.context /\ n.evidence = r.evidence
    <3>1. CASE n = [r EXCEPT !.replied = TRUE]
      BY <1>0, <3>1 DEF Request
    <3>2. CASE n = [r EXCEPT !.replied = TRUE, !.answers = found]
      BY <1>0, <3>2 DEF Request
    <3>3. CASE n = [r EXCEPT !.replied = TRUE, !.status = status]
      BY <1>0, <3>3 DEF Request
    <3> QED BY <1>2, <3>1, <3>2, <3>3
  <2> QED BY <1>0, <2>1 DEF AskedOf, Asks
<1>3. ASSUME Answer(r) PROVE WorkbenchInv'
  <2>0. UNCHANGED <<ui, live, versionRef, touched, pollLost>> /\ armed' \in BOOLEAN
    BY <1>0, <1>3 DEF Answer
  <2>1. CASE /\ r.op \in {"analyze", "files"}
             /\ requests' = (requests \ {r}) \cup {[r EXCEPT !.replied = TRUE]}
             /\ UNCHANGED server
    <3> DEFINE n == [r EXCEPT !.replied = TRUE]
    <3>1. n \in Request /\ AskedOf(n, ui)
      BY <1>2
    <3>2. requests' = (requests \ {r}) \cup {n}
      BY <2>1
    <3> HIDE DEF n
    <3> QED BY <2>0, <2>1, <3>1, <3>2, RequestInv
  <2>2. CASE /\ r.op = "search"
             /\ \E found \in SUBSET Refs :
                   requests' = (requests \ {r}) \cup
                       {[r EXCEPT !.replied = TRUE, !.answers = found]}
             /\ UNCHANGED server
    <3>0. PICK found \in SUBSET Refs : requests' = (requests \ {r}) \cup
                       {[r EXCEPT !.replied = TRUE, !.answers = found]}
      BY <2>2
    <3> DEFINE n == [r EXCEPT !.replied = TRUE, !.answers = found]
    <3>1. n \in Request /\ AskedOf(n, ui)
      BY <1>2
    <3>2. requests' = (requests \ {r}) \cup {n}
      BY <3>0
    <3> HIDE DEF n
    <3> QED BY <2>0, <2>2, <3>1, <3>2, RequestInv
  <2>3. CASE /\ r.op \in {"research", "status"}
             /\ LET known == server[<<r.question, r.context>>]
                    status == IF known = NoTask THEN "researching" ELSE known
                IN /\ server' = [server EXCEPT ![<<r.question, r.context>>] = status]
                   /\ requests' = (requests \ {r}) \cup
                          {[r EXCEPT !.replied = TRUE, !.status = status]}
    <3> DEFINE known == server[<<r.question, r.context>>]
               status == IF known = NoTask THEN "researching" ELSE known
               n == [r EXCEPT !.replied = TRUE, !.status = status]
    <3>1. server' = [server EXCEPT ![<<r.question, r.context>>] = status]
          /\ requests' = (requests \ {r}) \cup {n}
      BY <2>3
    <3>2. r.question \in Questions /\ r.context \in Contexts
      BY <1>0, <2>3 DEF AskedOf, Asks
    <3>3. known \in TaskStatuses \cup {NoTask}
      BY <1>0, <3>2
    <3>4. status \in TaskStatuses
      BY <3>3 DEF TaskStatuses
    <3> HIDE DEF status
    <3>5. n \in Request /\ AskedOf(n, ui)
      BY <1>2, <3>4
    <3> HIDE DEF n, known
    <3>6. server' \in [Questions \X Contexts -> TaskStatuses \cup {NoTask}]
      BY <1>0, <3>1, <3>4
    <3>7. \A o \in requests' : o \in Request /\ AskedOf(o, ui)
      BY <3>1, <3>5 DEF WorkbenchInv, CaseTypeOK
    <3>8. CaseTypeOK'
      BY <2>0, <3>6, <3>7 DEF WorkbenchInv, CaseTypeOK
    <3>9. \A o \in requests' : AskedOf(o, ui)'
      BY <2>0, <3>7 DEF AskedOf, Asks
    <3>10. Belongs(ui)' /\ Belongs(live)' /\ OlderOrSame(live, ui)' /\ (versionRef = ui.version)'
      BY <2>0 DEF WorkbenchInv, Belongs, OlderOrSame
    <3> QED BY <3>8, <3>9, <3>10 DEF WorkbenchInv
  <2> QED BY <1>3, <2>1, <2>2, <2>3 DEF Answer
<1>4. SameInputs(ui, ui)
  BY DEF SameInputs
<1>5. ASSUME FailRequest(r) PROVE WorkbenchInv'
  BY <1>0, <1>4, <1>5, FilledInv DEF FailRequest, Ended, Request
<1>6. ASSUME Outdated(r) PROVE WorkbenchInv'
  BY <1>0, <1>4, <1>6, FilledInv DEF Outdated, Ended
<1> QED BY <1>1, <1>3, <1>5, <1>6

LEMMA ProgressInv == ASSUME CaseAssumption, WorkbenchInv, Progress PROVE WorkbenchInv'
<1>1. UNCHANGED <<ui, live, versionRef, requests, armed, touched, pollLost>>
  BY DEF Progress
<1>2. PICK q \in Questions, c \in Contexts :
         server' = [server EXCEPT ![<<q, c>>] = "settled"]
  BY DEF Progress
<1>3. server' \in [Questions \X Contexts -> TaskStatuses \cup {NoTask}]
  BY <1>2 DEF WorkbenchInv, CaseTypeOK, TaskStatuses
<1>4. CaseTypeOK'
  BY <1>1, <1>3 DEF WorkbenchInv, CaseTypeOK
<1> QED BY <1>1, <1>4 DEF WorkbenchInv, Belongs, OlderOrSame, AskedOf, Asks

\* What an answer fills in, if it is of the version on the page.
LEMMA FilledTyped ==
  ASSUME WorkbenchInv
  PROVE  /\ \A e \in Evidences : LET n == [ui EXCEPT !.snapshot = e]
               IN /\ n \in Case /\ SameInputs(n, ui) /\ n.snapshot = e
                  /\ n.search = ui.search /\ n.creds = ui.creds
         /\ \A s \in [of: 1..MaxCaseVersion, question: Questions,
                      context: Contexts, answers: SUBSET Refs] :
               LET n == [ui EXCEPT !.search = s]
               IN /\ n \in Case /\ SameInputs(n, ui) /\ n.search = s
                  /\ n.snapshot = ui.snapshot /\ n.creds = ui.creds
         /\ \A a \in [of: 1..MaxCaseVersion, refs: SUBSET Refs] :
               LET n == [ui EXCEPT !.analysis = a]
               IN /\ n \in Case /\ SameInputs(n, ui) /\ n.search = ui.search
                  /\ n.snapshot = ui.snapshot /\ n.creds = ui.creds
         /\ \A s \in TaskStatuses \cup {NoData} :
               LET n == [ui EXCEPT !.research = s]
               IN /\ n \in Case /\ SameInputs(n, ui) /\ n.search = ui.search
                  /\ n.snapshot = ui.snapshot /\ n.creds = ui.creds
<1>0. ui \in Case
  BY DEF WorkbenchInv, CaseTypeOK
<1>1. ASSUME NEW e \in Evidences
      PROVE  LET n == [ui EXCEPT !.snapshot = e]
             IN /\ n \in Case /\ SameInputs(n, ui) /\ n.snapshot = e
                /\ n.search = ui.search /\ n.creds = ui.creds
  BY <1>0 DEF Case, SameInputs
<1>2. ASSUME NEW s \in [of: 1..MaxCaseVersion, question: Questions,
                        context: Contexts, answers: SUBSET Refs]
      PROVE  LET n == [ui EXCEPT !.search = s]
             IN /\ n \in Case /\ SameInputs(n, ui) /\ n.search = s
                /\ n.snapshot = ui.snapshot /\ n.creds = ui.creds
  BY <1>0 DEF Case, SameInputs
<1>3. ASSUME NEW a \in [of: 1..MaxCaseVersion, refs: SUBSET Refs]
      PROVE  LET n == [ui EXCEPT !.analysis = a]
             IN /\ n \in Case /\ SameInputs(n, ui) /\ n.search = ui.search
                /\ n.snapshot = ui.snapshot /\ n.creds = ui.creds
  BY <1>0 DEF Case, SameInputs
<1>4. ASSUME NEW s \in TaskStatuses \cup {NoData}
      PROVE  LET n == [ui EXCEPT !.research = s]
             IN /\ n \in Case /\ SameInputs(n, ui) /\ n.search = ui.search
                /\ n.snapshot = ui.snapshot /\ n.creds = ui.creds
  BY <1>0 DEF Case, SameInputs
<1> QED BY <1>1, <1>2, <1>3, <1>4

LEMMA AnalyzedInv ==
  ASSUME CaseAssumption, WorkbenchInv, NEW r \in requests, ApplyAnalyze(r)
  PROVE  WorkbenchInv'
<1>0. /\ ui \in Case /\ r.op = "analyze" /\ r.version = ui.version /\ AskedOf(r, ui)
      /\ armed \in BOOLEAN /\ touched \in BOOLEAN /\ pollLost \in BOOLEAN /\ Belongs(ui)
      /\ UNCHANGED <<live, armed, server>>
  BY DEF WorkbenchInv, CaseTypeOK, ApplyAnalyze, Expected
<1>1. r.evidence \in Evidences /\ r.evidence = ui.evidence
  BY <1>0 DEF AskedOf
<1>2. CASE /\ ui' = [ui EXCEPT !.snapshot = r.evidence]
           /\ UNCHANGED <<versionRef, touched, pollLost>>
           /\ Ended(r)
  <2> DEFINE n == [ui EXCEPT !.snapshot = r.evidence]
  <2>1. n \in Case /\ SameInputs(n, ui) /\ n.snapshot = ui.evidence
        /\ n.search = ui.search /\ n.creds = ui.creds
    BY <1>1, FilledTyped
  <2>2. ui' = n /\ UNCHANGED <<versionRef, touched, pollLost>> /\ requests' \subseteq requests
    BY <1>2 DEF Ended
  <2> HIDE DEF n
  <2>3. Belongs(n)
    BY <1>0, <2>1 DEF Belongs, SameInputs
  <2> QED BY <1>0, <2>1, <2>2, <2>3, FilledInv
<1>3. CASE /\ versionRef < MaxCaseVersion
           /\ \E c \in Contexts :
                 ui' = [AdvancedCase(ui) EXCEPT !.context = c, !.snapshot = r.evidence]
           /\ versionRef' = versionRef + 1
           /\ requests' = Survivors
           /\ touched' = TRUE
           /\ pollLost' = FALSE
  <2>1. PICK c \in Contexts :
           ui' = [AdvancedCase(ui) EXCEPT !.context = c, !.snapshot = r.evidence]
    BY <1>3
  <2> DEFINE a == AdvancedCase(ui)
             n == [a EXCEPT !.context = c, !.snapshot = r.evidence]
  <2>2. a \in Case /\ a.version = ui.version + 1 /\ a.evidence = ui.evidence
    BY <1>0, <1>3, Advanced
  <2>3. a.search = NoData /\ a.creds = NoData
    BY <1>0 DEF AdvancedCase, Case
  <2> HIDE DEF a
  <2>4. n \in Case /\ n.version = ui.version + 1 /\ n.evidence = ui.evidence
        /\ n.snapshot = ui.evidence /\ n.search = NoData /\ n.creds = NoData
    BY <1>1, <2>2, <2>3 DEF Case
  <2>5. ui' = n
    BY <2>1 DEF a
  <2> HIDE DEF n
  <2>6. Belongs(n)
    BY <2>4 DEF Belongs
  <2> QED BY <1>0, <1>3, <2>4, <2>5, <2>6, NextVersionInv
<1> QED BY <1>2, <1>3 DEF ApplyAnalyze

LEMMA AppliedInv ==
  ASSUME CaseAssumption, WorkbenchInv, NEW r \in requests
  PROVE  /\ ApplySearch(r) => WorkbenchInv'
         /\ ApplyResearch(r) => WorkbenchInv'
         /\ ApplyStatus(r) => WorkbenchInv'
         /\ ApplyFiles(r) => WorkbenchInv'
<1>0. /\ ui \in Case /\ AskedOf(r, ui) /\ r \in Request /\ versionRef = ui.version
      /\ armed \in BOOLEAN /\ touched \in BOOLEAN /\ pollLost \in BOOLEAN /\ Belongs(ui)
  BY DEF WorkbenchInv, CaseTypeOK
<1>1. r.version \in 1..MaxCaseVersion /\ r.answers \in SUBSET Refs
      /\ r.status \in TaskStatuses \cup {NoData}
  BY <1>0 DEF Request
<1>2. ASSUME ApplySearch(r) PROVE WorkbenchInv'
  <2> DEFINE s == [of |-> r.version, question |-> r.question,
                   context |-> r.context, answers |-> r.answers]
             n == [ui EXCEPT !.search = s]
  <2>1. r.question \in Questions /\ r.context \in Contexts /\ r.version = ui.version
        /\ r.question = ui.question /\ r.context = ui.context
    BY <1>0, <1>2 DEF AskedOf, Asks, ApplySearch, Expected
  <2>2. s \in [of: 1..MaxCaseVersion, question: Questions,
               context: Contexts, answers: SUBSET Refs]
        /\ s.of = r.version /\ s.question = r.question /\ s.context = r.context
    BY <1>1, <2>1
  <2>3. ui' = n /\ requests' \subseteq requests
        /\ UNCHANGED <<live, armed, versionRef, touched, server, pollLost>>
    BY <1>2 DEF ApplySearch, Ended
  <2> HIDE DEF s
  <2>4. n \in Case /\ SameInputs(n, ui) /\ n.search = s
        /\ n.snapshot = ui.snapshot /\ n.creds = ui.creds
    BY <2>2, FilledTyped
  <2> HIDE DEF n
  <2>5. Belongs(n)
    BY <1>0, <2>1, <2>2, <2>4 DEF Belongs, SameInputs
  <2> QED BY <1>0, <2>3, <2>4, <2>5, FilledInv
<1>3. ASSUME ApplyResearch(r) PROVE WorkbenchInv'
  <2> DEFINE k == [of |-> r.version, question |-> r.question, context |-> r.context]
             n == [ui EXCEPT !.research = r.status, !.creds = k]
  <2>1. r.question \in Questions /\ r.context \in Contexts /\ r.version = ui.version
        /\ r.question = ui.question /\ r.context = ui.context
    BY <1>0, <1>3 DEF AskedOf, Asks, ApplyResearch, Expected
  <2>2. k \in [of: 1..MaxCaseVersion, question: Questions, context: Contexts]
        /\ k.of = r.version /\ k.question = r.question /\ k.context = r.context
    BY <1>1, <2>1
  <2>3. ui' = n /\ requests' \subseteq requests /\ touched' = TRUE
        /\ UNCHANGED <<live, armed, versionRef, server, pollLost>>
    BY <1>3 DEF ApplyResearch, Ended
  <2> HIDE DEF k
  <2>4. n \in Case /\ SameInputs(n, ui) /\ n.creds = k
        /\ n.snapshot = ui.snapshot /\ n.search = ui.search
    <3> DEFINE m == [ui EXCEPT !.research = r.status]
    <3>1. m \in Case /\ SameInputs(m, ui) /\ m.search = ui.search /\ m.snapshot = ui.snapshot
      BY <1>1, FilledTyped
    <3>2. n = [m EXCEPT !.creds = k]
      BY <1>0 DEF Case
    <3> HIDE DEF m, n
    <3>3. n \in Case
      BY <2>2, <3>1, <3>2 DEF Case
    <3>4. SameInputs(n, m) /\ n.creds = k /\ n.snapshot = m.snapshot /\ n.search = m.search
      BY <3>1, <3>2 DEF Case, SameInputs
    <3> QED BY <3>1, <3>3, <3>4 DEF SameInputs
  <2> HIDE DEF n
  <2>5. Belongs(n)
    BY <1>0, <2>1, <2>2, <2>4 DEF Belongs, SameInputs
  <2> QED BY <1>0, <2>3, <2>4, <2>5, FilledInv
<1>4. ASSUME ApplyStatus(r) PROVE WorkbenchInv'
  <2> DEFINE n == [ui EXCEPT !.research = r.status]
  <2>1. ui' = n /\ requests' \subseteq requests /\ touched' = TRUE
        /\ UNCHANGED <<live, armed, versionRef, server, pollLost>>
    BY <1>4 DEF ApplyStatus, Ended
  <2>2. n \in Case /\ SameInputs(n, ui) /\ n.search = ui.search
        /\ n.snapshot = ui.snapshot /\ n.creds = ui.creds
    BY <1>1, FilledTyped
  <2> HIDE DEF n
  <2>3. Belongs(n)
    BY <1>0, <2>2 DEF Belongs, SameInputs
  <2> QED BY <1>0, <2>1, <2>2, <2>3, FilledInv
<1>5. ASSUME ApplyFiles(r) PROVE WorkbenchInv'
  <2>1. PICK e \in Evidences : ui' = AdvancedCase([ui EXCEPT !.evidence = e])
    BY <1>5 DEF ApplyFiles
  <2> DEFINE c == [ui EXCEPT !.evidence = e]
             a == AdvancedCase(c)
  <2>2. c \in Case
    BY <1>0, FieldsTyped
  <2>3. ui' = a /\ versionRef < MaxCaseVersion /\ versionRef' = versionRef + 1
        /\ requests' = Survivors /\ touched' = TRUE /\ pollLost' = FALSE
        /\ UNCHANGED <<live, armed, server>>
    BY <1>5, <2>1 DEF ApplyFiles
  <2> HIDE DEF c
  <2>4. a \in Case /\ a.version = ui.version + 1 /\ Belongs(a)
    BY <2>2, <2>3, Advanced
  <2> HIDE DEF a
  <2> QED BY <2>3, <2>4, NextVersionInv
<1> QED BY <1>2, <1>3, <1>4, <1>5

LEMMA PresentInv == ASSUME CaseAssumption, WorkbenchInv, Present PROVE WorkbenchInv'
<1> DEFINE Presented == IF live.search # NoData /\ live.search.of = live.version
                        THEN live.search.answers ELSE {}
<1>0. ui \in Case /\ live \in Case /\ armed \in BOOLEAN /\ touched \in BOOLEAN
      /\ pollLost \in BOOLEAN /\ Belongs(ui)
  BY DEF WorkbenchInv, CaseTypeOK
<1>1. PICK refs \in SUBSET Presented :
         ui' = [ui EXCEPT !.analysis = [of |-> live.version, refs |-> refs]]
  BY DEF Present
<1> DEFINE a == [of |-> live.version, refs |-> refs]
           n == [ui EXCEPT !.analysis = a]
<1>2. Presented \in SUBSET Refs
  BY <1>0 DEF Case
<1> HIDE DEF Presented
<1>3. a \in [of: 1..MaxCaseVersion, refs: SUBSET Refs]
  BY <1>0, <1>1, <1>2 DEF Case
<1>4. ui' = n /\ requests' \subseteq requests
      /\ UNCHANGED <<live, armed, versionRef, touched, server, pollLost>>
  BY <1>1 DEF Present
<1> HIDE DEF a
<1>5. n \in Case /\ SameInputs(n, ui) /\ n.search = ui.search
      /\ n.snapshot = ui.snapshot /\ n.creds = ui.creds
  BY <1>3, FilledTyped
<1> HIDE DEF n
<1>6. Belongs(n)
  BY <1>0, <1>5 DEF Belongs, SameInputs
<1> QED BY <1>0, <1>4, <1>5, <1>6, FilledInv

LEMMA WorkbenchNextInv ==
  CaseAssumption /\ WorkbenchInv /\ [CaseNext]_workbenchVars => WorkbenchInv'
<1> SUFFICES ASSUME CaseAssumption, WorkbenchInv, [CaseNext]_workbenchVars
             PROVE  WorkbenchInv'
  OBVIOUS
<1>1. CASE UNCHANGED workbenchVars
  BY <1>1 DEF WorkbenchInv, workbenchVars, CaseTypeOK, Belongs, OlderOrSame, AskedOf, Asks
<1>2. CASE Commit
  BY <1>2, CommitInv
<1>3. CASE UpdateQuestion \/ UpdateContext \/ UpdateEvidence \/ Reset \/ ToggleShare
  BY <1>3, EditsInv
<1>4. CASE \E by \in {"manual", "agent"} :
              StartAnalyze(by) \/ StartSearch(by) \/ StartResearch(by)
  BY <1>4, StartsInv
<1>5. CASE AgentStatus \/ PollTimer \/ StartFiles
  BY <1>5, StatusInv
<1>6. ASSUME NEW r \in requests,
             \/ SendResearch(r) \/ Answer(r) \/ FailRequest(r) \/ Outdated(r)
             \/ ApplyAnalyze(r) \/ ApplySearch(r) \/ ApplyResearch(r)
             \/ ApplyStatus(r) \/ ApplyFiles(r)
      PROVE  WorkbenchInv'
  BY <1>6, InFlightInv, AnalyzedInv, AppliedInv
<1>7. CASE Progress
  BY <1>7, ProgressInv
<1>8. CASE Present
  BY <1>8, PresentInv
<1> QED BY <1>1, <1>2, <1>3, <1>4, <1>5, <1>6, <1>7, <1>8 DEF CaseNext

LEMMA WorkbenchInvariant == ASSUME CaseAssumption PROVE CaseSpec => []WorkbenchInv
BY WorkbenchInitInv, WorkbenchNextInv, PTL DEF CaseSpec

\* The three copies of the case, the requests and the timer keep their form.
THEOREM CaseTyped == ASSUME CaseAssumption PROVE CaseSpec => []CaseTypeOK
<1>1. WorkbenchInv => CaseTypeOK
  BY DEF WorkbenchInv
<1> QED BY <1>1, WorkbenchInvariant, PTL

\* The page never shows the analysis, the results or the research task of a
\* case that has been edited since (webmcp-app.tsx).
THEOREM ShownIsOfTheCase == ASSUME CaseAssumption PROVE CaseSpec => []ShownBelongsToCase
<1>1. WorkbenchInv => ShownBelongsToCase
  BY DEF WorkbenchInv, Belongs, ShownBelongsToCase
<1> QED BY <1>1, WorkbenchInvariant, PTL

-----------------------------------------------------------------------------
(* The analysis of paths.  What is drawn is never taken away, so it is         *)
(* enough that each snapshot draws the path it adds: its hops and the links    *)
(* between them.  A link of neighbours comes from one parser only, which       *)
(* leaves the device itself out.                                               *)

PathInv == PathTypeOK /\ CompletePathsAreDrawn

\* What a snapshot adds to the graph, its own device among it.
Drawn(s) == Parse(s).nodes \cup (IF s.type = NoName THEN {} ELSE {Node("device", s.device)})

LinkDrawn(e, s) ==
    /\ e.source \in Drawn(s) /\ e.target \in Drawn(s)
    /\ e.protocol \in {"cdp", "lldp"} => ~Same(e.source.label, e.target.label)

LEMMA NeighboursDrawn ==
  ASSUME NEW s, NEW parsed
  PROVE  /\ \A n \in Neighbours(s, parsed).nodes : n.kind = "device"
         /\ \A e \in Neighbours(s, parsed).edges :
               /\ e.source = Node("device", s.device)
               /\ e.target \in Neighbours(s, parsed).nodes
               /\ ~Same(e.source.label, e.target.label)
<1> USE DEF Neighbours, Node
<1>1. \A n \in Neighbours(s, parsed).nodes : n.kind = "device"
  OBVIOUS
<1>2. ASSUME NEW e \in Neighbours(s, parsed).edges
      PROVE  /\ e.source = Node("device", s.device)
             /\ e.target \in Neighbours(s, parsed).nodes
             /\ ~Same(e.source.label, e.target.label)
  <2>1. PICK r \in Others(s, parsed) :
           e = Link(Node("device", s.device), Node("device", r.remote), s.type, r.port)
    OBVIOUS
  <2>2. ~Same(s.device, r.remote)
    BY DEF Others
  <2>3. e.source = Node("device", s.device) /\ e.target = Node("device", r.remote)
    BY <2>1 DEF Link
  <2>4. e.source.label = s.device /\ e.target.label = r.remote
    BY <2>3
  <2> QED BY <2>2, <2>3, <2>4
<1> QED BY <1>1, <1>2

\* Every snapshot draws the ends of the links it adds.
LEMMA SnapshotDrawn ==
  ASSUME PathAssumption, NEW s \in Snapshots
  PROVE  /\ \A n \in Drawn(s) : n.kind \in Kinds
         /\ \A e \in Parse(s).edges : LinkDrawn(e, s)
<1>0. Node("device", s.device).kind \in Kinds
  BY DEF Node, Kinds
<1>1. CASE s.type \in {"cdp", "lldp"}
  <2>1. PICK parsed : Parse(s).nodes = Neighbours(s, parsed).nodes
                       /\ Parse(s).edges = Neighbours(s, parsed).edges
    <3>1. CASE s.type = "lldp"
      BY <3>1 DEF Parse, ParseLldp
    <3>2. CASE s.type = "cdp"
      <4>1. Parse(s) = ParseCdp(s)
        BY <3>2 DEF Parse
      <4> DEFINE brief == Neighbours(s, s.brief)
      <4>2. Neighbours(s, s.found).parsed \/ ~Neighbours(s, s.found).parsed
        OBVIOUS
      <4>3. CASE Neighbours(s, s.found).parsed
        BY <4>1, <4>3 DEF ParseCdp
      <4>4. CASE ~Neighbours(s, s.found).parsed
        <5>1. ParseCdp(s) = [brief EXCEPT !.warned = brief.warned \/ Neighbours(s, s.found).warned]
          BY <4>4 DEF ParseCdp
        <5>2. ParseCdp(s).nodes = brief.nodes /\ ParseCdp(s).edges = brief.edges
          BY <5>1 DEF Neighbours
        <5> QED BY <4>1, <5>2
      <4> QED BY <4>3, <4>4
    <3> QED BY <1>1, <3>1, <3>2
  <2>2. s.type # NoName
    BY <1>1 DEF PathAssumption, Types
  <2>3. Drawn(s) = Neighbours(s, parsed).nodes \cup {Node("device", s.device)}
    BY <2>1, <2>2 DEF Drawn
  <2> QED BY <2>1, <2>3, <1>0, NeighboursDrawn DEF LinkDrawn, Kinds
<1>2. CASE s.type = "route"
  <2>1. Parse(s) = ParseRoutes(s) /\ s.type # NoName
    BY <1>2 DEF Parse, PathAssumption, Types
  <2>2. \A n \in Parse(s).nodes : n.kind \in Kinds
    BY <2>1 DEF ParseRoutes, Nothing, Node, Kinds
  <2>3. Drawn(s) = Parse(s).nodes \cup {Node("device", s.device)}
    BY <2>1 DEF Drawn
  <2>4. ASSUME NEW e \in Parse(s).edges PROVE LinkDrawn(e, s)
    <3> DEFINE device == Node("device", s.device)
               network == Node("network", s.found[1])
               hop == Node("hop", s.found[2])
    <3>1. CASE s.found = <<>>
      BY <2>1, <3>1 DEF ParseRoutes, Nothing
    <3>2. CASE s.found # <<>> /\ s.found[2] # NoName
      <4>1. Parse(s).nodes = {network, hop}
            /\ Parse(s).edges = {Link(device, hop, "route", NoName),
                                 Link(hop, network, "route", NoName)}
        BY <2>1, <3>2 DEF ParseRoutes
      <4> HIDE DEF device, network, hop
      <4> QED BY <4>1, <2>3 DEF LinkDrawn, Link, device
    <3>3. CASE s.found # <<>> /\ s.found[2] = NoName
      <4>1. Parse(s).nodes = {network}
            /\ Parse(s).edges \subseteq {Link(device, network, "route", s.brief[1])}
        BY <2>1, <3>3 DEF ParseRoutes
      <4> HIDE DEF device, network, hop
      <4> QED BY <4>1, <2>3 DEF LinkDrawn, Link, device
    <3> QED BY <3>1, <3>2, <3>3
  <2> QED BY <2>2, <2>3, <2>4, <1>0
<1>3. CASE s.type = "traceroute"
  <2>1. Parse(s) = ParseTraceroute(s) /\ s.type # NoName
    BY <1>3 DEF Parse, PathAssumption, Types
  <2>2. s.found \in Seq(Range(s.found)) /\ Len(s.found) \in Nat
    BY <1>3 DEF PathAssumption
  <2>3. Parse(s).nodes = Range(Hops(s))
    BY <2>1 DEF ParseTraceroute
  <2>4. \A n \in 1..(Len(s.found) + 1) : Hops(s)[n] \in Range(Hops(s)) /\ Hops(s)[n].kind \in Kinds
    BY <2>2 DEF Hops, HopNode, Node, Kinds, Range
  <2>5. \A n \in Parse(s).nodes : n.kind \in Kinds
    BY <2>3, <2>4, DOMAIN Hops(s) = 1..(Len(s.found) + 1) DEF Range, Hops
  <2>6. Drawn(s) = Parse(s).nodes \cup {Node("device", s.device)}
    BY <2>1 DEF Drawn
  <2>7. ASSUME NEW e \in Parse(s).edges PROVE LinkDrawn(e, s)
    <3>1. PICK n \in 1..Len(s.found) :
             e = Link(Hops(s)[n], Hops(s)[n + 1], "traceroute", NoName)
      BY <2>1 DEF ParseTraceroute
    <3>2. n \in 1..(Len(s.found) + 1) /\ n + 1 \in 1..(Len(s.found) + 1)
      BY <2>2
    <3>3. Hops(s)[n] \in Drawn(s) /\ Hops(s)[n + 1] \in Drawn(s)
      BY <3>2, <2>3, <2>4, <2>6
    <3> QED BY <3>1, <3>3 DEF LinkDrawn, Link
  <2> QED BY <2>5, <2>6, <2>7, <1>0
<1>4. CASE s.type \notin Types
  <2>1. Parse(s) = Nothing
    BY <1>4 DEF Parse, Types
  <2> QED BY <2>1, <1>0 DEF Nothing, Drawn
<1> QED BY <1>1, <1>2, <1>3, <1>4 DEF Types

\* A trace that is complete draws its path, to the destination asked for.
LEMMA TraceDrawn ==
  ASSUME PathAssumption, NEW s \in Snapshots, s.type = "traceroute", Path(s).complete
  PROVE  LET p == Path(s) IN
         /\ Len(p.hops) \in Nat
         /\ \A n \in DOMAIN p.hops : p.hops[n] \in Parse(s).nodes /\ p.hops[n].kind # "unknown"
         /\ \A n \in 1..(Len(p.hops) - 1) :
               Link(p.hops[n], p.hops[n + 1], "traceroute", NoName) \in Parse(s).edges
         /\ destination # NoName => Same(p.hops[Len(p.hops)].label, destination)
<1>1. s.found \in Seq(Range(s.found)) /\ Len(s.found) \in Nat
  BY DEF PathAssumption
<1>2. Parse(s) = ParseTraceroute(s)
  BY DEF Parse
<1>3. Path(s).hops = Hops(s)
  BY DEF Path
<1>4. ~Incomplete(s) /\ (destination = NoName \/ Same(LastHop(s).label, destination))
  BY DEF Path
<1>5. Hops(s) \in Seq({Hops(s)[n] : n \in 1..(Len(s.found) + 1)})
      /\ Len(Hops(s)) = Len(s.found) + 1 /\ DOMAIN Hops(s) = 1..(Len(s.found) + 1)
  BY <1>1 DEF Hops
<1>6. \A n \in DOMAIN Hops(s) : Hops(s)[n] \in Parse(s).nodes
  BY <1>2 DEF ParseTraceroute, Range
<1>7. \A n \in 1..Len(s.found) : s.found[n] # Silent
  BY <1>1, <1>4 DEF Incomplete, Range
<1>8. ASSUME NEW n \in DOMAIN Hops(s) PROVE Hops(s)[n].kind # "unknown"
  <2>1. CASE n = 1
    BY <2>1, <1>5 DEF Hops, Node
  <2>2. CASE n # 1
    <3>1. n - 1 \in 1..Len(s.found)
      BY <2>2, <1>5, <1>1
    <3>2. Hops(s)[n] = Node("hop", s.found[n - 1])
      BY <3>1, <2>2, <1>5, <1>7 DEF Hops, HopNode
    <3> QED BY <3>2 DEF Node
  <2> QED BY <2>1, <2>2
<1>9. \A n \in 1..Len(s.found) :
         Link(Hops(s)[n], Hops(s)[n + 1], "traceroute", NoName) \in Parse(s).edges
  BY <1>2 DEF ParseTraceroute
<1>10. LastHop(s) = Hops(s)[Len(Hops(s))]
  BY <1>5 DEF LastHop
<1>11. (Len(s.found) + 1) - 1 = Len(s.found)
  BY <1>1
<1> QED BY <1>1, <1>3, <1>4, <1>5, <1>6, <1>8, <1>9, <1>10, <1>11

LEMMA PathNextInv == PathAssumption /\ PathInv /\ [PathNext]_pathVars => PathInv'
<1> SUFFICES ASSUME PathAssumption, PathInv, [PathNext]_pathVars PROVE PathInv'
  OBVIOUS
<1> USE DEF PathInv
<1>1. CASE UNCHANGED pathVars
  BY <1>1 DEF pathVars, PathTypeOK, CompletePathsAreDrawn
<1>2. CASE PathNext
  <2>1. PICK s \in Snapshots : AnalyzeSnapshot(s)
    BY <1>2 DEF PathNext
  <2>2. nodes' = nodes \cup Drawn(s) /\ edges' = edges \cup Parse(s).edges
        /\ destination' = destination
    BY <2>1 DEF AnalyzeSnapshot, Drawn
  <2>3. \A e \in Parse(s).edges : LinkDrawn(e, s)
    BY SnapshotDrawn
  <2>4. PathTypeOK'
    <3>1. \A n \in nodes' : n.kind \in Kinds
      BY <2>2, SnapshotDrawn DEF PathTypeOK
    <3>2. \A e \in edges' : e.source \in nodes' /\ e.target \in nodes'
      BY <2>2, <2>3 DEF PathTypeOK, LinkDrawn
    <3>3. diagnostics' \in Seq({"parsed", "partial", "unparsed"})
      <4>1. \E status \in {"parsed", "partial", "unparsed"} :
               diagnostics' = Append(diagnostics, status)
        BY <2>1 DEF AnalyzeSnapshot
      <4> QED BY <4>1 DEF PathTypeOK
    <3> QED BY <3>1, <3>2, <3>3 DEF PathTypeOK
  <2>5. ASSUME NEW p \in paths', p.complete
        PROVE  /\ \A n \in DOMAIN p.hops : p.hops[n] \in nodes' /\ p.hops[n].kind # "unknown"
               /\ \A n \in 1..(Len(p.hops) - 1) :
                     Link(p.hops[n], p.hops[n + 1], "traceroute", NoName) \in edges'
               /\ destination' # NoName => Same(p.hops[Len(p.hops)].label, destination')
    <3>1. CASE p \in paths
      BY <3>1, <2>2, <2>5 DEF CompletePathsAreDrawn
    <3>2. CASE p \notin paths
      <4>1. p = Path(s) /\ s.type = "traceroute"
        BY <3>2, <2>1 DEF AnalyzeSnapshot
      <4>2. Parse(s).nodes \subseteq nodes'
        BY <2>2 DEF Drawn
      <4> QED BY <4>1, <4>2, <2>2, <2>5, TraceDrawn
    <3> QED BY <3>1, <3>2
  <2>6. \A e \in edges' : e.protocol \in {"cdp", "lldp"} => ~Same(e.source.label, e.target.label)
    BY <2>2, <2>3 DEF CompletePathsAreDrawn, LinkDrawn
  <2> QED BY <2>4, <2>5, <2>6 DEF CompletePathsAreDrawn
<1> QED BY <1>1, <1>2

LEMMA PathInvariant == ASSUME PathAssumption PROVE PathSpec => []PathInv
<1>1. PathInit => PathInv
  BY DEF PathInit, PathInv, PathTypeOK, CompletePathsAreDrawn
<1> QED BY <1>1, PathNextInv, PTL DEF PathSpec

\* Links have their ends in the graph, and every snapshot has its status, for every
\* number and content of snapshots.
THEOREM PathsTyped == ASSUME PathAssumption PROVE PathSpec => []PathTypeOK
<1>1. PathInv => PathTypeOK
  BY DEF PathInv
<1> QED BY <1>1, PathInvariant, PTL

\* A path called complete is one the graph shows from end to end, and no device is
\* its own neighbour, for every number and content of snapshots and any sameIdentity
\* (analyzeNetworkPath).
THEOREM CompleteIsDrawn == ASSUME PathAssumption PROVE PathSpec => []CompletePathsAreDrawn
<1>1. PathInv => CompletePathsAreDrawn
  BY DEF PathInv
<1> QED BY <1>1, PathInvariant, PTL

-----------------------------------------------------------------------------
(* The crawl of a collection.  What an accepted document gives is, from the    *)
(* step that accepts it, either a source or discovered by a pass that still    *)
(* runs; what a pass has discovered it keeps until it makes sources of it.     *)
(* Only a limit of links stops it, and then there are that many sources.       *)

Remembered(u) == {FinalUrl(u)} \cup (ToSet(Links[FinalUrl(u)]) \cap Always)

Covered(u, S) == Remembered(u) \subseteq S \/ Cardinality(S) >= LinkLimit

PassFields == {"pc", "job", "scan", "queue", "seen", "discovered", "pages", "current"}

\* A pass belongs to a job, or to none, and what it has discovered are URLs.
IsPass(c) ==
    DOMAIN c = PassFields /\ c.job \in Jobs \cup {NoJob} /\ c.discovered \in SUBSET Urls

CrawlForm ==
    /\ "job" \in DOMAIN collection /\ collection.job \in Jobs \cup {NoJob}
    /\ page \in [Urls -> PageStatus] /\ sources \in SUBSET Urls /\ crashes \in Nat
    /\ DOMAIN crawler = Crawlers /\ \A w \in Busy : IsPass(crawler[w])

LinksInv ==
    crashes = 0 =>
        \A u \in Urls :
            page[u] = "accepted" /\ FinalUrl(u) \notin Locations =>
                \/ Covered(u, sources)
                \/ \E w \in Busy : Covered(u, crawler[w].discovered)

CrawlInv == CrawlForm /\ LinksInv

LEMMA CoveredGrows ==
  ASSUME CrawlAssumption, NEW u, NEW T \in SUBSET Urls, NEW S \in SUBSET T, Covered(u, S)
  PROVE  Covered(u, T)
<1>1. IsFiniteSet(T) /\ S \in SUBSET T
  BY FS_Subset DEF CrawlAssumption
<1>2. IsFiniteSet(S) /\ Cardinality(S) <= Cardinality(T)
  BY <1>1, FS_Subset
<1>3. Cardinality(S) \in Nat /\ Cardinality(T) \in Nat /\ LinkLimit \in Nat
  BY <1>1, <1>2, FS_CardinalityType DEF CrawlAssumption
<1> QED BY <1>2, <1>3 DEF Covered

\* The links taken are all those in scope, or they reach the limit: at the first
\* place where what has been found does.
LEMMA TakenCovers ==
  ASSUME CrawlAssumption, NEW c, c.discovered \in SUBSET Urls, c.job \in Jobs \cup {NoJob},
         NEW links \in Seq(Urls)
  PROVE  LET D == c.discovered \cup {links[i] : i \in Taken(c, links)} IN
         /\ D \in SUBSET Urls
         /\ (ToSet(links) \cap Always \subseteq D) \/ Cardinality(D) >= LinkLimit
<1> DEFINE Inside(k) == links[k] \in Scope[c.job]
           Found(k) == c.discovered \cup {links[i] : i \in {j \in 1..k : Inside(j)}}
           D == c.discovered \cup {links[i] : i \in Taken(c, links)}
           Enough == {k \in DOMAIN links : Inside(k) /\ ~(Cardinality(Found(k)) < LinkLimit)}
<1>1. DOMAIN links = 1..Len(links) /\ Len(links) \in Nat /\ \A i \in DOMAIN links : links[i] \in Urls
  OBVIOUS
<1>2. Taken(c, links) =
        {i \in DOMAIN links :
           Inside(i) /\ \A k \in 1..(i - 1) : Inside(k) => Cardinality(Found(k)) < LinkLimit}
  BY DEF Taken
<1>3. D \in SUBSET Urls
  BY <1>1, <1>2
<1>4. ASSUME Enough = {} PROVE ToSet(links) \cap Always \subseteq D
  <2> SUFFICES ASSUME NEW x \in ToSet(links) \cap Always PROVE x \in D
    OBVIOUS
  <2>1. PICK i \in DOMAIN links : x = links[i]
    BY DEF ToSet
  <2>2. Inside(i)
    BY <2>1 DEF Always
  <2>3. ASSUME NEW k \in 1..(i - 1), Inside(k) PROVE Cardinality(Found(k)) < LinkLimit
    <3>1. k \in DOMAIN links
      BY <1>1
    <3> QED BY <3>1, <2>3, <1>4
  <2>4. i \in Taken(c, links)
    BY <1>2, <2>2, <2>3
  <2> QED BY <2>1, <2>4
<1>5. ASSUME Enough # {} PROVE Cardinality(D) >= LinkLimit
  <2> DEFINE k == Min(Enough)
  <2>1. Enough \in SUBSET (0..Len(links))
    BY <1>1
  <2>2. k \in Enough /\ \A y \in Enough : k <= y
    <3> HIDE DEF Enough
    <3> QED BY <2>1, <1>1, <1>5, LeastExists
  <2> HIDE DEF k
  <2>3. k \in 1..Len(links) /\ ~(Cardinality(Found(k)) < LinkLimit)
    BY <2>2, <1>1
  <2>4. ASSUME NEW j \in 1..k, Inside(j) PROVE j \in Taken(c, links)
    <3>1. j \in DOMAIN links
      BY <2>3, <1>1
    <3>2. ASSUME NEW m \in 1..(j - 1), Inside(m) PROVE Cardinality(Found(m)) < LinkLimit
      <4>1. m \in DOMAIN links /\ ~(k <= m)
        BY <2>3, <1>1
      <4> QED BY <4>1, <3>2, <2>2
    <3> QED BY <3>1, <3>2, <2>4, <1>2
  <2>5. Found(k) \in SUBSET D
    BY <2>4
  <2>6. IsFiniteSet(D)
    BY <1>3, FS_Subset DEF CrawlAssumption
  <2> DEFINE F == Found(k)
  <2>7. F \in SUBSET D /\ ~(Cardinality(F) < LinkLimit)
    BY <2>3, <2>5
  <2> HIDE DEF F, D
  <2>8. IsFiniteSet(F) /\ Cardinality(F) <= Cardinality(D)
    BY <2>6, <2>7, FS_Subset
  <2>9. Cardinality(F) \in Nat /\ Cardinality(D) \in Nat /\ LinkLimit \in Nat
    BY <2>6, <2>8, FS_CardinalityType DEF CrawlAssumption
  <2> QED BY <2>7, <2>8, <2>9
<1> HIDE DEF D
<1>6. (ToSet(links) \cap Always \subseteq D) \/ Cardinality(D) >= LinkLimit
  BY <1>4, <1>5
<1> QED BY <1>3, <1>6 DEF D

\* A pass that changes its place, or whose worker does: what it has discovered grows.
LEMMA PassGoesOn ==
  ASSUME CrawlAssumption, CrawlInv, NEW w \in Busy, NEW d, IsPass(d), d.pc # "idle",
         crawler[w].discovered \subseteq d.discovered,
         crawler' = [crawler EXCEPT ![w] = d],
         page' \in [Urls -> PageStatus],
         \A u \in Urls : page'[u] = "accepted" /\ page[u] # "accepted" /\ FinalUrl(u) \notin Locations
                            => Covered(u, d.discovered),
         UNCHANGED <<collection, sources, crashes>>
  PROVE  CrawlInv'
<1> USE DEF CrawlInv
<1>1. w \in Crawlers /\ DOMAIN crawler' = Crawlers /\ crawler'[w] = d
      /\ \A v \in Crawlers \ {w} : crawler'[v] = crawler[v]
  BY DEF CrawlForm, Busy
<1>2. Busy' = Busy
  BY <1>1 DEF Busy
<1>3. CrawlForm'
  BY <1>1, <1>2 DEF CrawlForm, Busy
<1>4. LinksInv'
  <2> SUFFICES ASSUME crashes = 0, NEW u \in Urls, page'[u] = "accepted",
                      FinalUrl(u) \notin Locations
               PROVE  Covered(u, sources) \/ \E v \in Busy : Covered(u, crawler'[v].discovered)
    BY <1>2 DEF LinksInv, Covered, Remembered
  <2>1. CASE page[u] # "accepted"
    BY <2>1, <1>1
  <2>2. CASE page[u] = "accepted"
    <3>1. CASE Covered(u, sources)
      BY <3>1
    <3>2. CASE \E v \in Busy : Covered(u, crawler[v].discovered)
      <4>1. PICK v \in Busy : Covered(u, crawler[v].discovered)
        BY <3>2
      <4>2. CASE v = w
        <5>1. d.discovered \in SUBSET Urls /\ crawler[w].discovered \in SUBSET d.discovered
          BY DEF IsPass
        <5>2. Covered(u, d.discovered)
          BY <4>1, <4>2, <5>1, CoveredGrows
        <5> QED BY <5>2, <1>1
      <4>3. CASE v # w
        BY <4>1, <4>3, <1>1 DEF Busy
      <4> QED BY <4>2, <4>3
    <3> QED BY <2>2, <3>1, <3>2 DEF LinksInv
  <2> QED BY <2>1, <2>2
<1> QED BY <1>3, <1>4

\* A pass is over: it has made its sources, or a crash is counted.
LEMMA PassEnds ==
  ASSUME CrawlAssumption, CrawlInv, NEW w \in Busy,
         crawler' = [crawler EXCEPT ![w] = NoPass],
         page' = page, "job" \in DOMAIN collection', collection'.job = collection.job,
         sources' \in SUBSET Urls, sources \subseteq sources',
         \/ crashes' = crashes /\ crawler[w].discovered \subseteq sources'
         \/ crashes' = crashes + 1
  PROVE  CrawlInv'
<1> USE DEF CrawlInv
<1>1. w \in Crawlers /\ DOMAIN crawler' = Crawlers /\ crawler'[w] = NoPass
      /\ \A v \in Crawlers \ {w} : crawler'[v] = crawler[v]
  BY DEF CrawlForm, Busy
<1>2. Busy' = Busy \ {w}
  BY <1>1 DEF Busy, NoPass
<1>3. CrawlForm'
  BY <1>1, <1>2 DEF CrawlForm
<1>4. LinksInv'
  <2> SUFFICES ASSUME crashes' = 0, NEW u \in Urls, page[u] = "accepted",
                      FinalUrl(u) \notin Locations
               PROVE  Covered(u, sources') \/ \E v \in Busy' : Covered(u, crawler'[v].discovered)
    BY DEF LinksInv, Covered, Remembered
  <2>1. crashes = 0 /\ crawler[w].discovered \subseteq sources'
    BY DEF CrawlForm
  <2>2. CASE Covered(u, sources)
    BY <2>2, CoveredGrows
  <2>3. CASE \E v \in Busy : Covered(u, crawler[v].discovered)
    <3>1. PICK v \in Busy : Covered(u, crawler[v].discovered)
      BY <2>3
    <3>2. CASE v = w
      BY <2>1, <3>1, <3>2, CoveredGrows
    <3>3. CASE v # w
      BY <3>1, <3>3, <1>1, <1>2 DEF Busy
    <3> QED BY <3>2, <3>3
  <2> QED BY <2>1, <2>2, <2>3 DEF LinksInv
<1> QED BY <1>3, <1>4

\* A step that leaves the passes and the sources alone, and accepts no page.
LEMMA LinksStay ==
  ASSUME CrawlInv, "job" \in DOMAIN collection', collection'.job \in Jobs \cup {NoJob},
         page' \in [Urls -> PageStatus],
         \A u \in Urls : page'[u] = "accepted" => page[u] = "accepted",
         UNCHANGED <<sources, crawler, crashes>>
  PROVE  CrawlInv'
<1>1. Busy' = Busy
  BY DEF Busy
<1> QED BY <1>1 DEF CrawlInv, CrawlForm, LinksInv, Covered, Remembered
LEMMA VisitInv == ASSUME CrawlAssumption, CrawlInv, NEW w \in Crawlers, Visit(w) PROVE CrawlInv'
<1> DEFINE c == crawler[w]
           current == Head(c.queue)
           passed == [c EXCEPT !.queue = Tail(@), !.seen = @ \cup {current.url}]
           fetched == [passed EXCEPT !.pc = "fetched", !.current = current, !.pages = @ + 1]
<1>1. c.pc = "crawl" /\ w \in Busy /\ IsPass(c)
  BY DEF Visit, Busy, CrawlInv, CrawlForm
<1>2. IsPass(passed) /\ passed.pc = "crawl" /\ passed.discovered = c.discovered
  BY <1>1 DEF IsPass, PassFields
<1> HIDE DEF c, passed
<1>3. IsPass(fetched) /\ fetched.pc = "fetched" /\ fetched.discovered = c.discovered
  BY <1>2 DEF IsPass, PassFields
<1>4. \/ crawler' = [crawler EXCEPT ![w] = passed] /\ page' = page
      \/ crawler' = [crawler EXCEPT ![w] = passed]
         /\ page' = [page EXCEPT ![current.url] = "out_of_scope"]
      \/ crawler' = [crawler EXCEPT ![w] = fetched] /\ page' = page
  BY DEF Visit, c, passed
<1> HIDE DEF current, fetched
<1>5. page' \in [Urls -> PageStatus] /\ \A u \in Urls : page'[u] = "accepted" => page[u] = "accepted"
  BY <1>4 DEF CrawlInv, CrawlForm, PageStatus
<1>6. UNCHANGED <<collection, sources, crashes>>
  BY DEF Visit
<1> DEFINE d == IF crawler' = [crawler EXCEPT ![w] = passed] THEN passed ELSE fetched
<1>7. IsPass(d) /\ d.pc # "idle" /\ c.discovered \subseteq d.discovered
      /\ crawler' = [crawler EXCEPT ![w] = d]
  BY <1>2, <1>3, <1>4
<1> HIDE DEF d
<1> QED BY <1>1, <1>5, <1>6, <1>7, PassGoesOn DEF c

LEMMA FetchFailsInv ==
  ASSUME CrawlAssumption, CrawlInv, NEW w \in Crawlers, FetchFails(w) PROVE CrawlInv'
<1> DEFINE c == crawler[w]
           d == [c EXCEPT !.pc = "crawl"]
<1>1. c.pc = "fetched" /\ w \in Busy /\ IsPass(c)
  BY DEF FetchFails, Busy, CrawlInv, CrawlForm
<1>2. crawler' = [crawler EXCEPT ![w] = d]
  BY DEF FetchFails
<1> HIDE DEF c
<1>3. IsPass(d) /\ d.pc = "crawl" /\ d.discovered = c.discovered
  BY <1>1 DEF IsPass, PassFields
<1> HIDE DEF d
<1>4. \E url, status : /\ page' = [page EXCEPT ![url] = status]
                       /\ status \in {"temporary_failure", "permanent_failure", "unsafe"}
  BY DEF FetchFails
<1>5. page' \in [Urls -> PageStatus] /\ \A u \in Urls : page'[u] = "accepted" => page[u] = "accepted"
  BY <1>4 DEF CrawlInv, CrawlForm, PageStatus
<1>6. UNCHANGED <<collection, sources, crashes>>
  BY DEF FetchFails
<1> QED BY <1>1, <1>2, <1>3, <1>5, <1>6, PassGoesOn DEF c

\* The pass that accepts a document discovers it and its links.
LEMMA RecordInv == ASSUME CrawlAssumption, CrawlInv, NEW w \in Crawlers, Record(w) PROVE CrawlInv'
<1> DEFINE c == crawler[w]
           url == c.current.url
           document == FinalUrl(url)
           found == [c EXCEPT !.discovered = @ \cup {document}]
           located == WithLocations(c, Links[document])
           linked == WithLinks(found, Links[document])
           Onward(e) == [e EXCEPT !.pc = "crawl"]
<1>1. c.pc = "fetched" /\ w \in Busy /\ IsPass(c)
  BY DEF Record, Busy, CrawlInv, CrawlForm
<1>2. UNCHANGED <<collection, sources, crashes>> /\ page \in [Urls -> PageStatus]
  BY DEF Record, CrawlInv, CrawlForm
<1>3. \/ /\ page' = [page EXCEPT ![url] = "out_of_scope"]
         /\ crawler' = [crawler EXCEPT ![w] = Onward(c)]
      \/ /\ page' = [page EXCEPT ![url] = "duplicate"]
         /\ crawler' = [crawler EXCEPT ![w] = Onward(c)]
      \/ /\ Crawlable(c, document) /\ document \in Locations
         /\ page' = [page EXCEPT ![url] = "accepted"]
         /\ crawler' = [crawler EXCEPT ![w] = Onward(located)]
      \/ /\ Crawlable(c, document) /\ document \notin Locations
         /\ page' = [page EXCEPT ![url] = "accepted"]
         /\ crawler' = [crawler EXCEPT ![w] = Onward(linked)]
  BY DEF Record
<1> HIDE DEF c
<1>4. ASSUME NEW e, IsPass(e)
      PROVE  IsPass(Onward(e)) /\ Onward(e).pc = "crawl" /\ Onward(e).discovered = e.discovered
  BY <1>4 DEF IsPass, PassFields
<1>5. IsPass(located) /\ located.discovered = c.discovered
  BY <1>1 DEF IsPass, PassFields, WithLocations
<1> HIDE DEF url, document, located, linked, Onward
<1>6. CASE /\ page' \in {[page EXCEPT ![url] = "out_of_scope"], [page EXCEPT ![url] = "duplicate"]}
           /\ crawler' = [crawler EXCEPT ![w] = Onward(c)]
  <2>1. page' \in [Urls -> PageStatus]
        /\ \A u \in Urls : page'[u] = "accepted" => page[u] = "accepted"
    BY <1>2, <1>6 DEF PageStatus
  <2> QED BY <1>1, <1>2, <1>4, <1>6, <2>1, PassGoesOn DEF c
<1>7. CASE /\ document \in Locations /\ page' = [page EXCEPT ![url] = "accepted"]
           /\ crawler' = [crawler EXCEPT ![w] = Onward(located)]
  <2>1. page' \in [Urls -> PageStatus]
        /\ \A u \in Urls : page'[u] = "accepted" => page[u] = "accepted" \/ u = url
    BY <1>2, <1>7 DEF PageStatus
  <2>2. \A u \in Urls : page'[u] = "accepted" /\ page[u] # "accepted" => FinalUrl(u) \in Locations
    BY <1>7, <2>1 DEF document
  <2> QED BY <1>1, <1>2, <1>4, <1>5, <1>7, <2>1, <2>2, PassGoesOn DEF c
<1>8. CASE /\ Crawlable(c, document) /\ page' = [page EXCEPT ![url] = "accepted"]
           /\ crawler' = [crawler EXCEPT ![w] = Onward(linked)]
  <2>1. document \in Urls
    BY <1>1, <1>8 DEF Crawlable, CrawlAssumption, IsPass
  <2>2. IsPass(found) /\ found.discovered = c.discovered \cup {document}
    BY <1>1, <2>1 DEF IsPass, PassFields
  <2> HIDE DEF found
  <2> DEFINE links == Links[document]
             D == found.discovered \cup {links[i] : i \in Taken(found, links)}
  <2>3. links \in Seq(Urls)
    BY <2>1 DEF CrawlAssumption
  <2>4. linked = [found EXCEPT !.discovered = D, !.queue = found.queue \o FollowedLinks(found, links)]
    BY DEF linked, WithLinks
  <2> HIDE DEF links
  <2>5. D \in SUBSET Urls /\ ((ToSet(links) \cap Always \subseteq D) \/ Cardinality(D) >= LinkLimit)
    BY <2>2, <2>3, TakenCovers DEF IsPass
  <2>6. document \in D /\ c.discovered \subseteq D
    BY <2>2
  <2> HIDE DEF D
  <2>7. IsPass(linked) /\ linked.discovered = D
    BY <2>2, <2>4, <2>5 DEF IsPass, PassFields
  <2>8. Covered(url, D)
    BY <2>5, <2>6 DEF Covered, Remembered, document, links
  <2>9. page' \in [Urls -> PageStatus]
        /\ \A u \in Urls : page'[u] = "accepted" => page[u] = "accepted" \/ u = url
    BY <1>2, <1>8 DEF PageStatus
  <2>10. IsPass(Onward(linked)) /\ Onward(linked).pc = "crawl" /\ Onward(linked).discovered = D
    BY <1>4, <2>7
  <2> QED BY <1>1, <1>2, <1>8, <2>6, <2>8, <2>9, <2>10, PassGoesOn DEF c
<1> QED BY <1>3, <1>6, <1>7, <1>8

LEMMA TakeInv == ASSUME CrawlInv, NEW w \in Crawlers, TakeCollection(w) PROVE CrawlInv'
<1> DEFINE d == [pc |-> "crawl", job |-> collection.job, scan |-> collection.scan,
                 queue |-> IF collection.queue = <<>> THEN ScanStart ELSE collection.queue,
                 seen |-> {}, discovered |-> {}, pages |-> 0, current |-> NoJob]
<1>1. crawler' = [crawler EXCEPT ![w] = d] /\ crawler[w] = NoPass
      /\ UNCHANGED <<page, sources, crashes>>
      /\ collection' = [collection EXCEPT !.status = "refreshing"]
  BY DEF TakeCollection
<1>2. "job" \in DOMAIN collection' /\ collection'.job = collection.job
  BY <1>1 DEF CrawlInv, CrawlForm
<1>3. IsPass(d) /\ d.pc = "crawl"
  BY DEF IsPass, PassFields, CrawlInv, CrawlForm
<1> HIDE DEF d
<1>4. DOMAIN crawler' = Crawlers /\ crawler'[w] = d
      /\ \A v \in Crawlers \ {w} : crawler'[v] = crawler[v]
  BY <1>1 DEF CrawlInv, CrawlForm
<1>5. w \notin Busy /\ Busy' = Busy \cup {w} /\ \A v \in Busy : crawler'[v] = crawler[v]
  BY <1>1, <1>3, <1>4 DEF Busy, NoPass
<1>6. CrawlForm'
  BY <1>1, <1>2, <1>3, <1>4, <1>5 DEF CrawlInv, CrawlForm
<1>7. LinksInv'
  BY <1>1, <1>5 DEF CrawlInv, LinksInv, Covered, Remembered
<1> QED BY <1>6, <1>7 DEF CrawlInv

LEMMA FinishInv == ASSUME CrawlAssumption, CrawlInv, NEW w \in Crawlers, Finish(w) PROVE CrawlInv'
<1>1. w \in Busy /\ IsPass(crawler[w])
  BY DEF Finish, Busy, CrawlInv, CrawlForm
<1>2. PICK remaining, due, scan :
         collection' = [collection EXCEPT !.status = "active", !.due = due,
                                          !.queue = remaining, !.scan = scan]
  BY DEF Finish
<1>3. "job" \in DOMAIN collection' /\ collection'.job = collection.job
  BY <1>2 DEF CrawlInv, CrawlForm
<1>4. /\ crawler' = [crawler EXCEPT ![w] = NoPass] /\ page' = page /\ crashes' = crashes
      /\ sources' = sources \cup crawler[w].discovered
  BY DEF Finish
<1>5. sources' \in SUBSET Urls
  BY <1>1, <1>4 DEF IsPass, CrawlInv, CrawlForm
<1> QED BY <1>1, <1>3, <1>4, <1>5, PassEnds

LEMMA StopsInv ==
  ASSUME CrawlAssumption, CrawlInv, NEW w \in Crawlers, Defer(w) \/ StopPass(w) PROVE CrawlInv'
<1>1. w \in Busy /\ crawler' = [crawler EXCEPT ![w] = NoPass] /\ crashes' = crashes + 1
      /\ page' = page /\ sources' = sources
  BY DEF Defer, StopPass, Crashes
<1>2. "job" \in DOMAIN collection' /\ collection'.job = collection.job /\ sources' \in SUBSET Urls
  BY <1>1 DEF Defer, StopPass, CrawlInv, CrawlForm
<1> QED BY <1>1, <1>2, PassEnds

LEMMA CrawlNextInv == CrawlAssumption /\ CrawlInv /\ [CrawlNext]_crawlVars => CrawlInv'
<1> SUFFICES ASSUME CrawlAssumption, CrawlInv, [CrawlNext]_crawlVars PROVE CrawlInv'
  OBVIOUS
<1>0. "job" \in DOMAIN collection /\ collection.job \in Jobs \cup {NoJob}
      /\ page \in [Urls -> PageStatus]
  BY DEF CrawlInv, CrawlForm
<1>1. ASSUME NEW j \in Jobs, CreateWebsiteIntakeJob(j) PROVE CrawlInv'
  <2>1. collection' = [collection EXCEPT !.job = j, !.status = "active", !.due = TRUE]
        /\ page' = [page EXCEPT ![Root] = IF @ = "none" THEN "queued" ELSE @]
        /\ UNCHANGED <<sources, crawler, crashes>>
    BY <1>1 DEF CreateWebsiteIntakeJob
  <2>2. "job" \in DOMAIN collection' /\ collection'.job \in Jobs \cup {NoJob}
    BY <1>0, <2>1
  <2>3. page' \in [Urls -> PageStatus]
        /\ \A u \in Urls : page'[u] = "accepted" => page[u] = "accepted"
    BY <1>0, <2>1 DEF PageStatus
  <2> QED BY <2>1, <2>2, <2>3, LinksStay
<1>2. ASSUME NEW j \in Jobs, ControlIntakeJob(j) PROVE CrawlInv'
  <2>1. UNCHANGED <<collection, page, sources, crawler, crashes>>
    BY <1>2 DEF ControlIntakeJob
  <2> QED BY <1>0, <2>1, LinksStay
<1>3. CASE NextScanArrives
  <2>1. UNCHANGED <<page, sources, crawler, crashes>>
        /\ "job" \in DOMAIN collection' /\ collection'.job = collection.job
    BY <1>0, <1>3 DEF NextScanArrives
  <2> QED BY <1>0, <2>1, LinksStay
<1>4. ASSUME NEW w \in Crawlers,
             ExpandNextSourceCollection(w) \/ FetchFails(w) \/ Defer(w) \/ StopPass(w)
      PROVE  CrawlInv'
  BY <1>4, TakeInv, VisitInv, RecordInv, FinishInv, FetchFailsInv, StopsInv
     DEF ExpandNextSourceCollection
<1>5. CASE UNCHANGED crawlVars
  <2>1. UNCHANGED <<collection, page, sources, crawler, crashes>>
    BY <1>5 DEF crawlVars
  <2> QED BY <1>0, <2>1, LinksStay
<1> QED BY <1>1, <1>2, <1>3, <1>4, <1>5 DEF CrawlNext

LEMMA CrawlInitInv == CrawlAssumption /\ CrawlInit => CrawlInv
<1> SUFFICES ASSUME CrawlAssumption, CrawlInit PROVE CrawlInv
  OBVIOUS
<1>1. Busy = {}
  BY DEF CrawlInit, Busy, NoPass
<1>2. CrawlForm
  BY <1>1 DEF CrawlInit, CrawlForm, PageStatus
<1>3. LinksInv
  BY DEF CrawlInit, LinksInv
<1> QED BY <1>2, <1>3 DEF CrawlInv

\* No link of an accepted document is lost between the passes that visit it and follow
\* it, for every site, number of workers and limit, whatever workers overlap and fetches
\* fail (expandNextSourceCollection).
THEOREM LinksAreKept == ASSUME CrawlAssumption PROVE CrawlSpec => []NoLinkIsLost
<1>1. CrawlInv => NoLinkIsLost
  BY DEF CrawlInv, LinksInv, NoLinkIsLost, Covered, Remembered
<1> QED BY <1>1, CrawlInitInv, CrawlNextInv, PTL DEF CrawlSpec

-----------------------------------------------------------------------------
(* The search.  Sorting, taking the first of each key and cutting off choose  *)
(* among what was found, and put nothing else in its place.                   *)

\* There is a place of each number.
LEMMA PlaceExists ==
  ASSUME NEW N \in Nat, NEW places \in SUBSET (1..N), NEW n \in 1..Cardinality(places)
  PROVE  \E i \in places : Cardinality(places \cap (1..i)) = n
<1> DEFINE Upto(k) == places \cap (1..k)
<1>1. IsFiniteSet(places) /\ Cardinality(places) \in Nat
  <2>1. IsFiniteSet(1..N) /\ places \in SUBSET (1..N)
    BY FS_Interval
  <2>2. IsFiniteSet(places)
    BY <2>1, FS_Subset
  <2> QED BY <2>2, FS_CardinalityType
<1>2. ASSUME NEW k PROVE IsFiniteSet(Upto(k)) /\ Cardinality(Upto(k)) \in Nat
  <2>1. Upto(k) \in SUBSET places
    OBVIOUS
  <2> HIDE DEF Upto
  <2>2. IsFiniteSet(Upto(k))
    BY <1>1, <2>1, FS_Subset
  <2> QED BY <2>2, FS_CardinalityType
<1>3. Cardinality(Upto(N)) = Cardinality(places) /\ Cardinality(Upto(0)) = 0
  <2>1. Upto(N) = places
    OBVIOUS
  <2>2. Upto(0) = {}
    <3>1. 1..0 = {}
      OBVIOUS
    <3> QED BY <3>1
  <2> HIDE DEF Upto
  <2> QED BY <2>1, <2>2, FS_EmptySet
<1>4. \A k \in 1..N, q \in 0..N :
         q = k - 1 => /\ k \in places => Upto(k) = Upto(q) \cup {k} /\ k \notin Upto(q)
                      /\ k \notin places => Upto(k) = Upto(q)
  OBVIOUS
<1> HIDE DEF Upto
<1> DEFINE Enough == {k \in 0..N : Cardinality(Upto(k)) >= n}
           i == Min(Enough)
           p == i - 1
<1>5. N \in Enough /\ 0 \notin Enough
  BY <1>1, <1>3
<1>6. i \in Enough /\ \A k \in Enough : i <= k
  <2>1. Enough \in SUBSET (0..N) /\ Enough # {}
    BY <1>5
  <2> HIDE DEF Enough
  <2> QED BY <2>1, LeastExists
<1> HIDE DEF i
<1>7. i \in 1..N /\ p \in 0..N /\ p \notin Enough
  BY <1>5, <1>6
<1>13. /\ i \in places => Upto(i) = Upto(p) \cup {i} /\ i \notin Upto(p)
       /\ i \notin places => Upto(i) = Upto(p)
  <2>1. i \in 1..N /\ p \in 0..N /\ p = i - 1
    BY <1>7
  <2> HIDE DEF p
  <2> QED BY <1>4, <2>1
<1> HIDE DEF p
<1>8. Cardinality(Upto(p)) < n /\ Cardinality(Upto(i)) >= n
      /\ Cardinality(Upto(p)) \in Nat /\ Cardinality(Upto(i)) \in Nat
  <2>1. Cardinality(Upto(p)) \in Nat /\ Cardinality(Upto(i)) \in Nat
    BY <1>2
  <2>2. n \in Nat
    BY <1>1
  <2> QED BY <1>6, <1>7, <2>1, <2>2
<1>9. i \in places
  <2> SUFFICES ASSUME i \notin places PROVE FALSE
    OBVIOUS
  <2>1. Upto(i) = Upto(p)
    BY <1>13
  <2>2. n \in Nat
    BY <1>1
  <2> QED BY <2>1, <2>2, <1>8
<1>10. Cardinality(Upto(i)) = Cardinality(Upto(p)) + 1
  <2>1. IsFiniteSet(Upto(p)) /\ i \notin Upto(p) /\ Upto(i) = Upto(p) \cup {i}
    BY <1>2, <1>13, <1>9
  <2> QED BY <2>1, FS_AddElement
<1>11. n \in Nat
  BY <1>1
<1>12. Cardinality(Upto(i)) = n
  BY <1>8, <1>10, <1>11
<1> QED BY <1>9, <1>12 DEF Upto

LEMMA SubsequenceOf ==
  ASSUME NEW S, NEW s \in Seq(S), NEW places \in SUBSET DOMAIN s
  PROVE  /\ Subsequence(s, places) \in Seq(S)
         /\ \A n \in DOMAIN Subsequence(s, places) :
               \E i \in places : Subsequence(s, places)[n] = s[i]
<1>1. DOMAIN s = 1..Len(s) /\ Len(s) \in Nat
  OBVIOUS
<1>2. IsFiniteSet(places) /\ Cardinality(places) \in Nat
  <2>1. IsFiniteSet(1..Len(s)) /\ places \in SUBSET (1..Len(s))
    BY <1>1, FS_Interval
  <2>2. IsFiniteSet(places)
    BY <2>1, FS_Subset
  <2> QED BY <2>2, FS_CardinalityType
<1> DEFINE Place(n) == CHOOSE i \in places : Cardinality(places \cap (1..i)) = n
<1>3. \A n \in 1..Cardinality(places) : Place(n) \in places
  <2> TAKE n \in 1..Cardinality(places)
  <2>1. \E i \in places : Cardinality(places \cap (1..i)) = n
    BY <1>1, PlaceExists
  <2> QED BY <2>1
<1>4. Subsequence(s, places) = [n \in 1..Cardinality(places) |-> s[Place(n)]]
  BY DEF Subsequence
<1> HIDE DEF Place
<1>5. \A n \in 1..Cardinality(places) : s[Place(n)] \in S
  BY <1>3
<1> QED BY <1>2, <1>3, <1>4, <1>5

\* A place of each rank in a strict order.
LEMMA RankExists ==
  ASSUME NEW N \in Nat, NEW before \in [1..N -> SUBSET (1..N)],
         \A i \in 1..N : i \notin before[i],
         \A i, j \in 1..N : i # j => i \in before[j] \/ j \in before[i],
         \A i, j \in 1..N : j \in before[i] => before[j] \subseteq before[i],
         NEW n \in 1..N
  PROVE  \E i \in 1..N : Cardinality(before[i]) = n - 1
<1> DEFINE rank == [i \in 1..N |-> Cardinality(before[i]) + 1]
<1>1. IsFiniteSet(1..N) /\ Cardinality(1..N) = N
  BY FS_Interval
<1>2. \A i \in 1..N : IsFiniteSet(before[i]) /\ Cardinality(before[i]) \in 0..(N - 1)
  <2> TAKE i \in 1..N
  <2> DEFINE others == (1..N) \ {i}
  <2>1. IsFiniteSet(others) /\ Cardinality(others) = N - 1
    <3>1. i \in 1..N /\ IsFiniteSet(1..N) /\ Cardinality(1..N) = N
      BY <1>1
    <3> DEFINE D == 1..N
    <3> HIDE DEF D
    <3>2. i \in D /\ IsFiniteSet(D) /\ Cardinality(D) = N
      BY <3>1 DEF D
    <3>3. IsFiniteSet(D \ {i}) /\ Cardinality(D \ {i}) = N - 1
      BY <3>2, FS_RemoveElement
    <3> QED BY <3>3 DEF D
  <2>2. before[i] \in SUBSET others
    OBVIOUS
  <2> HIDE DEF others
  <2>3. IsFiniteSet(before[i]) /\ Cardinality(before[i]) <= N - 1
    BY <2>1, <2>2, FS_Subset
  <2>4. Cardinality(before[i]) \in Nat
    BY <2>3, FS_CardinalityType
  <2> QED BY <2>3, <2>4
<1>3. rank \in [1..N -> 1..N]
  BY <1>2
<1>4. ASSUME NEW i \in 1..N, NEW j \in 1..N, j \in before[i] PROVE rank[i] # rank[j]
  <2>1. before[j] \in SUBSET before[i] /\ before[j] # before[i]
    BY <1>4
  <2>2. Cardinality(before[j]) # Cardinality(before[i])
    BY <1>2, <2>1, FS_Subset
  <2> QED BY <1>2, <2>2
<1>5. \A i, j \in 1..N : i # j => rank[i] # rank[j]
  BY <1>4
<1> HIDE DEF rank
<1>6. rank \in Injection(1..N, 1..N)
  BY <1>3, <1>5 DEF Injection, IsInjective
<1>7. rank \in Surjection(1..N, 1..N)
  BY <1>1, <1>6, FS_Injection
<1>8. PICK i \in 1..N : rank[i] = n
  BY <1>7 DEF Surjection
<1> QED BY <1>2, <1>8 DEF rank

\* Keys of one length are ordered.
LEMMA PrecedesOrder ==
  ASSUME NEW m \in Nat,
         NEW x \in Seq(Int), NEW y \in Seq(Int), NEW z \in Seq(Int),
         Len(x) = m, Len(y) = m, Len(z) = m
  PROVE  /\ ~Precedes(x, x)
         /\ x # y => Precedes(x, y) \/ Precedes(y, x)
         /\ Precedes(x, y) /\ Precedes(y, z) => Precedes(x, z)
<1>0. DOMAIN x = 1..m /\ DOMAIN y = 1..m /\ DOMAIN z = 1..m
      /\ \A i \in 1..m : x[i] \in Int /\ y[i] \in Int /\ z[i] \in Int
  OBVIOUS
<1>1. ~Precedes(x, x)
  BY <1>0 DEF Precedes
<1>2. ASSUME x # y PROVE Precedes(x, y) \/ Precedes(y, x)
  <2> DEFINE D == {i \in 1..m : x[i] # y[i]}
             i == Min(D)
  <2>1. D # {}
    <3>1. x = [k \in 1..m |-> x[k]] /\ y = [k \in 1..m |-> y[k]]
      OBVIOUS
    <3>2. PICK k \in 1..m : x[k] # y[k]
      BY <1>2, <3>1
    <3> QED BY <3>2
  <2>2. i \in D /\ \A k \in D : i <= k
    <3>1. D \in SUBSET (0..m)
      OBVIOUS
    <3> HIDE DEF D
    <3> QED BY <2>1, <3>1, LeastExists
  <2> HIDE DEF i
  <2>3. \A k \in 1..(i - 1) : x[k] = y[k]
    BY <2>2
  <2>4. x[i] > y[i] \/ y[i] > x[i]
    BY <1>0, <2>2
  <2> QED BY <1>0, <2>2, <2>3, <2>4 DEF Precedes
<1>3. ASSUME Precedes(x, y), Precedes(y, z) PROVE Precedes(x, z)
  <2>1. PICK i \in 1..m : x[i] > y[i] /\ \A k \in 1..(i - 1) : x[k] = y[k]
    BY <1>0, <1>3 DEF Precedes
  <2>2. PICK j \in 1..m : y[j] > z[j] /\ \A k \in 1..(j - 1) : y[k] = z[k]
    BY <1>0, <1>3 DEF Precedes
  <2>3. CASE i <= j
    <3>1. i = j \/ i \in 1..(j - 1)
      BY <2>3
    <3>2. y[i] >= z[i]
      BY <1>0, <2>2, <3>1
    <3>3. x[i] > z[i]
      BY <1>0, <2>1, <3>2
    <3>4. \A k \in 1..(i - 1) : k \in 1..(j - 1)
      BY <2>3
    <3>5. \A k \in 1..(i - 1) : x[k] = z[k]
      BY <2>1, <2>2, <3>4
    <3> QED BY <1>0, <3>3, <3>5 DEF Precedes
  <2>4. CASE j < i
    <3>1. x[j] > z[j] /\ \A k \in 1..(j - 1) : x[k] = z[k]
      BY <1>0, <2>1, <2>2, <2>4
    <3> QED BY <1>0, <3>1 DEF Precedes
  <2> QED BY <2>3, <2>4
<1> QED BY <1>1, <1>2, <1>3

LEMMA SortByOf ==
  ASSUME NEW S, NEW s \in Seq(S), NEW m \in Nat, NEW keys,
         \A i \in DOMAIN s : keys[i] \in Seq(Int) /\ Len(keys[i]) = m
  PROVE  SortBy(s, keys) \in Seq(S)
<1> DEFINE N == Len(s)
           Before(i) == {j \in DOMAIN s : \/ Precedes(keys[j], keys[i])
                                          \/ keys[j] = keys[i] /\ j < i}
           before == [i \in 1..N |-> Before(i)]
<1>0. N \in Nat /\ DOMAIN s = 1..N
  OBVIOUS
<1>1. \A i, j, k \in 1..N :
         /\ ~Precedes(keys[i], keys[i])
         /\ keys[i] # keys[j] => Precedes(keys[i], keys[j]) \/ Precedes(keys[j], keys[i])
         /\ Precedes(keys[i], keys[j]) /\ Precedes(keys[j], keys[k])
            => Precedes(keys[i], keys[k])
  BY <1>0, PrecedesOrder
<1> HIDE DEF N
<1>2. \A i \in 1..N : i \notin before[i]
  BY <1>0, <1>1
<1>3. \A i, j \in 1..N : i # j => i \in before[j] \/ j \in before[i]
  BY <1>0, <1>1
<1>4. \A i, j \in 1..N : j \in before[i] => before[j] \subseteq before[i]
  BY <1>0, <1>1
<1>5. before \in [1..N -> SUBSET (1..N)]
  BY <1>0
<1> DEFINE Placed(n) == CHOOSE i \in DOMAIN s : Cardinality(Before(i)) = n - 1
<1>6. SortBy(s, keys) = [n \in DOMAIN s |-> s[Placed(n)]]
  BY DEF SortBy
<1>9. \A i \in 1..N : before[i] = Before(i)
  <2> HIDE DEF Before
  <2> QED OBVIOUS
<1>7. \A n \in 1..N : Placed(n) \in 1..N
  <2> TAKE n \in 1..N
  <2> HIDE DEF before, Before
  <2>1. \E i \in 1..N : Cardinality(before[i]) = n - 1
    BY <1>0, <1>2, <1>3, <1>4, <1>5, RankExists
  <2> QED BY <2>1, <1>0, <1>9
<1> HIDE DEF Placed, before, Before
<1>8. \A n \in 1..N : s[Placed(n)] \in S
  BY <1>0, <1>7
<1> QED BY <1>0, <1>6, <1>8

LEMMA SetToSeqOf == ASSUME NEW S, IsFiniteSet(S) PROVE SetToSeq(S) \in Seq(S)
<1>1. Cardinality(S) \in Nat /\ ExistsBijection(1..Cardinality(S), S)
  BY FS_CardinalityType
<1>2. PICK f \in [1..Cardinality(S) -> S] : IsInjective(f)
  BY <1>1 DEF ExistsBijection, Bijection, Injection, IsInjective
<1>3. SetToSeq(S) \in [1..Cardinality(S) -> S]
  BY <1>2 DEF SetToSeq
<1> QED BY <1>1, <1>3

\* The rows the index may hold.
IndexRows == {Indexed(c) : c \in Candidates}

\* What a search may find for a context: a row with its relation to the context, and
\* with its match where they can be compared.
Entries(ctx) ==
    {Entry(row, ctx, MatchVersionApplicability(row, ctx.version)) : row \in IndexRows}
    \cup {Entry(row, ctx, Unset) :
            row \in {other \in IndexRows : CandidateContextRelation(other, ctx) \notin Comparable}}

SearchInv ==
    /\ IsFiniteSet(knowledge) /\ knowledge \subseteq IndexRows
    /\ request \in Requests

LEMMA RowsTyped ==
  ASSUME SearchAssumption, NEW row \in IndexRows
  PROVE  /\ row.scope \in Scopes /\ row.of \in Candidates /\ row = Indexed(row.of)
         /\ row.of.text \in Int /\ Rank(row) \in Int
<1>1. PICK c \in Candidates : row = Indexed(c)
  BY DEF IndexRows
<1>2. row.of = c /\ row.scope = EffectiveApplicability(c).scope
  BY <1>1 DEF Indexed
<1>3. c.scope \in Scopes \cup {Unset} /\ c.text \in Int
  BY DEF SearchAssumption
<1>4. EffectiveApplicability(c).scope \in Scopes
  BY <1>3 DEF EffectiveApplicability, Scopes
<1>5. row.of.text \in Int
  BY <1>2, <1>3
<1>6. Rank(row) \in Int
  BY <1>5 DEF Rank
<1> QED BY <1>1, <1>2, <1>4, <1>5, <1>6

LEMMA EntriesTyped ==
  ASSUME SearchAssumption, NEW ctx, NEW e \in Entries(ctx)
  PROVE  /\ e.row \in IndexRows /\ e.relation = CandidateContextRelation(e.row, ctx)
         /\ e.relation \in DOMAIN ContextPriority
         /\ e.relation \in Comparable => e.match = MatchVersionApplicability(e.row, ctx.version)
<1>1. PICK row \in IndexRows :
         \/ e = Entry(row, ctx, MatchVersionApplicability(row, ctx.version))
         \/ e = Entry(row, ctx, Unset) /\ CandidateContextRelation(row, ctx) \notin Comparable
  BY DEF Entries
<1>2. /\ e.row = row /\ e.relation = CandidateContextRelation(row, ctx)
      /\ \/ e.match = MatchVersionApplicability(row, ctx.version)
         \/ CandidateContextRelation(row, ctx) \notin Comparable
  BY <1>1 DEF Entry
<1>3. CandidateContextRelation(row, ctx) \in DOMAIN ContextPriority
  <2>1. row.scope \in Scopes
    BY RowsTyped
  <2> QED BY <2>1 DEF CandidateContextRelation, ContextPriority, Scopes
<1> QED BY <1>2, <1>3

\* The priorities an entry is sorted by are integers.
LEMMA PrioritiesTyped ==
  ASSUME SearchAssumption, NEW ctx, NEW e \in Entries(ctx)
  PROVE  /\ ContextPriority[e.relation] \in Int /\ VersionPriority(e.match) \in Int
         /\ ScopePriority[e.row.scope] \in Int /\ Rank(e.row) \in Int
         /\ e.row.of.text \in Int
<1>1. e.row \in IndexRows /\ e.relation \in DOMAIN ContextPriority
  BY EntriesTyped
<1>2. e.row.scope \in Scopes /\ Rank(e.row) \in Int /\ e.row.of.text \in Int
  BY <1>1, RowsTyped
<1>3. ContextPriority[e.relation] \in Int
  BY <1>1 DEF ContextPriority
<1>4. ScopePriority[e.row.scope] \in Int
  BY <1>2 DEF ScopePriority, Scopes
<1>5. VersionPriority(e.match) \in Int
  BY DEF VersionPriority
<1> QED BY <1>2, <1>3, <1>4, <1>5

LEMMA FirstOfEachKeyOf ==
  ASSUME NEW S, NEW s \in Seq(S)
  PROVE  FirstOfEachKey(s) \in Seq(S)
<1> DEFINE places == {i \in DOMAIN s :
                        \A k \in 1..(i - 1) : s[k].row.of.key # s[i].row.of.key}
<1>1. places \in SUBSET DOMAIN s
  OBVIOUS
<1>2. FirstOfEachKey(s) = Subsequence(s, places)
  BY DEF FirstOfEachKey
<1> HIDE DEF places
<1> QED BY <1>1, <1>2, SubsequenceOf

LEMMA ExactRowsOf ==
  ASSUME SearchAssumption, SearchInv, NEW part, NEW ctx
  PROVE  ExactRows(part, ctx) \in Seq(Entries(ctx))
<1> DEFINE found == {row \in knowledge : InScope(row, ctx) /\ part \in row.of.parts
                                         /\ ~Excluded(row, ctx)}
           best == {row \in found : \A other \in found : 2 * Rank(row) >= Rank(other)}
           applicable == {row \in best : MatchVersionApplicability(row, ctx.version) # Unset}
           Matched(row) == Entry(row, ctx, MatchVersionApplicability(row, ctx.version))
           given == {Matched(row) : row \in applicable}
           entries == SetToSeq(given)
           SortKey(e) == <<ContextPriority[e.relation], VersionPriority(e.match),
                           ScopePriority[e.row.scope], Rank(e.row)>>
           keys == [i \in DOMAIN entries |-> SortKey(entries[i])]
<1>1. applicable \in SUBSET knowledge /\ applicable \in SUBSET IndexRows
  BY DEF SearchInv
<1>2. ExactRows(part, ctx) = FirstOfEachKey(SortBy(entries, keys))
  BY DEF ExactRows
<1> HIDE DEF applicable
<1>3. IsFiniteSet(applicable)
  BY <1>1, FS_Subset DEF SearchInv
<1>4. IsFiniteSet(given)
  <2> DEFINE f == [row \in applicable |-> Matched(row)]
  <2>1. f \in Surjection(applicable, given)
    <3> HIDE DEF Matched
    <3> QED BY DEF Surjection
  <2> HIDE DEF f, given
  <2> QED BY <1>3, <2>1, FS_Surjection
<1>5. given \in SUBSET Entries(ctx)
  BY <1>1 DEF Entries
<1> HIDE DEF given
<1>6. entries \in Seq(Entries(ctx))
  <2>1. entries \in Seq(given)
    BY <1>4, SetToSeqOf
  <2> HIDE DEF entries
  <2> QED BY <1>5, <2>1
<1> HIDE DEF entries
<1>7. \A i \in DOMAIN entries : keys[i] \in Seq(Int) /\ Len(keys[i]) = 4
  <2> TAKE i \in DOMAIN entries
  <2> DEFINE e == entries[i]
  <2>1. e \in Entries(ctx)
    BY <1>6
  <2> HIDE DEF e
  <2>2. /\ ContextPriority[e.relation] \in Int /\ VersionPriority(e.match) \in Int
        /\ ScopePriority[e.row.scope] \in Int /\ Rank(e.row) \in Int
    BY <2>1, PrioritiesTyped
  <2>3. SortKey(e) \in Seq(Int) /\ Len(SortKey(e)) = 4
    BY <2>2
  <2>4. keys[i] = SortKey(e)
    BY DEF e
  <2> QED BY <2>3, <2>4
<1> HIDE DEF keys
<1>8. SortBy(entries, keys) \in Seq(Entries(ctx))
  BY <1>6, <1>7, SortByOf
<1> QED BY <1>2, <1>8, FirstOfEachKeyOf

LEMMA BroadRowsOf ==
  ASSUME SearchAssumption, SearchInv, NEW part, NEW ctx, NEW vendors
  PROVE  SearchBroadKnowledgeRows(part, ctx, vendors) \in Seq(IndexRows)
<1> DEFINE found == {row \in knowledge : part \in row.of.parts /\ row.vendor \in vendors
                                         /\ ~Excluded(row, ctx)}
           listed == SetToSeq(found)
           keys == [i \in DOMAIN listed |-> <<listed[i].of.text>>]
<1>1. found \in SUBSET knowledge /\ found \in SUBSET IndexRows
  BY DEF SearchInv
<1>2. SearchBroadKnowledgeRows(part, ctx, vendors) = SortBy(listed, keys)
  BY DEF SearchBroadKnowledgeRows
<1> HIDE DEF found
<1>3. IsFiniteSet(found)
  BY <1>1, FS_Subset DEF SearchInv
<1>4. listed \in Seq(IndexRows)
  <2>1. listed \in Seq(found)
    BY <1>3, SetToSeqOf
  <2> HIDE DEF listed
  <2> QED BY <1>1, <2>1
<1> HIDE DEF listed
<1>5. \A i \in DOMAIN listed : keys[i] \in Seq(Int) /\ Len(keys[i]) = 1
  <2> TAKE i \in DOMAIN listed
  <2>1. listed[i] \in IndexRows
    BY <1>4
  <2>2. listed[i].of.text \in Int
    BY <2>1, RowsTyped
  <2> QED BY <2>2
<1> HIDE DEF keys
<1> QED BY <1>2, <1>4, <1>5, SortByOf

LEMMA WidenedOf ==
  ASSUME SearchAssumption, NEW ctx, NEW listed \in Seq(IndexRows)
  PROVE  Widened(listed, ctx) \in Seq(Entries(ctx))
<1> DEFINE s == [i \in DOMAIN listed |-> WidenedEntry(listed[i], ctx)]
<1>1. DOMAIN listed = 1..Len(listed) /\ Len(listed) \in Nat
  OBVIOUS
<1>2. \A i \in DOMAIN listed : WidenedEntry(listed[i], ctx) \in Entries(ctx)
  <2> TAKE i \in DOMAIN listed
  <2>1. listed[i] \in IndexRows
    OBVIOUS
  <2>2. CASE CandidateContextRelation(listed[i], ctx) \in Comparable
    <3>1. WidenedEntry(listed[i], ctx)
             = Entry(listed[i], ctx, MatchVersionApplicability(listed[i], ctx.version))
      BY <2>2 DEF WidenedEntry
    <3> QED BY <2>1, <3>1 DEF Entries
  <2>3. CASE CandidateContextRelation(listed[i], ctx) \notin Comparable
    <3>1. WidenedEntry(listed[i], ctx) = Entry(listed[i], ctx, Unset)
      BY <2>3 DEF WidenedEntry
    <3> QED BY <2>1, <2>3, <3>1 DEF Entries
  <2> QED BY <2>2, <2>3
<1>3. s \in Seq(Entries(ctx))
  BY <1>1, <1>2
<1> HIDE DEF s
<1>4. FirstOfEachKey(s) \in Seq(Entries(ctx))
  BY <1>3, FirstOfEachKeyOf
<1> QED BY <1>4 DEF Widened, s

LEMMA WithWidenedOf ==
  ASSUME SearchAssumption, SearchInv, NEW part, NEW ctx, NEW exact \in Seq(Entries(ctx))
  PROVE  WithWidened(exact, part, ctx) \in Seq(Entries(ctx))
<1> DEFINE ofVendor == IF ctx.vendor = Unset THEN <<>>
                       ELSE SearchBroadKnowledgeRows(part, ctx, {ctx.vendor})
           listed == BroadRows(exact, ofVendor, part, ctx)
           widened == Widened(listed, ctx)
           new == {i \in DOMAIN widened :
                     \A k \in DOMAIN exact : exact[k].row.of.key # widened[i].row.of.key}
           entries == exact \o Subsequence(widened, new)
           SortKey(e) == <<ContextPriority[e.relation], e.row.of.text, VersionPriority(e.match),
                           ScopePriority[e.row.scope], Rank(e.row)>>
           keys == [i \in DOMAIN entries |-> SortKey(entries[i])]
<1>1. WithWidened(exact, part, ctx) = SortBy(entries, keys)
  BY DEF WithWidened
<1>2. ofVendor \in Seq(IndexRows)
  BY BroadRowsOf
<1> HIDE DEF ofVendor
<1>3. listed \in Seq(IndexRows)
  <2>1. SearchBroadKnowledgeRows(part, ctx, Vendors) \in Seq(IndexRows)
    BY BroadRowsOf
  <2> QED BY <1>2, <2>1 DEF BroadRows
<1> HIDE DEF listed
<1>4. widened \in Seq(Entries(ctx))
  BY <1>3, WidenedOf
<1> HIDE DEF widened
<1>5. new \in SUBSET DOMAIN widened
  OBVIOUS
<1> HIDE DEF new
<1>6. entries \in Seq(Entries(ctx))
  <2>1. Subsequence(widened, new) \in Seq(Entries(ctx))
    BY <1>4, <1>5, SubsequenceOf
  <2> QED BY <2>1
<1> HIDE DEF entries
<1>7. \A i \in DOMAIN entries : keys[i] \in Seq(Int) /\ Len(keys[i]) = 5
  <2> TAKE i \in DOMAIN entries
  <2> DEFINE e == entries[i]
  <2>1. e \in Entries(ctx)
    BY <1>6
  <2> HIDE DEF e
  <2>2. /\ ContextPriority[e.relation] \in Int /\ VersionPriority(e.match) \in Int
        /\ ScopePriority[e.row.scope] \in Int /\ Rank(e.row) \in Int /\ e.row.of.text \in Int
    BY <2>1, PrioritiesTyped
  <2>3. SortKey(e) \in Seq(Int) /\ Len(SortKey(e)) = 5
    BY <2>2
  <2>4. keys[i] = SortKey(e)
    BY DEF e
  <2> QED BY <2>3, <2>4
<1> HIDE DEF keys
<1> QED BY <1>1, <1>6, <1>7, SortByOf

LEMMA ApplicableRowsOf ==
  ASSUME SearchAssumption, SearchInv, NEW part, NEW ctx
  PROVE  ApplicableRows(part, ctx) \in Seq(Entries(ctx))
<1> DEFINE found == WithWidened(ExactRows(part, ctx), part, ctx)
           n == IF Len(found) < AnswerLimit THEN Len(found) ELSE AnswerLimit
<1>1. found \in Seq(Entries(ctx))
  BY ExactRowsOf, WithWidenedOf
<1> HIDE DEF found
<1>2. n \in 0..Len(found)
  BY <1>1 DEF SearchAssumption
<1> HIDE DEF n
<1>3. SubSeq(found, 1, n) \in Seq(Entries(ctx))
  BY <1>1, <1>2
<1> QED BY <1>3 DEF ApplicableRows, FirstOf, found, n

\* What is true of every answer shown: one that is dangerous and asks for no confirmation
\* is of a model and was compared, and so was one with an assurance.
AnswerOf(a, ctx) ==
    /\ a.row \in IndexRows /\ a.relation = CandidateContextRelation(a.row, ctx)
    /\ a.relation \in Comparable => a.match = MatchVersionApplicability(a.row, ctx.version)
    /\ a.dangerous /\ ~a.confirm
       => a.row.scope = "model" /\ a.relation \in Comparable /\ a.match # Unset
    /\ a.assurance # "best_effort" => a.relation \in Comparable /\ a.match # Unset

LEMMA AnswersAreOfEntries ==
  ASSUME SearchAssumption, NEW ctx, NEW e \in Entries(ctx), NEW given
  PROVE  AnswerOf(ToPublicKnowledge(e, given), ctx)
<1> DEFINE a == ToPublicKnowledge(e, given)
           reference == e.relation \in {"same_vendor", "cross_platform"} \/ e.match = Unset
           dangerous == e.row.of.risk = "dangerous"
<1>1. /\ a.row = e.row /\ a.relation = e.relation /\ a.match = e.match
      /\ a.dangerous = dangerous
      /\ a.assurance = IF reference THEN "best_effort" ELSE AssuranceFor(e.row.scope, e.match)
      /\ a.confirm = RequiresPlatformConfirmation(e, reference, dangerous)
  BY DEF ToPublicKnowledge
<1>2. /\ e.row \in IndexRows /\ e.relation = CandidateContextRelation(e.row, ctx)
      /\ e.relation \in DOMAIN ContextPriority
      /\ e.relation \in Comparable => e.match = MatchVersionApplicability(e.row, ctx.version)
  BY EntriesTyped
<1>3. ~reference => e.relation \in Comparable /\ e.match # Unset
  BY <1>2 DEF ContextPriority, Comparable
<1>4. dangerous /\ ~RequiresPlatformConfirmation(e, reference, dangerous)
      => e.row.scope = "model" /\ ~reference
  BY DEF RequiresPlatformConfirmation
<1> HIDE DEF a, reference, dangerous
<1>5. AnswerOf(a, ctx)
  BY <1>1, <1>2, <1>3, <1>4 DEF AnswerOf
<1> QED BY <1>5 DEF a

LEMMA SearchedAnswers ==
  ASSUME SearchAssumption, SearchInv, NEW part, NEW ctx,
         NEW a \in ToSet(SearchKnowledge(part, ctx))
  PROVE  AnswerOf(a, ctx)
<1> DEFINE entries == ApplicableRows(part, ctx)
<1>1. entries \in Seq(Entries(ctx))
  BY ApplicableRowsOf
<1>2. SearchKnowledge(part, ctx) = Published(entries)
  BY DEF SearchKnowledge
<1> HIDE DEF entries
<1>3. PICK i \in DOMAIN entries : a = ToPublicKnowledge(entries[i], ToSet(entries))
  <2>1. ToSet(Published(entries))
           = {ToPublicKnowledge(entries[i], ToSet(entries)) : i \in DOMAIN entries}
    BY DEF Published, ToSet
  <2> QED BY <1>2, <2>1
<1>4. entries[i] \in Entries(ctx)
  BY <1>1
<1> QED BY <1>3, <1>4, AnswersAreOfEntries

\* The parts of a result hold what was found for them.
LEMMA PartitionOf ==
  ASSUME NEW S, NEW found \in Seq(S), NEW part, NEW ctx
  PROVE  LET result == PartitionContextualExamples(found, part, ctx)
         IN /\ ToSet(result.answers) \subseteq ToSet(found)
            /\ result.examples \subseteq ToSet(found)
            /\ result.covered = {a \in ToSet(result.answers) :
                                   AnswerProvidesContextualCoverage(a, part, ctx)}
<1> DEFINE places == {i \in DOMAIN found : ~IsExample(found[i], ctx)}
           answers == Subsequence(found, places)
           result == PartitionContextualExamples(found, part, ctx)
<1>1. /\ result.answers = answers
      /\ result.examples = {a \in ToSet(found) : IsExample(a, ctx)}
      /\ result.covered = {a \in ToSet(answers) :
                             AnswerProvidesContextualCoverage(a, part, ctx)}
  BY DEF PartitionContextualExamples
<1>2. \A n \in DOMAIN answers : \E i \in places : answers[n] = found[i]
  <2>1. places \in SUBSET DOMAIN found
    OBVIOUS
  <2> HIDE DEF places
  <2> QED BY <2>1, SubsequenceOf
<1> HIDE DEF answers, result
<1>3. ToSet(answers) \subseteq ToSet(found)
  BY <1>2 DEF ToSet
<1>4. /\ ToSet(result.answers) \subseteq ToSet(found)
      /\ result.examples \subseteq ToSet(found)
      /\ result.covered = {a \in ToSet(result.answers) :
                             AnswerProvidesContextualCoverage(a, part, ctx)}
  BY <1>1, <1>3
<1> QED BY <1>4 DEF result

LEMMA InheritsItself ==
  ASSUME NEW family \in Families
  PROVE  family \in Inherited(family)
BY DEF Inherited

\* The version of a resolved context is the request's; so is its platform, and only for
\* a sure vendor; the family of a system asked about is among the context's families.
LEMMA ContextOf ==
  ASSUME SearchAssumption, NEW r \in Requests
  PROVE  LET ctx == ResolveNetworkContext(r)
         IN /\ ctx.version = r.version
            /\ ctx.platform # Unset => ctx.platform = r.model /\ r.sureVendor
            /\ ctx.vendor # Unset /\ ctx.system \in Families => ctx.system \in ctx.families
<1> DEFINE vendor == IF r.sureVendor THEN r.vendor ELSE Unset
           vendorSystem == r.system # Unset /\ <<vendor, r.system>> \in Systems
           explicit == r.system \in Families
           platform == IF vendor # Unset /\ r.model \in Platforms /\ VendorOf[r.model] = vendor
                       THEN r.model ELSE Unset
           first == \/ ~vendorSystem /\ explicit /\ ~r.sureSystem
                    \/ vendor = Unset /\ r.system \notin Portable
           second == ~vendorSystem /\ ~explicit
           third == ~vendorSystem /\ r.system \notin Portable
           reached == Inherited(r.system)
                       \cup (IF vendor = Unset THEN {} ELSE {VendorFamily[vendor]} \ {Unset})
           full == [vendor |-> vendor, platform |-> platform,
                    os |-> IF vendorSystem THEN r.system ELSE Unset, system |-> r.system,
                    families |-> reached,
                    architecture |-> IF platform = Unset THEN Unset
                                     ELSE ArchitectureOf[platform],
                    version |-> r.version]
           ctx == ResolveNetworkContext(r)
<1>1. ctx = IF first THEN Unresolved(r, Unset, Unset)
            ELSE IF second THEN Unresolved(r, vendor, platform)
            ELSE IF third THEN Unresolved(r, Unset, Unset)
            ELSE full
  BY DEF ResolveNetworkContext
<1>2. platform # Unset => platform = r.model /\ r.sureVendor
  OBVIOUS
<1>3. ~second => r.system \in Families
  <2>1. Systems \subseteq Vendors \X Families
    BY DEF SearchAssumption
  <2> QED BY <2>1
<1>4. second => r.system \notin Families
  OBVIOUS
<1>5. r.system \in Families => r.system \in reached
  BY InheritsItself
<1> HIDE DEF vendor, platform, first, second, third, reached, ctx, vendorSystem
<1>6. CASE first \/ (~second /\ third)
  <2>1. ctx = Unresolved(r, Unset, Unset)
    BY <1>1, <1>6
  <2> QED BY <2>1 DEF Unresolved, ctx
<1>7. CASE ~first /\ second
  <2>1. ctx = Unresolved(r, vendor, platform)
    BY <1>1, <1>7
  <2>2. /\ ctx.version = r.version /\ ctx.platform = platform /\ ctx.system = r.system
    BY <2>1 DEF Unresolved
  <2> QED BY <1>2, <1>4, <1>7, <2>2 DEF ctx
<1>8. CASE ~first /\ ~second /\ ~third
  <2>1. ctx = full
    BY <1>1, <1>8
  <2>2. /\ ctx.version = r.version /\ ctx.platform = platform /\ ctx.system = r.system
        /\ ctx.families = reached
    BY <2>1
  <2> QED BY <1>2, <1>3, <1>5, <1>8, <2>2 DEF ctx
<1> QED BY <1>6, <1>7, <1>8

\* A comparable row is of one of the context's families.
LEMMA ComparableIsOfFamily ==
  ASSUME SearchAssumption, request \in Requests, NEW row \in IndexRows,
         CandidateContextRelation(row, ResolveNetworkContext(request)) \in Comparable
  PROVE  row.family \in ResolveNetworkContext(request).families
<1> DEFINE ctx == ResolveNetworkContext(request)
<1>1. \/ row.vendor # Unset /\ row.vendor = ctx.vendor /\ row.family = ctx.system
      \/ row.family \in ctx.families
  <2> SUFFICES ASSUME ~(row.vendor # Unset /\ row.vendor = ctx.vendor /\ row.family = ctx.system),
                      row.family \notin ctx.families
               PROVE  FALSE
    OBVIOUS
  <2> HIDE DEF ctx
  <2>1. CandidateContextRelation(row, ctx) \in Comparable
    BY DEF ctx
  <2>2. CandidateContextRelation(row, ctx)
           = IF row.vendor # Unset /\ row.vendor = ctx.vendor THEN "same_vendor"
             ELSE "cross_platform"
    BY DEF CandidateContextRelation
  <2> QED BY <2>1, <2>2 DEF Comparable
<1>2. row.family \in Families
  <2>1. row.of \in Candidates /\ row = Indexed(row.of)
    BY RowsTyped
  <2>2. row.family = row.of.family
    BY <2>1 DEF Indexed
  <2> QED BY <2>1, <2>2 DEF SearchAssumption
<1>3. ctx.vendor # Unset /\ ctx.system \in Families => ctx.system \in ctx.families
  BY ContextOf
<1> HIDE DEF ctx
<1>4. row.family \in ctx.families
  BY <1>1, <1>2, <1>3
<1> QED BY <1>4 DEF ctx

\* A comparable row of the scope of a model is of the context's platform.
LEMMA ModelIsOfPlatform ==
  ASSUME SearchAssumption, NEW row \in IndexRows, row.scope = "model", NEW ctx,
         CandidateContextRelation(row, ctx) \in Comparable
  PROVE  row.platform = ctx.platform /\ row.of.platform = ctx.platform /\ ctx.platform # Unset
<1>1. row.platform = ctx.platform
  BY DEF CandidateContextRelation, Comparable
<1>2. row = Indexed(row.of)
  BY RowsTyped
<1> DEFINE c == row.of
<1>3. row.platform = c.platform /\ row.scope = EffectiveApplicability(c).scope
  BY <1>2 DEF Indexed
<1>4. c.platform # Unset
  <2> HIDE DEF c
  <2> QED BY <1>3 DEF EffectiveApplicability
<1> QED BY <1>1, <1>3, <1>4

\* A compared answer that is no fallback to the branch applies to the request.
LEMMA ComparedApplies ==
  ASSUME SearchAssumption, request \in Requests, NEW a,
         AnswerOf(a, ResolveNetworkContext(request)),
         a.relation \in Comparable, a.match # Unset, a.match # "same_branch_fallback"
  PROVE  Applies(a.row.of)
<1> DEFINE ctx == ResolveNetworkContext(request)
           row == a.row
           c == row.of
<1>1. /\ row \in IndexRows /\ CandidateContextRelation(row, ctx) \in Comparable
      /\ a.match = MatchVersionApplicability(row, ctx.version)
  BY DEF AnswerOf
<1>2. c \in Candidates /\ row = Indexed(c)
  BY <1>1, RowsTyped
<1>3. /\ ctx.version = request.version
      /\ ctx.platform # Unset => ctx.platform = request.model /\ request.sureVendor
  BY ContextOf
<1>4. /\ row.family = c.family /\ row.min = c.min /\ row.max = c.max
      /\ row.scope = EffectiveApplicability(c).scope
      /\ row.versions = EffectiveApplicability(c).versions
  BY <1>2 DEF Indexed
<1>5. c.family \in ctx.families
  BY <1>1, <1>4, ComparableIsOfFamily
<1>6. ASSUME c.platform # Unset, c.scope \in {Unset, "model"} PROVE c.platform = request.model
  <2>1. row.scope = "model"
    <3> HIDE DEF c, row
    <3> QED BY <1>4, <1>6 DEF EffectiveApplicability
  <2> HIDE DEF ctx
  <2>2. c.platform = ctx.platform /\ ctx.platform # Unset
    BY <1>1, <2>1, ModelIsOfPlatform
  <2> QED BY <1>3, <2>2
<1>7. ASSUME c.versions = Unset, c.min # Unset, c.max # Unset, request.version # Unset
      PROVE  request.version \in c.min..c.max
  <2>1. c.min \in Nat /\ c.max \in Nat /\ request.version \in Nat
    BY <1>2, <1>7 DEF SearchAssumption
  <2>2. row.versions = IF c.min = c.max THEN "exact" ELSE "range"
    <3> HIDE DEF c, row
    <3> QED BY <1>4, <1>7 DEF EffectiveApplicability
  <2> HIDE DEF ctx
  <2>3. CASE row.versions = "range"
    <3>1. ~(\/ row.min # Unset /\ ctx.version < row.min
            \/ row.max # Unset /\ ctx.version > row.max)
      <4> HIDE DEF row
      <4> QED BY <1>1, <1>3, <1>7, <2>3 DEF MatchVersionApplicability, row
    <3> QED BY <1>3, <1>4, <1>7, <2>1, <3>1
  <2>4. CASE row.versions = "exact"
    <3>1. row.min = ctx.version /\ row.max = ctx.version
      BY <1>1, <1>3, <1>7, <2>4 DEF MatchVersionApplicability
    <3> QED BY <1>3, <1>4, <2>1, <3>1
  <2> QED BY <2>2, <2>3, <2>4
<1> QED BY <1>5, <1>6, <1>7 DEF Applies

LEMMA ResultOf ==
  ASSUME SearchAssumption, SearchInv
  PROVE  AllApplies(Result)
<1> DEFINE ctx == ResolveNetworkContext(request)
           parts == [part \in Parts |-> SearchPart(part, ctx)]
           result == WithCoverage(parts)
<1>1. Result = result /\ request \in Requests
  BY DEF Result, SearchKnowledgeWithCoverage, SearchInv
<1>2. /\ result.parts = parts
      /\ result.status = "complete" => \A part \in Parts : parts[part].covered # {}
  BY DEF WithCoverage
<1>3. ASSUME NEW part \in Parts
      PROVE  /\ \A a \in ToSet(parts[part].answers) : AnswerOf(a, ctx)
             /\ \A a \in parts[part].examples : AnswerOf(a, ctx)
             /\ parts[part].covered = {a \in ToSet(parts[part].answers) :
                                         AnswerProvidesContextualCoverage(a, part, ctx)}
  <2> DEFINE found == SearchKnowledge(part, ctx)
             entries == ApplicableRows(part, ctx)
  <2>1. found \in Seq(ToSet(found))
    <3>1. entries \in Seq(Entries(ctx))
      BY ApplicableRowsOf
    <3>2. DOMAIN found = DOMAIN entries
      BY DEF SearchKnowledge, Published
    <3> HIDE DEF entries
    <3>3. DOMAIN found = 1..Len(entries) /\ Len(entries) \in Nat
      BY <3>1, <3>2
    <3>4. found = [i \in DOMAIN found |-> found[i]]
      BY DEF SearchKnowledge, Published
    <3> HIDE DEF found
    <3> QED BY <3>3, <3>4 DEF ToSet
  <2>2. \A a \in ToSet(found) : AnswerOf(a, ctx)
    BY SearchedAnswers
  <2>3. parts[part] = PartitionContextualExamples(found, part, ctx)
    BY DEF SearchPart
  <2> HIDE DEF found, ctx
  <2> QED BY <2>1, <2>2, <2>3, PartitionOf
<1> HIDE DEF parts, result
<1>4. DangerIsConfined(result)
  <2> SUFFICES ASSUME NEW a \in Shown(result), a.dangerous, ~a.confirm
               PROVE  /\ a.row.of.platform # Unset /\ request.sureVendor
                      /\ a.row.of.platform = request.model /\ a.match # Unset
    BY DEF DangerIsConfined
  <2>1. AnswerOf(a, ctx)
    <3>1. PICK part \in Parts : a \in ToSet(parts[part].answers) \cup parts[part].examples
      <4>1. Shown(result) = UNION {ToSet(parts[part].answers) \cup parts[part].examples :
                                     part \in Parts}
        BY <1>2 DEF Shown
      <4> QED BY <4>1
    <3> HIDE DEF ctx
    <3> QED BY <1>3, <3>1
  <2>2. /\ a.row \in IndexRows /\ a.row.scope = "model" /\ a.match # Unset
        /\ CandidateContextRelation(a.row, ctx) \in Comparable
    BY <2>1 DEF AnswerOf
  <2>3. a.row.of.platform = ctx.platform /\ ctx.platform # Unset
    BY <2>2, ModelIsOfPlatform
  <2>4. ctx.platform # Unset => ctx.platform = request.model /\ request.sureVendor
    BY <1>1, ContextOf
  <2> HIDE DEF ctx
  <2> QED BY <2>2, <2>3, <2>4
<1>5. ASSUME NEW part \in Parts, NEW a \in parts[part].covered
      PROVE  a \in ToSet(parts[part].answers) /\ Applies(a.row.of)
  <2>1. a \in ToSet(parts[part].answers) /\ AnswerProvidesContextualCoverage(a, part, ctx)
    BY <1>3, <1>5
  <2>2. AnswerOf(a, ctx)
    BY <1>3, <2>1
  <2>3. a.relation \in Comparable /\ a.match # Unset /\ a.match # "same_branch_fallback"
    BY <2>1, <2>2 DEF AnswerOf, AnswerProvidesContextualCoverage
  <2>4. Applies(a.row.of)
    BY <1>1, <2>2, <2>3, ComparedApplies
  <2> QED BY <2>1, <2>4
<1>6. CoverageApplies(result)
  <2>1. \A part \in Parts : \A a \in result.parts[part].covered : Applies(a.row.of)
    BY <1>2, <1>5
  <2>2. ASSUME result.status = "complete", NEW part \in Parts
        PROVE  \E a \in ToSet(result.parts[part].answers) : Applies(a.row.of)
    <3>1. PICK a \in parts[part].covered : TRUE
      BY <1>2, <2>2
    <3> QED BY <1>2, <1>5, <3>1
  <2> QED BY <2>1, <2>2 DEF CoverageApplies
<1> QED BY <1>1, <1>4, <1>6 DEF AllApplies

LEMMA SearchInvHolds == ASSUME SearchAssumption PROVE SearchSpec => []SearchInv
<1>1. SearchInit => SearchInv
  BY FS_EmptySet DEF SearchInit, SearchInv
<1>2. SearchInv /\ [SearchNext]_searchVars => SearchInv'
  <2> SUFFICES ASSUME SearchInv, [SearchNext]_searchVars PROVE SearchInv'
    OBVIOUS
  <2>1. ASSUME NEW c \in Candidates, IndexPublishedKnowledge(c) PROVE SearchInv'
    <3>1. IsFiniteSet(knowledge \cup {Indexed(c)})
      <4> DEFINE row == Indexed(c)
      <4>1. IsFiniteSet(knowledge)
        BY DEF SearchInv
      <4> HIDE DEF row
      <4>2. IsFiniteSet(knowledge \cup {row})
        BY <4>1, FS_AddElement
      <4> QED BY <4>2 DEF row
    <3> QED BY <2>1, <3>1 DEF IndexPublishedKnowledge, SearchInv, IndexRows
  <2>2. ASSUME NEW left \in knowledge, NEW right \in knowledge, OpenConflict(left, right)
        PROVE  SearchInv'
    BY <2>2 DEF OpenConflict, SearchInv
  <2>3. ASSUME NEW x \in Exclusions, Exclude(x) PROVE SearchInv'
    BY <2>3 DEF Exclude, SearchInv
  <2>4. CASE UNCHANGED searchVars
    BY <2>4 DEF searchVars, SearchInv
  <2> QED BY <2>1, <2>2, <2>3, <2>4 DEF SearchNext
<1> QED BY <1>1, <1>2, PTL DEF SearchSpec

\* In every state of the index a dangerous operation is shown without a demand to confirm
\* the platform only for the request's own platform and a match of its versions, and a
\* question is answered "complete" only when each part has an answer that applies by what
\* its candidate says (applicability.ts, context.ts, knowledge.ts, demand-intelligence.ts).
THEOREM AnswersDoApply == ASSUME SearchAssumption PROVE SearchSpec => []AnswersApply
<1>1. SearchInv => AnswersApply
  BY ResultOf DEF AnswersApply
<1> QED BY <1>1, SearchInvHolds, PTL

-----------------------------------------------------------------------------
(* The extraction of evidence.  The bytes of a text, the joining of pieces  *)
(* and the segmentation are functions from each step to the next: that each *)
(* exists is proved once, and what holds of it step by step.                *)

\* A set of steps that holds the first and with every step the next holds all.
LEMMA StepByStep ==
  ASSUME NEW N \in Nat, NEW Good \in SUBSET (0..N), 0 \in Good,
         \A n \in 1..N : n - 1 \in Good => n \in Good
  PROVE  Good = 0..N
<1> SUFFICES ASSUME Good # 0..N PROVE FALSE
  OBVIOUS
<1> DEFINE Bad == (0..N) \ Good
           m == Min(Bad)
<1>1. m \in Bad /\ \A y \in Bad : m <= y
  <2>1. Bad \in SUBSET (0..N) /\ Bad # {}
    OBVIOUS
  <2> HIDE DEF Bad
  <2> QED BY <2>1, LeastExists
<1> HIDE DEF m
<1>2. m \in 1..N
  BY <1>1
<1>3. m - 1 \in 0..N /\ m - 1 \notin Bad
  BY <1>1, <1>2
<1> QED BY <1>1, <1>2, <1>3

\* The values from each step to the next.
Walks(f, N, start, step) ==
    f[0] = start /\ \A n \in 1..N : f[n] = step[<<f[n - 1], n>>]

\* A function over the steps may be defined from each step to the next.
LEMMA StepsExist ==
  ASSUME NEW N \in Nat, NEW State, NEW start \in State,
         NEW step \in [State \X (1..N) -> State]
  PROVE  \E f \in [0..N -> State] : Walks(f, N, start, step)
<1> DEFINE Good == {m \in 0..N : \E f \in [0..m -> State] : Walks(f, m, start, step)}
<1>1. 0 \in Good
  <2> DEFINE f == [n \in 0..0 |-> start]
  <2>1. f \in [0..0 -> State] /\ Walks(f, 0, start, step)
    BY DEF Walks
  <2> HIDE DEF f
  <2> QED BY <2>1
<1>2. ASSUME NEW m \in 1..N, m - 1 \in Good PROVE m \in Good
  <2>1. PICK f \in [0..(m - 1) -> State] : Walks(f, m - 1, start, step)
    BY <1>2
  <2> DEFINE g == [n \in 0..m |-> IF n = m THEN step[<<f[m - 1], m>>] ELSE f[n]]
  <2>2. f[m - 1] \in State /\ step[<<f[m - 1], m>>] \in State
    OBVIOUS
  <2>3. g \in [0..m -> State]
    BY <2>2
  <2>4. \A n \in 1..m : g[n] = step[<<g[n - 1], n>>]
    <3> TAKE n \in 1..m
    <3>0. g[n - 1] = f[n - 1]
      OBVIOUS
    <3>1. CASE n = m
      BY <3>0, <3>1 DEF Walks
    <3>2. CASE n # m
      <4>1. g[n] = f[n] /\ n \in 1..(m - 1)
        BY <3>2
      <4> QED BY <2>1, <3>0, <4>1 DEF Walks
    <3> QED BY <3>1, <3>2
  <2>5. g[0] = start
    BY <2>1 DEF Walks
  <2>6. Walks(g, m, start, step)
    BY <2>4, <2>5 DEF Walks
  <2> HIDE DEF g
  <2> QED BY <2>3, <2>6
<1>3. N \in Good
  <2>1. Good \in SUBSET (0..N)
    OBVIOUS
  <2> HIDE DEF Good
  <2>2. Good = 0..N
    BY <1>1, <1>2, <2>1, StepByStep
  <2> QED BY <2>2
<1> QED BY <1>3

LEMMA BytesUpto ==
  ASSUME NEW N \in Nat, NEW sizes \in [1..N -> Nat]
  PROVE  \E f \in [0..N -> Nat] :
            f[0] = 0 /\ \A n \in 1..N : f[n] = f[n - 1] + sizes[n] + 2
<1> DEFINE step == [p \in Nat \X (1..N) |-> p[1] + sizes[p[2]] + 2]
<1>1. step \in [Nat \X (1..N) -> Nat]
  OBVIOUS
<1>2. \A x \in Nat, n \in 1..N : step[<<x, n>>] = x + sizes[n] + 2
  OBVIOUS
<1> HIDE DEF step
<1>3. PICK f \in [0..N -> Nat] : Walks(f, N, 0, step)
  <2>1. 0 \in Nat
    OBVIOUS
  <2> QED BY <1>1, <2>1, StepsExist
<1>4. \A n \in 1..N : f[n] = f[n - 1] + sizes[n] + 2
  <2> TAKE n \in 1..N
  <2>1. f[n - 1] \in Nat
    OBVIOUS
  <2> QED BY <1>2, <1>3, <2>1 DEF Walks
<1> QED BY <1>3, <1>4 DEF Walks

LEMMA BytesIs ==
  ASSUME NEW P, NEW c \in Seq(P), \A p \in P : p.size \in Nat
  PROVE  \E f \in [0..Len(c) -> Nat] :
            /\ Bytes(c) = f[Len(c)] /\ f[0] = 0
            /\ \A n \in 1..Len(c) : f[n] = f[n - 1] + c[n].size + 2
<1> DEFINE N == Len(c)
           sizes == [n \in 1..N |-> c[n].size]
           F(f) == [n \in 0..N |-> IF n = 0 THEN 0 ELSE f[n - 1] + c[n].size + 2]
           upto == CHOOSE f : f = F(f)
<1>1. N \in Nat /\ sizes \in [1..N -> Nat]
  OBVIOUS
<1>2. PICK f \in [0..N -> Nat] : f[0] = 0 /\ \A n \in 1..N : f[n] = f[n - 1] + sizes[n] + 2
  BY <1>1, BytesUpto
<1>5. Bytes(c) = upto[N]
  BY DEF Bytes
<1>3. f = F(f)
  <2>1. \A n \in 0..N : f[n] = IF n = 0 THEN 0 ELSE f[n - 1] + c[n].size + 2
    BY <1>1, <1>2
  <2> HIDE DEF N
  <2> QED BY <2>1
<1>4. upto = F(upto)
  <2> HIDE DEF F
  <2> QED BY <1>3
<1> HIDE DEF upto, N
<1>6. \A n \in 0..N : upto[n] = IF n = 0 THEN 0 ELSE upto[n - 1] + c[n].size + 2
  BY <1>4
<1> DEFINE Good == {n \in 0..N : upto[n] \in Nat}
<1>7. Good = 0..N
  <2>1. Good \in SUBSET (0..N) /\ 0 \in Good
    BY <1>1, <1>6
  <2>2. ASSUME NEW n \in 1..N, n - 1 \in Good PROVE n \in Good
    BY <1>1, <1>6, <2>2 DEF N
  <2> HIDE DEF Good
  <2> QED BY <1>1, <2>1, <2>2, StepByStep
<1>8. upto \in [0..N -> Nat]
  BY <1>4, <1>7
<1>9. upto[0] = 0 /\ \A n \in 1..N : upto[n] = upto[n - 1] + c[n].size + 2
  BY <1>1, <1>6
<1>10. /\ Bytes(c) = upto[Len(c)] /\ upto[0] = 0
       /\ \A n \in 1..Len(c) : upto[n] = upto[n - 1] + c[n].size + 2
       /\ upto \in [0..Len(c) -> Nat]
  BY <1>5, <1>8, <1>9 DEF N
<1> QED BY <1>10

LEMMA BytesOfNone == Bytes(<<>>) = 0
<1> DEFINE none == <<>>
           P == {}
<1>1. none \in Seq(P) /\ Len(none) = 0 /\ \A p \in P : p.size \in Nat
  OBVIOUS
<1> HIDE DEF none, P
<1>2. PICK f \in [0..Len(none) -> Nat] :
        /\ Bytes(none) = f[Len(none)] /\ f[0] = 0
        /\ \A n \in 1..Len(none) : f[n] = f[n - 1] + none[n].size + 2
  BY <1>1, BytesIs
<1> QED BY <1>1, <1>2 DEF none

LEMMA BytesOfMore ==
  ASSUME NEW P, \A p \in P : p.size \in Nat, NEW c \in Seq(P), NEW p \in P
  PROVE  Bytes(c) \in Nat /\ Bytes(Append(c, p)) = Bytes(c) + p.size + 2
<1> DEFINE d == Append(c, p)
           N == Len(c)
<1>1. /\ d \in Seq(P) /\ N \in Nat /\ Len(d) = N + 1 /\ d[N + 1] = p
      /\ \A n \in 1..N : d[n] = c[n]
  OBVIOUS
<1> HIDE DEF d
<1>2. PICK f \in [0..Len(c) -> Nat] :
        /\ Bytes(c) = f[Len(c)] /\ f[0] = 0
        /\ \A n \in 1..Len(c) : f[n] = f[n - 1] + c[n].size + 2
  BY BytesIs
<1>3. PICK g \in [0..Len(d) -> Nat] :
        /\ Bytes(d) = g[Len(d)] /\ g[0] = 0
        /\ \A n \in 1..Len(d) : g[n] = g[n - 1] + d[n].size + 2
  BY <1>1, BytesIs
<1> DEFINE Agreed == {n \in 0..N : f[n] = g[n]}
<1>4. Agreed = 0..N
  <2>1. Agreed \in SUBSET (0..N) /\ 0 \in Agreed
    BY <1>1, <1>2, <1>3
  <2>2. ASSUME NEW n \in 1..N, n - 1 \in Agreed PROVE n \in Agreed
    <3>1. f[n - 1] = g[n - 1] /\ n \in 1..Len(d) /\ d[n] = c[n]
      BY <1>1, <2>2
    <3>2. f[n] = f[n - 1] + c[n].size + 2
      BY <1>2
    <3>3. g[n] = g[n - 1] + d[n].size + 2
      BY <1>3, <3>1
    <3> QED BY <3>1, <3>2, <3>3
  <2> HIDE DEF Agreed
  <2> QED BY <1>1, <2>1, <2>2, StepByStep
<1>5. f[N] = g[N] /\ f[N] \in Nat
  BY <1>1, <1>4
<1>6. g[N + 1] = g[N] + p.size + 2
  <2> DEFINE n == N + 1
  <2>1. n \in 1..Len(d) /\ n - 1 = N /\ d[n] = p
    BY <1>1
  <2> HIDE DEF n
  <2>2. g[n] = g[n - 1] + d[n].size + 2
    BY <1>3, <2>1
  <2> QED BY <2>1, <2>2 DEF n
<1> QED BY <1>1, <1>2, <1>3, <1>5, <1>6 DEF d

\* What is in a sequence is in another.
Within(u, w) == \A j \in DOMAIN u : \E k \in DOMAIN w : w[k] = u[j]

LEMMA WithinBoth ==
  ASSUME NEW P, NEW w \in Seq(P), NEW v \in Seq(P)
  PROVE  w \o v \in Seq(P) /\ Within(w, w \o v) /\ Within(v, w \o v)
<1>1. /\ w \o v \in Seq(P) /\ DOMAIN (w \o v) = 1..(Len(w) + Len(v))
      /\ Len(w) \in Nat /\ Len(v) \in Nat
      /\ DOMAIN w = 1..Len(w) /\ DOMAIN v = 1..Len(v)
      /\ \A j \in 1..Len(w) : (w \o v)[j] = w[j]
      /\ \A j \in 1..Len(v) : (w \o v)[Len(w) + j] = v[j]
  OBVIOUS
<1> DEFINE x == w \o v
<1> HIDE DEF x
<1>2. \A j \in DOMAIN w : j \in DOMAIN x /\ x[j] = w[j]
  BY <1>1 DEF x
<1>3. \A j \in DOMAIN v : Len(w) + j \in DOMAIN x /\ x[Len(w) + j] = v[j]
  BY <1>1 DEF x
<1> QED BY <1>1, <1>2, <1>3 DEF Within, x

Holds(w, seqs, n) == \A i \in 1..n : Within(seqs[i], w)

LEMMA FlattenOf ==
  ASSUME NEW P, NEW seqs \in Seq(Seq(P))
  PROVE  /\ FlattenSeq(seqs) \in Seq(P)
         /\ \A i \in DOMAIN seqs : Within(seqs[i], FlattenSeq(seqs))
<1>0. Len(seqs) \in Nat /\ DOMAIN seqs = 1..Len(seqs)
  OBVIOUS
<1>1. CASE Len(seqs) = 0
  <2>1. FlattenSeq(seqs) = seqs /\ DOMAIN seqs = {} /\ seqs = <<>>
    BY <1>0, <1>1 DEF FlattenSeq
  <2> QED BY <2>1
<1>2. CASE Len(seqs) # 0
  <2> DEFINE N == Len(seqs)
             F(f) == [i \in 1..N |-> IF i = 1 THEN seqs[i] ELSE f[i - 1] \o seqs[i]]
             flatten == CHOOSE f : f = F(f)
             step == [p \in Seq(P) \X (1..N) |->
                        IF p[2] = 1 THEN seqs[1] ELSE p[1] \o seqs[p[2]]]
  <2>1. FlattenSeq(seqs) = flatten[N]
    BY <1>2 DEF FlattenSeq
  <2>2. N \in Nat /\ N # 0 /\ \A i \in 1..N : seqs[i] \in Seq(P)
    BY <1>0, <1>2
  <2>3. step \in [Seq(P) \X (1..N) -> Seq(P)]
    BY <2>2
  <2>4. \A w \in Seq(P), n \in 1..N : step[<<w, n>>] = IF n = 1 THEN seqs[1] ELSE w \o seqs[n]
    OBVIOUS
  <2> HIDE DEF step
  <2>5. PICK f \in [0..N -> Seq(P)] : Walks(f, N, <<>>, step)
    <3>1. <<>> \in Seq(P)
      OBVIOUS
    <3> HIDE DEF N
    <3> QED BY <2>2, <2>3, <3>1, StepsExist
  <2> DEFINE g == [i \in 1..N |-> f[i]]
  <2>6. g = F(g)
    <3>1. \A i \in 1..N : f[i] = IF i = 1 THEN seqs[i] ELSE g[i - 1] \o seqs[i]
      <4> TAKE i \in 1..N
      <4>1. f[i - 1] \in Seq(P) /\ f[i] = step[<<f[i - 1], i>>]
        <5> HIDE DEF N
        <5>1. i - 1 \in 0..N
          BY <2>2
        <5> QED BY <2>5, <5>1 DEF Walks
      <4>2. f[i] = IF i = 1 THEN seqs[1] ELSE f[i - 1] \o seqs[i]
        BY <2>4, <4>1
      <4>3. i # 1 => g[i - 1] = f[i - 1]
        BY <2>2
      <4> QED BY <4>2, <4>3
    <3> QED BY <3>1
  <2>7. flatten = F(flatten)
    <3> HIDE DEF F, g
    <3> QED BY <2>6
  <2> HIDE DEF flatten, N
  <2>8. \A n \in 1..N : flatten[n] = IF n = 1 THEN seqs[n] ELSE flatten[n - 1] \o seqs[n]
    BY <2>7
  <2> DEFINE Good == {n \in 0..N :
                       n = 0 \/ (flatten[n] \in Seq(P) /\ Holds(flatten[n], seqs, n))}
  <2>9. ASSUME NEW n \in 1..N, n - 1 \in Good PROVE n \in Good
    <3>1. seqs[n] \in Seq(P) /\ Within(seqs[n], seqs[n])
      BY <2>2 DEF Within
    <3>2. CASE n = 1
      <4>1. flatten[n] = seqs[n] /\ \A i \in 1..n : i = n
        BY <2>8, <3>2
      <4>2. flatten[n] \in Seq(P) /\ \A i \in 1..n : Within(seqs[i], flatten[n])
        BY <3>1, <4>1
      <4> QED BY <4>2 DEF Holds
    <3>3. CASE n # 1
      <4>1. /\ flatten[n] = flatten[n - 1] \o seqs[n] /\ flatten[n - 1] \in Seq(P)
            /\ Holds(flatten[n - 1], seqs, n - 1)
        <5>1. n - 1 # 0
          BY <2>2, <3>3
        <5>2. flatten[n] = flatten[n - 1] \o seqs[n]
          BY <2>8, <3>3
        <5> DEFINE k == n - 1
        <5>3. k \in Good /\ k # 0
          BY <2>9, <5>1
        <5> HIDE DEF k
        <5>4. flatten[k] \in Seq(P) /\ Holds(flatten[k], seqs, k)
          BY <5>3
        <5> QED BY <5>2, <5>4 DEF k
      <4>2. /\ flatten[n] \in Seq(P) /\ Within(flatten[n - 1], flatten[n])
            /\ Within(seqs[n], flatten[n])
        BY <3>1, <4>1, WithinBoth
      <4>3. ASSUME NEW i \in 1..n PROVE Within(seqs[i], flatten[n])
        <5>1. CASE i = n
          BY <4>2, <5>1
        <5>2. CASE i # n
          <6>1. Within(seqs[i], flatten[n - 1])
            BY <2>2, <4>1, <5>2 DEF Holds
          <6> QED BY <4>2, <6>1 DEF Within
        <5> QED BY <5>1, <5>2
      <4> QED BY <2>2, <4>2, <4>3 DEF Holds
    <3> QED BY <3>2, <3>3
  <2>10. Good = 0..N
    <3>1. Good \in SUBSET (0..N) /\ 0 \in Good
      BY <2>2
    <3> HIDE DEF Good
    <3> QED BY <2>2, <2>9, <3>1, StepByStep
  <2>11. flatten[N] \in Seq(P) /\ Holds(flatten[N], seqs, N)
    <3>1. N \in 0..N /\ N # 0
      BY <2>2
    <3>2. N \in Good
      <4> HIDE DEF Good
      <4> QED BY <2>10, <3>1
    <3> QED BY <3>1, <3>2
  <2> QED BY <1>0, <2>1, <2>11 DEF N, Holds
<1> QED BY <1>1, <1>2

\* The pieces of a block are none too large.
LEMMA SplitOf ==
  ASSUME MaxBytes \in Nat \ {0}, NEW b, b.size \in Nat \ {0}
  PROVE  /\ SplitOversizedText(b) \in Seq(ToSet(SplitOversizedText(b)))
         /\ \A p \in ToSet(SplitOversizedText(b)) :
               p.kind = b.kind /\ p.size \in Nat /\ p.size <= MaxBytes
<1> DEFINE n == (b.size + MaxBytes - 1) \div MaxBytes
           size(i) == IF i < n THEN MaxBytes ELSE b.size - (n - 1) * MaxBytes
           s == [i \in 1..n |-> [kind |-> b.kind, text |-> <<b.text, i>>, size |-> size(i)]]
<1>1. n \in Nat \ {0} /\ (n - 1) * MaxBytes < b.size /\ b.size <= n * MaxBytes
  <2> DEFINE x == b.size
             m == MaxBytes
  <2>1. x \in Nat \ {0} /\ m \in Nat \ {0} /\ n = (x + m - 1) \div m
    OBVIOUS
  <2> HIDE DEF x, m, n
  <2>2. n \in Nat \ {0} /\ (n - 1) * m < x /\ x <= n * m
    BY <2>1
  <2> QED BY <2>2 DEF x, m
<1>2. SplitOversizedText(b) = s
  BY DEF SplitOversizedText
<1> HIDE DEF n
<1>3. \A i \in 1..n : size(i) \in Nat /\ size(i) <= MaxBytes
  <2> DEFINE rest == (n - 1) * MaxBytes
  <2>1. n * MaxBytes = rest + MaxBytes /\ rest \in Nat
    BY <1>1
  <2> HIDE DEF rest
  <2>2. b.size - rest \in Nat /\ b.size - rest <= MaxBytes
    BY <1>1, <2>1 DEF rest
  <2> QED BY <2>2 DEF rest
<1> HIDE DEF size
<1>4. \A i \in 1..n : s[i].kind = b.kind /\ s[i].size = size(i)
  OBVIOUS
<1>5. s \in Seq(ToSet(s)) /\ DOMAIN s = 1..n
  BY <1>1 DEF ToSet
<1> HIDE DEF s
<1>6. \A p \in ToSet(s) : p.kind = b.kind /\ p.size \in Nat /\ p.size <= MaxBytes
  BY <1>3, <1>4, <1>5 DEF ToSet
<1> QED BY <1>2, <1>5, <1>6

\* A segmentation of pieces.
Titles(P) == {NotGiven} \cup {p.text : p \in P}
Chunks(P) == [title : Titles(P), content : Seq(P)]
Segmentations(P) == [title : Titles(P), current : Seq(P), fragments : Seq(Chunks(P))]

Sized(P) == \A p \in P : p.size \in Nat /\ p.size <= MaxBytes

\* No part of it is too large, and a piece is in it.
SmallEnough(c) ==
    /\ c.current # <<>> => Bytes(c.current) - 2 <= MaxBytes
    /\ \A i \in DOMAIN c.fragments : Bytes(c.fragments[i].content) - 2 <= MaxBytes

InFragment(c, p) == \E i \in DOMAIN c.fragments : p \in ToSet(c.fragments[i].content)

LEMMA FlushedOf ==
  ASSUME NEW P, NEW c \in Segmentations(P)
  PROVE  /\ Flushed(c) \in Segmentations(P) /\ Flushed(c).current = <<>>
         /\ SmallEnough(c) => SmallEnough(Flushed(c))
         /\ \A p : p \in ToSet(c.current) \/ InFragment(c, p) => InFragment(Flushed(c), p)
<1> DEFINE seen == \E i \in DOMAIN c.fragments : c.fragments[i].content = c.current
           kept == c.current = <<>> \/ seen
           new == [title |-> c.title, content |-> c.current]
           g == IF kept THEN c.fragments ELSE Append(c.fragments, new)
           d == Flushed(c)
<1>1. /\ c.title \in Titles(P) /\ c.current \in Seq(P) /\ c.fragments \in Seq(Chunks(P))
      /\ c = [title |-> c.title, current |-> c.current, fragments |-> c.fragments]
  BY DEF Segmentations
<1>2. new \in Chunks(P) /\ new.content = c.current
  BY <1>1 DEF Chunks
<1>3. d = [c EXCEPT !.current = <<>>, !.fragments = g]
  BY DEF Flushed
<1> HIDE DEF d, seen
<1>4. g \in Seq(Chunks(P))
  BY <1>1, <1>2
<1>5. /\ ~kept => /\ DOMAIN g = 1..(Len(c.fragments) + 1) /\ g[Len(c.fragments) + 1] = new
                  /\ \A i \in DOMAIN c.fragments : g[i] = c.fragments[i]
      /\ DOMAIN c.fragments = 1..Len(c.fragments) /\ Len(c.fragments) \in Nat
  BY <1>1, <1>2
<1>6. kept => g = c.fragments
  OBVIOUS
<1> HIDE DEF g, new, kept
<1>7. d = [title |-> c.title, current |-> <<>>, fragments |-> g]
  BY <1>1, <1>3
<1>8. d \in Segmentations(P) /\ d.current = <<>> /\ d.fragments = g
  BY <1>1, <1>4, <1>7 DEF Segmentations
<1>9. SmallEnough(c) => SmallEnough(d)
  <2> SUFFICES ASSUME SmallEnough(c) PROVE SmallEnough(d)
    OBVIOUS
  <2>1. CASE kept
    BY <1>6, <1>8, <2>1 DEF SmallEnough
  <2>2. CASE ~kept
    <3>1. \A i \in DOMAIN g : Bytes(g[i].content) - 2 <= MaxBytes
      <4> TAKE i \in DOMAIN g
      <4>1. CASE i \in DOMAIN c.fragments
        BY <1>5, <2>2, <4>1 DEF SmallEnough
      <4>2. CASE i \notin DOMAIN c.fragments
        <5>1. g[i] = new
          BY <1>5, <2>2, <4>2
        <5>2. c.current # <<>>
          BY <2>2 DEF kept
        <5> QED BY <1>2, <5>1, <5>2 DEF SmallEnough
      <4> QED BY <4>1, <4>2
    <3> QED BY <1>8, <3>1 DEF SmallEnough
  <2> QED BY <2>1, <2>2
<1>10. ASSUME NEW p, p \in ToSet(c.current) \/ InFragment(c, p) PROVE InFragment(d, p)
  <2>1. CASE InFragment(c, p)
    <3>1. PICK i \in DOMAIN c.fragments : p \in ToSet(c.fragments[i].content)
      BY <2>1 DEF InFragment
    <3>2. i \in DOMAIN g /\ g[i] = c.fragments[i]
      BY <1>5, <1>6
    <3> QED BY <1>8, <3>1, <3>2 DEF InFragment
  <2>2. CASE p \in ToSet(c.current)
    <3>1. CASE kept
      <4>1. c.current # <<>>
        <5>1. c.current = <<>> => DOMAIN c.current = {}
          OBVIOUS
        <5> QED BY <2>2, <5>1 DEF ToSet
      <4>2. PICK i \in DOMAIN c.fragments : c.fragments[i].content = c.current
        BY <3>1, <4>1 DEF kept, seen
      <4> QED BY <1>6, <1>8, <2>2, <3>1, <4>2 DEF InFragment
    <3>2. CASE ~kept
      <4>1. Len(c.fragments) + 1 \in DOMAIN g /\ g[Len(c.fragments) + 1].content = c.current
        BY <1>2, <1>5, <3>2
      <4> QED BY <1>8, <2>2, <4>1 DEF InFragment
    <3> QED BY <3>1, <3>2
  <2> QED BY <1>10, <2>1, <2>2
<1> QED BY <1>8, <1>9, <1>10 DEF d

LEMMA WithPieceOf ==
  ASSUME MaxBytes \in Nat, NEW P, Sized(P), NEW c \in Segmentations(P), NEW p \in P
  PROVE  /\ WithPiece(c, p) \in Segmentations(P)
         /\ SmallEnough(c) => SmallEnough(WithPiece(c, p))
         /\ \A q : q \in ToSet(c.current) \/ InFragment(c, q)
                     => \/ q \in ToSet(WithPiece(c, p).current)
                        \/ InFragment(WithPiece(c, p), q)
         /\ p.kind # "heading" => p \in ToSet(WithPiece(c, p).current)
<1> DEFINE full == c.current # <<>> /\ Bytes(c.current) + p.size + 2 > MaxBytes
           opened == IF full THEN Flushed(c) ELSE c
           w == WithPiece(c, p)
           f == Flushed(c)
<1>1. /\ f \in Segmentations(P) /\ f.current = <<>>
      /\ SmallEnough(c) => SmallEnough(f)
      /\ \A q : q \in ToSet(c.current) \/ InFragment(c, q) => InFragment(f, q)
  BY FlushedOf
<1>2. p.size \in Nat /\ p.size <= MaxBytes /\ \A q \in P : q.size \in Nat
  BY DEF Sized
<1> HIDE DEF f
<1>3. CASE p.kind = "heading"
  <2>1. w = [f EXCEPT !.title = p.text]
    BY <1>3 DEF WithPiece, f
  <2>2. f = [title |-> f.title, current |-> f.current, fragments |-> f.fragments]
        /\ f.current \in Seq(P) /\ f.fragments \in Seq(Chunks(P))
    BY <1>1 DEF Segmentations
  <2>3. w = [title |-> p.text, current |-> f.current, fragments |-> f.fragments]
    BY <2>1, <2>2
  <2> HIDE DEF w
  <2>4. w \in Segmentations(P) /\ w.current = f.current /\ w.fragments = f.fragments
    BY <2>2, <2>3 DEF Segmentations, Titles
  <2>5. SmallEnough(c) => SmallEnough(w)
    BY <1>1, <2>4 DEF SmallEnough
  <2>6. \A q : q \in ToSet(c.current) \/ InFragment(c, q) => InFragment(w, q)
    BY <1>1, <2>4 DEF InFragment
  <2> QED BY <1>3, <2>4, <2>5, <2>6 DEF w
<1>4. CASE p.kind # "heading"
  <2>1. w = [opened EXCEPT !.current = Append(opened.current, p)]
    BY <1>4 DEF WithPiece, f
  <2>2. /\ opened \in Segmentations(P)
        /\ SmallEnough(c) => SmallEnough(opened)
        /\ \A q : q \in ToSet(c.current) \/ InFragment(c, q)
                    => q \in ToSet(opened.current) \/ InFragment(opened, q)
    <3>1. CASE full
      BY <1>1, <3>1 DEF f
    <3>2. CASE ~full
      BY <3>2
    <3> QED BY <3>1, <3>2
  <2>3. opened.current = <<>> \/ Bytes(opened.current) + p.size + 2 <= MaxBytes
    <3>1. CASE full
      BY <1>1, <3>1 DEF f
    <3>2. CASE ~full
      <4>1. opened = c
        BY <3>2
      <4>2. CASE c.current = <<>>
        BY <4>1, <4>2
      <4>3. CASE c.current # <<>>
        <5>1. c.current \in Seq(P)
          BY DEF Segmentations
        <5>2. Bytes(c.current) \in Nat
          BY <1>2, <5>1, BytesOfMore
        <5>3. ~(Bytes(c.current) + p.size + 2 > MaxBytes)
          BY <3>2, <4>3
        <5> QED BY <1>2, <4>1, <5>2, <5>3
      <4> QED BY <4>2, <4>3
    <3> QED BY <3>1, <3>2
  <2> HIDE DEF opened, full
  <2> DEFINE more == Append(opened.current, p)
  <2>4. /\ opened.current \in Seq(P) /\ opened.fragments \in Seq(Chunks(P))
        /\ opened.title \in Titles(P)
        /\ opened = [title |-> opened.title, current |-> opened.current,
                   fragments |-> opened.fragments]
    BY <2>2 DEF Segmentations
  <2>5. /\ more \in Seq(P) /\ DOMAIN more = 1..(Len(opened.current) + 1)
        /\ more[Len(opened.current) + 1] = p /\ Len(opened.current) \in Nat
        /\ \A i \in DOMAIN opened.current : i \in DOMAIN more /\ more[i] = opened.current[i]
    BY <2>4
  <2>6. Bytes(more) - 2 <= MaxBytes
    <3>1. Bytes(opened.current) \in Nat /\ Bytes(more) = Bytes(opened.current) + p.size + 2
      BY <1>2, <2>4, BytesOfMore
    <3>2. CASE opened.current = <<>>
      BY <1>2, <3>1, <3>2, BytesOfNone
    <3>3. CASE opened.current # <<>>
      BY <1>2, <2>3, <3>1, <3>3
    <3> QED BY <3>2, <3>3
  <2> HIDE DEF more
  <2>7. w = [title |-> opened.title, current |-> more, fragments |-> opened.fragments]
    BY <2>1, <2>4 DEF more
  <2> HIDE DEF w
  <2>8. w \in Segmentations(P) /\ w.current = more /\ w.fragments = opened.fragments
    BY <2>4, <2>5, <2>7 DEF Segmentations
  <2>9. SmallEnough(c) => SmallEnough(w)
    BY <2>2, <2>6, <2>8 DEF SmallEnough
  <2>10. ASSUME NEW q, q \in ToSet(c.current) \/ InFragment(c, q)
         PROVE  q \in ToSet(w.current) \/ InFragment(w, q)
    <3>1. CASE q \in ToSet(opened.current)
      BY <2>5, <2>8, <3>1 DEF ToSet
    <3>2. CASE InFragment(opened, q)
      BY <2>8, <3>2 DEF InFragment
    <3> QED BY <2>2, <2>10, <3>1, <3>2
  <2>11. p \in ToSet(w.current)
    BY <2>5, <2>8 DEF ToSet
  <2> QED BY <2>8, <2>9, <2>10, <2>11 DEF w
<1> QED BY <1>3, <1>4

\* The fragments hold the pieces of the text, and none is too large.
Chunked(t, f) ==
    /\ \A b \in ToSet(t) : b.kind # "heading" =>
         \A p \in ToSet(SplitOversizedText(b)) :
            \E i \in DOMAIN f : p \in ToSet(f[i].content)
    /\ \A i \in DOMAIN f : Bytes(f[i].content) - 2 <= MaxBytes

\* What is made of a text holds its pieces, and none of it is too large.
LEMMA ChunksOf ==
  ASSUME ExtractionAssumption, NEW t \in Texts
  PROVE  /\ \E n \in Nat : DOMAIN ChunkSourceText(t) = 1..n
         /\ Chunked(t, ChunkSourceText(t))
<1> DEFINE seqs == [i \in DOMAIN t |-> SplitOversizedText(t[i])]
           P == UNION {ToSet(SplitOversizedText(b)) : b \in ToSet(t)}
           pieces == FlattenSeq(seqs)
           N == Len(pieces)
           start == [title |-> NotGiven, current |-> <<>>, fragments |-> <<>>]
           F(f) == [n \in 0..N |-> IF n = 0 THEN start ELSE WithPiece(f[n - 1], pieces[n])]
           after == CHOOSE f : f = F(f)
           chunks == ChunkSourceText(t)
<1>1. /\ MaxBytes \in Nat \ {0} /\ t \in Seq(ToSet(t))
      /\ \A b \in ToSet(t) : b.size \in Nat \ {0}
  BY DEF ExtractionAssumption
<1>2. \A b \in ToSet(t) :
         /\ SplitOversizedText(b) \in Seq(ToSet(SplitOversizedText(b)))
         /\ \A p \in ToSet(SplitOversizedText(b)) :
               p.kind = b.kind /\ p.size \in Nat /\ p.size <= MaxBytes
  BY <1>1, SplitOf
<1>3. Sized(P)
  BY <1>2 DEF Sized
<1>4. DOMAIN t = 1..Len(t) /\ Len(t) \in Nat /\ \A i \in DOMAIN t : t[i] \in ToSet(t)
  BY <1>1 DEF ToSet
<1>5. \A b \in ToSet(t) : SplitOversizedText(b) \in Seq(P)
  <2> TAKE b \in ToSet(t)
  <2> DEFINE s == SplitOversizedText(b)
  <2>1. s \in Seq(ToSet(s)) /\ ToSet(s) \subseteq P
    BY <1>2
  <2> HIDE DEF s, P
  <2>2. s \in Seq(P)
    BY <2>1
  <2> QED BY <2>2 DEF s
<1> HIDE DEF P
<1>6. seqs \in Seq(Seq(P))
  BY <1>4, <1>5
<1>7. /\ DOMAIN seqs = DOMAIN t /\ \A i \in DOMAIN t : seqs[i] = SplitOversizedText(t[i])
  OBVIOUS
<1>8. chunks = Flushed(after[N]).fragments
  BY DEF ChunkSourceText
<1> HIDE DEF seqs, chunks
<1>9. /\ pieces \in Seq(P) /\ N \in Nat /\ DOMAIN pieces = 1..N
      /\ \A i \in DOMAIN t : Within(seqs[i], pieces)
  BY <1>6, <1>7, FlattenOf
<1> HIDE DEF pieces, N
<1>10. start \in Segmentations(P)
  BY DEF Segmentations, Titles
<1>11. start.current = <<>> /\ start.fragments = <<>>
  OBVIOUS
<1> HIDE DEF start
<1> DEFINE step == [x \in Segmentations(P) \X (1..N) |-> WithPiece(x[1], pieces[x[2]])]
<1>12. \A n \in 1..N, c \in Segmentations(P) : WithPiece(c, pieces[n]) \in Segmentations(P)
  BY <1>1, <1>3, <1>9, WithPieceOf
<1>13. step \in [Segmentations(P) \X (1..N) -> Segmentations(P)]
  BY <1>12
<1>14. \A c \in Segmentations(P), n \in 1..N : step[<<c, n>>] = WithPiece(c, pieces[n])
  OBVIOUS
<1> HIDE DEF step
<1>15. PICK f \in [0..N -> Segmentations(P)] : Walks(f, N, start, step)
  BY <1>9, <1>10, <1>13, StepsExist
<1>16. f = F(f)
  <2>1. \A n \in 0..N : f[n] = IF n = 0 THEN start ELSE WithPiece(f[n - 1], pieces[n])
    <3> TAKE n \in 0..N
    <3>1. CASE n = 0
      BY <1>15, <3>1 DEF Walks
    <3>2. CASE n # 0
      <4>1. n \in 1..N /\ f[n - 1] \in Segmentations(P)
        BY <1>9, <3>2
      <4>2. f[n] = step[<<f[n - 1], n>>]
        BY <1>15, <4>1 DEF Walks
      <4> QED BY <1>14, <3>2, <4>1, <4>2
    <3> QED BY <3>1, <3>2
  <2> QED BY <2>1
<1>17. after = F(after)
  <2> HIDE DEF F
  <2> QED BY <1>16
<1> HIDE DEF after
<1>18. after[0] = start /\ \A n \in 1..N : after[n] = WithPiece(after[n - 1], pieces[n])
  BY <1>9, <1>17
<1> HIDE DEF F
\* After some pieces, all but the headings among them are held.
<1> DEFINE Held(n) == \A k \in 1..n : pieces[k].kind # "heading" =>
                         \/ pieces[k] \in ToSet(after[n].current)
                         \/ InFragment(after[n], pieces[k])
           Good == {n \in 0..N : /\ after[n] \in Segmentations(P)
                                 /\ SmallEnough(after[n]) /\ Held(n)}
<1>19. 0 \in Good
  <2>1. SmallEnough(start)
    <3>1. DOMAIN start.fragments = {}
      BY <1>11
    <3> QED BY <1>11, <3>1 DEF SmallEnough
  <2> QED BY <1>9, <1>10, <1>18, <2>1
<1>20. ASSUME NEW n \in 1..N, n - 1 \in Good PROVE n \in Good
  <2> DEFINE c == after[n - 1]
             p == pieces[n]
  <2>1. c \in Segmentations(P) /\ SmallEnough(c) /\ Held(n - 1)
    BY <1>20
  <2>2. p \in P /\ after[n] = WithPiece(c, p)
    BY <1>9, <1>18
  <2> HIDE DEF c, p
  <2>3. /\ after[n] \in Segmentations(P) /\ SmallEnough(after[n])
        /\ \A q : q \in ToSet(c.current) \/ InFragment(c, q)
                    => q \in ToSet(after[n].current) \/ InFragment(after[n], q)
        /\ p.kind # "heading" => p \in ToSet(after[n].current)
    BY <1>1, <1>3, <2>1, <2>2, WithPieceOf
  <2>4. Held(n)
    <3> SUFFICES ASSUME NEW k \in 1..n, pieces[k].kind # "heading"
                 PROVE  \/ pieces[k] \in ToSet(after[n].current)
                        \/ InFragment(after[n], pieces[k])
      OBVIOUS
    <3>1. CASE k = n
      BY <2>3, <3>1 DEF p
    <3>2. CASE k # n
      <4>1. k \in 1..(n - 1)
        BY <1>9, <3>2
      <4>2. pieces[k] \in ToSet(c.current) \/ InFragment(c, pieces[k])
        BY <2>1, <4>1 DEF c
      <4> QED BY <2>3, <4>2
    <3> QED BY <3>1, <3>2
  <2> QED BY <2>3, <2>4
<1>21. N \in Good
  <2>1. Good \in SUBSET (0..N)
    OBVIOUS
  <2> HIDE DEF Good
  <2>2. Good = 0..N
    BY <1>9, <1>19, <1>20, <2>1, StepByStep
  <2> QED BY <1>9, <2>2
<1>22. after[N] \in Segmentations(P) /\ SmallEnough(after[N]) /\ Held(N)
  BY <1>21
<1>23. /\ Flushed(after[N]) \in Segmentations(P) /\ SmallEnough(Flushed(after[N]))
       /\ \A q : q \in ToSet(after[N].current) \/ InFragment(after[N], q)
                   => InFragment(Flushed(after[N]), q)
  BY <1>22, FlushedOf
<1>24. chunks \in Seq(Chunks(P)) /\ \A i \in DOMAIN chunks : Bytes(chunks[i].content) - 2 <= MaxBytes
  BY <1>8, <1>23 DEF Segmentations, SmallEnough
<1>25. ASSUME NEW b \in ToSet(t), b.kind # "heading", NEW p \in ToSet(SplitOversizedText(b))
       PROVE  \E i \in DOMAIN chunks : p \in ToSet(chunks[i].content)
  <2>1. PICK i \in DOMAIN t : t[i] = b
    BY DEF ToSet
  <2>2. PICK j \in DOMAIN seqs[i] : seqs[i][j] = p
    BY <1>7, <2>1 DEF ToSet
  <2>3. PICK k \in DOMAIN pieces : pieces[k] = p
    BY <1>9, <2>2 DEF Within
  <2>4. p.kind # "heading"
    BY <1>2, <1>25
  <2>5. p \in ToSet(after[N].current) \/ InFragment(after[N], p)
    BY <1>9, <1>22, <2>3, <2>4
  <2>6. InFragment(Flushed(after[N]), p)
    BY <1>23, <2>5
  <2> QED BY <1>8, <2>6 DEF InFragment
<1>26. Chunked(t, chunks)
  BY <1>24, <1>25 DEF Chunked
<1>27. \E n \in Nat : DOMAIN chunks = 1..n
  BY <1>24
<1> QED BY <1>26, <1>27 DEF chunks

-----------------------------------------------------------------------------
(* A record carries the text of its fragment and the risk of its lines from *)
(* the moment it is written.                                                *)

\* A subsequence leaves out nothing of its places.
LEMMA SubsequenceHas ==
  ASSUME NEW S, NEW s \in Seq(S), NEW places \in SUBSET DOMAIN s, NEW i \in places
  PROVE  \E n \in DOMAIN Subsequence(s, places) : Subsequence(s, places)[n] = s[i]
<1> DEFINE Upto(k) == places \cap (1..k)
           n == Cardinality(Upto(i))
<1>1. DOMAIN s = 1..Len(s) /\ Len(s) \in Nat
  OBVIOUS
<1>2. IsFiniteSet(places) /\ Cardinality(places) \in Nat
  <2>1. IsFiniteSet(1..Len(s)) /\ places \in SUBSET (1..Len(s))
    BY <1>1, FS_Interval
  <2>2. IsFiniteSet(places)
    BY <2>1, FS_Subset
  <2> QED BY <2>2, FS_CardinalityType
<1>3. ASSUME NEW k PROVE IsFiniteSet(Upto(k)) /\ Cardinality(Upto(k)) \in Nat
                         /\ Cardinality(Upto(k)) <= Cardinality(places)
  <2>1. Upto(k) \in SUBSET places
    OBVIOUS
  <2> HIDE DEF Upto
  <2>2. IsFiniteSet(Upto(k)) /\ Cardinality(Upto(k)) <= Cardinality(places)
    BY <1>2, <2>1, FS_Subset
  <2> QED BY <2>2, FS_CardinalityType
<1>4. ASSUME NEW j \in places, NEW k \in places, j < k
      PROVE  Cardinality(Upto(j)) # Cardinality(Upto(k))
  <2>1. Upto(j) \in SUBSET Upto(k) /\ k \in Upto(k) /\ k \notin Upto(j)
    BY <1>1, <1>4
  <2> HIDE DEF Upto
  <2>2. Upto(j) # Upto(k)
    BY <2>1
  <2> QED BY <1>3, <2>1, <2>2, FS_Subset
<1>5. n \in 1..Cardinality(places)
  <2>1. i \in Upto(i)
    BY <1>1
  <2> HIDE DEF Upto
  <2>2. Upto(i) # {}
    BY <2>1
  <2>3. Cardinality(Upto(i)) # 0
    BY <1>3, <2>2, FS_EmptySet
  <2> QED BY <1>2, <1>3, <2>3
<1> DEFINE Place(m) == CHOOSE j \in places : Cardinality(Upto(j)) = m
<1>6. Place(n) \in places /\ Cardinality(Upto(Place(n))) = n
  OBVIOUS
<1>7. Place(n) = i
  <2> HIDE DEF Place, n
  <2>1. Place(n) \in Int /\ i \in Int
    BY <1>1, <1>6
  <2>2. Cardinality(Upto(Place(n))) = Cardinality(Upto(i))
    BY <1>6 DEF n
  <2> HIDE DEF Upto
  <2>3. ~(Place(n) < i)
    BY <1>4, <1>6, <2>2
  <2>4. ~(i < Place(n))
    BY <1>4, <1>6, <2>2
  <2> QED BY <2>1, <2>3, <2>4
<1>8. Subsequence(s, places) = [m \in 1..Cardinality(places) |-> s[Place(m)]]
  BY DEF Subsequence
<1> HIDE DEF Place, n
<1> QED BY <1>5, <1>7, <1>8

LEMMA OrdinalsOf ==
  ASSUME NEW n \in Nat, NEW s, DOMAIN s = 1..n, NEW places \in SUBSET DOMAIN s
  PROVE  Ordinals(s, places) \in Seq(DOMAIN s)
<1> DEFINE o == [i \in DOMAIN s |-> i]
<1>1. o \in Seq(DOMAIN s) /\ places \in SUBSET DOMAIN o
  OBVIOUS
<1>2. Ordinals(s, places) = Subsequence(o, places)
  BY DEF Ordinals
<1> HIDE DEF o
<1> QED BY <1>1, <1>2, SubsequenceOf

LEMMA BatchOf ==
  ASSUME NEW S, NEW queued \in Seq(S)
  PROVE  BoundFragmentAnalysisBatch(queued) \in Seq(S)
<1> DEFINE taken == {n \in DOMAIN queued : \A k \in 1..n : Fits(queued, k)}
<1>1. Len(queued) \in Nat /\ taken \in SUBSET (1..Len(queued))
  OBVIOUS
<1>2. Cardinality(taken) \in 0..Len(queued)
  <2> HIDE DEF taken
  <2> DEFINE all == 1..Len(queued)
  <2>0. taken \in SUBSET all
    BY <1>1
  <2>1. IsFiniteSet(all) /\ Cardinality(all) = Len(queued)
    <3> DEFINE m == Len(queued)
    <3>1. m \in Int /\ m >= 0 /\ 1 \in Int
      BY <1>1
    <3> HIDE DEF m
    <3>2. IsFiniteSet(1..m) /\ Cardinality(1..m) = m
      <4>1. CASE m = 0
        <5>1. 1..m = {}
          BY <4>1
        <5> QED BY <4>1, <5>1, FS_EmptySet
      <4>2. CASE m > 0
        BY <3>1, <4>2, FS_Interval
      <4> QED BY <3>1, <4>1, <4>2
    <3> QED BY <3>2 DEF m
  <2> HIDE DEF all
  <2>2. IsFiniteSet(taken) /\ Cardinality(taken) <= Len(queued)
    BY <2>0, <2>1, FS_Subset
  <2>3. Cardinality(taken) \in Nat
    BY <2>2, FS_CardinalityType
  <2> QED BY <1>1, <2>2, <2>3
<1>3. BoundFragmentAnalysisBatch(queued) = SubSeq(queued, 1, Cardinality(taken))
  BY DEF BoundFragmentAnalysisBatch
<1> HIDE DEF taken
<1> QED BY <1>2, <1>3

LEMMA ClassifiedRisk ==
  ASSUME NEW lines
  PROVE  /\ ClassifyKnowledgeRisk(lines) \in DOMAIN RiskPriority
         /\ ClassifyKnowledgeRisk(lines) = "safe_read_only" => lines \subseteq {"safe_read_only"}
<1> DEFINE found == {i \in DOMAIN RiskOrder : RiskOrder[i] \in lines}
<1>1. DOMAIN RiskOrder = 1..8
      /\ \A i \in 1..8 : RiskOrder[i] \in DOMAIN RiskPriority \ {"safe_read_only"}
  BY DEF RiskOrder, RiskPriority
<1>2. ASSUME found # {} PROVE Min(found) \in 1..8
  <2>1. found \in SUBSET (0..8) /\ found \in SUBSET (1..8)
    BY <1>1
  <2> HIDE DEF found
  <2> QED BY <1>2, <2>1, LeastExists
<1>3. ClassifyKnowledgeRisk(lines)
        = CASE lines \subseteq {"safe_read_only"} -> "safe_read_only"
            [] ~(lines \subseteq {"safe_read_only"}) /\ found # {} -> RiskOrder[Min(found)]
            [] OTHER -> "unknown"
  BY DEF ClassifyKnowledgeRisk
<1>4. {"safe_read_only", "unknown"} \subseteq DOMAIN RiskPriority
  BY DEF RiskPriority
<1> HIDE DEF found
<1>5. CASE lines \subseteq {"safe_read_only"}
  BY <1>3, <1>4, <1>5
<1>6. CASE ~(lines \subseteq {"safe_read_only"}) /\ found # {}
  <2>1. ClassifyKnowledgeRisk(lines) = RiskOrder[Min(found)]
    BY <1>3, <1>6
  <2> QED BY <1>1, <1>2, <1>6, <2>1
<1>7. CASE ~(lines \subseteq {"safe_read_only"}) /\ found = {}
  BY <1>3, <1>4, <1>7
<1> QED BY <1>5, <1>6, <1>7

\* A claim that carries the risk of its lines.
AtItsRisk(c) ==
    /\ IsClaim(c) /\ c.level \in DOMAIN RiskPriority
    /\ RiskPriority[c.level] >= RiskPriority[ClassifyKnowledgeRisk(OperationLines(c))]
    /\ c.dangerous \/ OperationLines(c) \subseteq {"safe_read_only"}

LEMMA RiskPriorityTyped == \A level \in DOMAIN RiskPriority : RiskPriority[level] \in Nat
BY DEF RiskPriority

LEMMA EnforcedIsAtItsRisk ==
  ASSUME NEW c, IsClaim(c)
  PROVE  AtItsRisk(EnforceKnowledgeRisk(c)) /\ EnforceKnowledgeRisk(c).evidence = c.evidence
<1> DEFINE deterministic == ClassifyKnowledgeRisk(OperationLines(c))
           declared == IF c.level # NotGiven THEN c.level
                       ELSE IF c.dangerous THEN "changes_config" ELSE "safe_read_only"
           level == IF RiskPriority[deterministic] > RiskPriority[declared]
                    THEN deterministic ELSE declared
           dangerous == \/ c.dangerous
                        \/ deterministic # "safe_read_only"
                        \/ level # "safe_read_only"
           e == [c EXCEPT !.level = level, !.dangerous = dangerous]
<1>1. EnforceKnowledgeRisk(c) = e
  BY DEF EnforceKnowledgeRisk
<1>2. /\ DOMAIN c = {"command", "procedure", "level", "dangerous", "evidence"}
      /\ c.level \in DOMAIN RiskPriority \cup {NotGiven} /\ c.dangerous \in BOOLEAN
  BY DEF IsClaim
<1>3. /\ deterministic \in DOMAIN RiskPriority
      /\ deterministic = "safe_read_only" => OperationLines(c) \subseteq {"safe_read_only"}
  BY ClassifiedRisk
<1> HIDE DEF deterministic
<1>4. declared \in DOMAIN RiskPriority
  BY <1>2 DEF RiskPriority
<1> HIDE DEF declared
<1>5. level \in DOMAIN RiskPriority /\ RiskPriority[level] >= RiskPriority[deterministic]
  BY <1>3, <1>4, RiskPriorityTyped
<1> HIDE DEF level
<1>6. dangerous \in BOOLEAN /\ (dangerous \/ OperationLines(c) \subseteq {"safe_read_only"})
  BY <1>3
<1> HIDE DEF dangerous
<1>7. /\ DOMAIN e = DOMAIN c /\ e.level = level /\ e.dangerous = dangerous
      /\ e.command = c.command /\ e.procedure = c.procedure /\ e.evidence = c.evidence
  BY <1>2
<1> HIDE DEF e
<1>8. OperationLines(e) = OperationLines(c)
  BY <1>7 DEF OperationLines
<1>9. IsClaim(e)
  BY <1>2, <1>5, <1>6, <1>7 DEF IsClaim
<1>10. AtItsRisk(e)
  BY <1>5, <1>6, <1>7, <1>8, <1>9 DEF AtItsRisk, deterministic
<1> QED BY <1>1, <1>7, <1>10

LEMMA MadeOf ==
  ASSUME NEW c, IsClaim(c), NEW i
  PROVE  /\ Made(c, i).fragment = i /\ AtItsRisk(Made(c, i).candidate)
         /\ Made(c, i).candidate.evidence = fragments[i].content
<1> DEFINE e == EnforceKnowledgeRisk(c)
           content == fragments[i].content
           b == [e EXCEPT !.evidence = content]
<1>1. AtItsRisk(e)
  BY EnforcedIsAtItsRisk
<1>2. Made(c, i).fragment = i /\ Made(c, i).candidate = b
  BY DEF Made, BindCandidateAnalysisProvenance
<1> HIDE DEF e, content
<1>3. DOMAIN e = {"command", "procedure", "level", "dangerous", "evidence"}
  BY <1>1 DEF AtItsRisk, IsClaim
<1>4. /\ DOMAIN b = DOMAIN e /\ b.level = e.level /\ b.dangerous = e.dangerous
      /\ b.command = e.command /\ b.procedure = e.procedure /\ b.evidence = content
  BY <1>3
<1> HIDE DEF b
<1>5. OperationLines(b) = OperationLines(e)
  BY <1>4 DEF OperationLines
<1>6. AtItsRisk(b)
  BY <1>1, <1>4, <1>5 DEF AtItsRisk, IsClaim
<1> QED BY <1>2, <1>4, <1>6 DEF content

LEMMA OneAfterTheOther ==
  ASSUME NEW U, NEW u \in Seq(U), NEW v \in Seq(U)
  PROVE  /\ u \o v \in Seq(U) /\ DOMAIN (u \o v) = 1..(Len(u) + Len(v))
         /\ \A i \in 1..Len(u) : (u \o v)[i] = u[i]
         /\ \A i \in 1..Len(v) : (u \o v)[Len(u) + i] = v[i]
OBVIOUS

\* The record a candidate becomes.
FreshRecord(c) ==
    [fragment |-> c.fragment, created |-> c.candidate, payload |-> c.candidate,
     stage |-> "pending", reserved |-> FALSE]

FreshRecords(P) == {FreshRecord(c) : c \in P}

\* Records stay, a new one is made of a candidate, and every candidate has a record of
\* its fragment.
Joined(t, s, made) ==
    /\ DOMAIN s \subseteq DOMAIN t
    /\ \A r \in DOMAIN s : t[r] = s[r]
    /\ \A r \in DOMAIN t \ DOMAIN s : \E k \in DOMAIN made : t[r] = FreshRecord(made[k])
    /\ \A k \in DOMAIN made : \E r \in DOMAIN t : t[r].fragment = made[k].fragment

LEMMA WithCandidatesOf ==
  ASSUME NEW R, NEW s \in Seq(R), NEW P, NEW made \in Seq(P)
  PROVE  /\ WithCandidates(s, made) \in Seq(R \cup FreshRecords(P))
         /\ Joined(WithCandidates(s, made), s, made)
<1> DEFINE Recorded(k) == \E r \in DOMAIN s : /\ s[r].fragment = made[k].fragment
                                             /\ s[r].created = made[k].candidate
           new == {k \in DOMAIN made : ~Recorded(k) /\ \A l \in 1..(k - 1) : made[l] # made[k]}
           chosen == Subsequence(made, new)
           added == [k \in DOMAIN chosen |-> FreshRecord(chosen[k])]
           t == s \o added
<1>1. WithCandidates(s, made) = t
  BY DEF WithCandidates, FreshRecord
<1>2. new \in SUBSET DOMAIN made
  OBVIOUS
<1>3. ASSUME NEW k \in DOMAIN made, ~Recorded(k)
      PROVE  \E l \in new : made[l] = made[k]
  <2> DEFINE same == {l \in DOMAIN made : made[l] = made[k]}
             l == Min(same)
  <2>1. same \in SUBSET (0..Len(made)) /\ Len(made) \in Nat /\ same # {}
    OBVIOUS
  <2>2. l \in same /\ \A y \in same : l <= y
    <3> HIDE DEF same
    <3> QED BY <2>1, LeastExists
  <2> HIDE DEF l
  <2>3. l \in DOMAIN made /\ made[l] = made[k] /\ ~Recorded(l)
    BY <1>3, <2>2
  <2>4. \A m \in 1..(l - 1) : made[m] # made[l]
    <3> TAKE m \in 1..(l - 1)
    <3>1. m \in DOMAIN made /\ m < l
      BY <2>3
    <3> QED BY <2>2, <2>3, <3>1
  <2> QED BY <2>3, <2>4
<1> HIDE DEF new
<1>4. /\ chosen \in Seq(P)
      /\ \A n \in DOMAIN chosen : \E i \in new : chosen[n] = made[i]
  BY <1>2, SubsequenceOf
<1>5. \A i \in new : \E n \in DOMAIN chosen : chosen[n] = made[i]
  BY <1>2, SubsequenceHas
<1> HIDE DEF chosen
<1>6. added \in Seq(FreshRecords(P)) /\ Len(added) = Len(chosen)
      /\ \A n \in DOMAIN chosen : added[n] = FreshRecord(chosen[n])
  BY <1>4 DEF FreshRecords
<1>7. /\ Len(s) \in Nat /\ Len(chosen) \in Nat
      /\ DOMAIN s = 1..Len(s) /\ DOMAIN chosen = 1..Len(chosen)
  BY <1>4
<1> DEFINE Q == FreshRecords(P)
<1> HIDE DEF added, Q
<1>8. /\ t \in Seq(R \cup Q) /\ DOMAIN t = 1..(Len(s) + Len(chosen))
      /\ \A r \in 1..Len(s) : t[r] = s[r]
      /\ \A n \in 1..Len(chosen) : t[Len(s) + n] = added[n]
  <2>1. s \in Seq(R \cup Q) /\ added \in Seq(R \cup Q)
    BY <1>6 DEF Q
  <2>2. DOMAIN t = 1..(Len(s) + Len(added))
    BY <2>1, OneAfterTheOther
  <2> QED BY <1>6, <2>1, <2>2, OneAfterTheOther
<1> HIDE DEF t, Recorded
<1>9. \A r \in DOMAIN t \ DOMAIN s : \E k \in DOMAIN made : t[r] = FreshRecord(made[k])
  <2> TAKE r \in DOMAIN t \ DOMAIN s
  <2> DEFINE n == r - Len(s)
  <2>1. n \in 1..Len(chosen) /\ r = Len(s) + n
    BY <1>7, <1>8
  <2> HIDE DEF n
  <2>2. t[r] = FreshRecord(chosen[n]) /\ n \in DOMAIN chosen
    BY <1>6, <1>7, <1>8, <2>1
  <2>3. PICK i \in new : chosen[n] = made[i]
    BY <1>4, <2>2
  <2> QED BY <1>2, <2>2, <2>3
<1>10. \A k \in DOMAIN made : \E r \in DOMAIN t : t[r].fragment = made[k].fragment
  <2> TAKE k \in DOMAIN made
  <2>1. CASE Recorded(k)
    <3>1. PICK r \in DOMAIN s : s[r].fragment = made[k].fragment
      BY <2>1 DEF Recorded
    <3>2. r \in DOMAIN t /\ t[r] = s[r]
      BY <1>7, <1>8
    <3>3. t[r].fragment = made[k].fragment
      BY <3>1, <3>2
    <3> QED BY <3>2, <3>3
  <2>2. CASE ~Recorded(k)
    <3>1. PICK l \in new : made[l] = made[k]
      BY <1>3, <2>2
    <3>2. PICK n \in DOMAIN chosen : chosen[n] = made[l]
      BY <1>5
    <3>3. Len(s) + n \in DOMAIN t /\ t[Len(s) + n] = FreshRecord(made[k])
      BY <1>6, <1>7, <1>8, <3>1, <3>2
    <3> QED BY <3>3 DEF FreshRecord
  <2> QED BY <2>1, <2>2
<1>11. Joined(t, s, made)
  BY <1>7, <1>8, <1>9, <1>10 DEF Joined
<1> QED BY <1>1, <1>8, <1>11 DEF Q

-----------------------------------------------------------------------------
(* What holds throughout.                                                    *)

Segmented ==
    /\ text \in Texts /\ \E n \in Nat : DOMAIN fragments = 1..n
    /\ \A i \in DOMAIN fragments : DOMAIN fragments[i] = {"content", "disposition", "status"}
    /\ fragments # <<>> => Chunked(text, fragments)

\* A record of a fragment among f holds its text and carries its risk.
HoldsEvidence(r, f) ==
    /\ DOMAIN r = {"fragment", "created", "payload", "stage", "reserved"}
    /\ r.fragment \in DOMAIN f /\ AtItsRisk(r.payload)
    /\ r.payload.evidence = f[r.fragment].content

EvidenceHeld ==
    /\ records \in Seq(ToSet(records))
    /\ \A r \in DOMAIN records : HoldsEvidence(records[r], fragments)

FragmentsLeased ==
    lease # NotGiven /\ lease.kind = "analysis" => lease.items \in Seq(DOMAIN fragments)

\* A fragment is done when it was set aside or a record was made of it, and reserved
\* while it is leased.
Accounted ==
    \A i \in DOMAIN fragments :
       /\ fragments[i].status = "analyzed"
          => fragments[i].disposition \in {"knowledge_extracted", "non_knowledge"}
       /\ fragments[i].disposition = "knowledge_extracted"
          => \E r \in DOMAIN records : records[r].fragment = i
       /\ fragments[i].status = "reserved"
          => lease # NotGiven /\ lease.kind = "analysis" /\ i \in ToSet(lease.items)

ExtractInv == Segmented /\ EvidenceHeld /\ FragmentsLeased /\ Accounted

\* A step that leaves the texts alone.
TextsStay ==
    /\ text' = text /\ DOMAIN fragments' = DOMAIN fragments
    /\ fragments = <<>> => fragments' = <<>>
    /\ \A i \in DOMAIN fragments :
          /\ DOMAIN fragments'[i] = DOMAIN fragments[i]
          /\ fragments'[i].content = fragments[i].content

LEMMA SegmentedStays == Segmented /\ TextsStay => Segmented'
<1> SUFFICES ASSUME Segmented, TextsStay PROVE Segmented'
  OBVIOUS
<1>1. ASSUME Chunked(text, fragments) PROVE Chunked(text', fragments')
  BY <1>1 DEF TextsStay, Chunked
<1> QED BY <1>1 DEF Segmented, TextsStay

LEMMA HeldStays ==
  ASSUME NEW r, HoldsEvidence(r, fragments), TextsStay
  PROVE  HoldsEvidence(r, fragments')
BY DEF HoldsEvidence, TextsStay

\* What is made of claims about fragments becomes records that hold their evidence.
LEMMA RecordsMade ==
  ASSUME EvidenceHeld, TextsStay, NEW P, NEW made \in Seq(P),
         \A k \in DOMAIN made :
                         /\ made[k].fragment \in DOMAIN fragments
                         /\ AtItsRisk(made[k].candidate)
                         /\ made[k].candidate.evidence = fragments[made[k].fragment].content,
         records' = WithCandidates(records, made)
  PROVE  /\ EvidenceHeld'
         /\ \A r \in DOMAIN records : r \in DOMAIN records' /\ records'[r] = records[r]
         /\ \A k \in DOMAIN made :
               \E r \in DOMAIN records' : records'[r].fragment = made[k].fragment
<1> DEFINE R == ToSet(records)
           t == WithCandidates(records, made)
<1>1. records \in Seq(R)
  BY DEF EvidenceHeld
<1> HIDE DEF R
<1>2. t \in Seq(R \cup FreshRecords(P)) /\ Joined(t, records, made)
  BY <1>1, WithCandidatesOf
<1>3. records' = t
  OBVIOUS
<1> HIDE DEF t
<1>4. t \in Seq(ToSet(t))
  BY <1>2 DEF ToSet
<1>5. \A r \in DOMAIN t : HoldsEvidence(t[r], fragments')
  <2> TAKE r \in DOMAIN t
  <2>1. CASE r \in DOMAIN records
    <3>1. HoldsEvidence(records[r], fragments)
      BY <2>1 DEF EvidenceHeld
    <3> QED BY <1>2, <2>1, <3>1, HeldStays DEF Joined
  <2>2. CASE r \notin DOMAIN records
    <3>1. PICK k \in DOMAIN made : t[r] = FreshRecord(made[k])
      BY <1>2, <2>2 DEF Joined
    <3>2. /\ DOMAIN t[r] = {"fragment", "created", "payload", "stage", "reserved"}
          /\ t[r].fragment = made[k].fragment /\ t[r].payload = made[k].candidate
      BY <3>1 DEF FreshRecord
    <3>3. HoldsEvidence(t[r], fragments)
      BY <3>2 DEF HoldsEvidence
    <3> QED BY <3>3, HeldStays
  <2> QED BY <2>1, <2>2
<1>6. EvidenceHeld'
  BY <1>3, <1>4, <1>5 DEF EvidenceHeld
<1> QED BY <1>2, <1>3, <1>6 DEF Joined

\* A review changes what a record says, never what it rests on.
LEMMA PatchedOf ==
  ASSUME NEW c, IsClaim(c), NEW repair, IsPatch(repair)
  PROVE  IsClaim(Patched(c, repair)) /\ Patched(c, repair).evidence = c.evidence
<1> DEFINE p == Patched(c, repair)
<1>1. /\ DOMAIN c = {"command", "procedure", "level", "dangerous", "evidence"}
      /\ c.level \in DOMAIN RiskPriority \cup {NotGiven} /\ c.dangerous \in BOOLEAN
  BY DEF IsClaim
<1>2. /\ repair.clear \subseteq {"command"}
      /\ "level" \in DOMAIN repair.changes => repair.changes.level \in DOMAIN RiskPriority
      /\ "dangerous" \in DOMAIN repair.changes => repair.changes.dangerous \in BOOLEAN
  BY DEF IsPatch
<1>3. DOMAIN p = DOMAIN c /\ p.evidence = c.evidence
  BY <1>1 DEF Patched
<1>4. p.level = IF "level" \in DOMAIN repair.changes THEN repair.changes.level ELSE c.level
  BY <1>1, <1>2 DEF Patched
<1>5. p.dangerous
        = IF "dangerous" \in DOMAIN repair.changes THEN repair.changes.dangerous
          ELSE c.dangerous
  BY <1>1, <1>2 DEF Patched
<1> HIDE DEF p
<1>6. IsClaim(p)
  BY <1>1, <1>2, <1>3, <1>4, <1>5 DEF IsClaim
<1> QED BY <1>3, <1>6 DEF p

LEMMA ReviewedOf ==
  ASSUME NEW f, NEW record, HoldsEvidence(record, f), NEW kind,
         NEW d, d.repair = NotGiven \/ IsPatch(d.repair)
  PROVE  /\ HoldsEvidence(Reviewed(record, kind, d), f)
         /\ Reviewed(record, kind, d).fragment = record.fragment
<1> DEFINE applies == d.repair # NotGiven /\ kind # "fidelity"
           unfit == applies /\ ~d.repair.fits
           decision == IF unfit /\ d.decision = "verified" THEN "unresolved" ELSE d.decision
           next == CASE decision = "verified" -> "passed"
                     [] decision # "verified" /\ kind = "fidelity" -> "low"
                     [] kind = "low" /\ decision = "unresolved" -> "medium"
                     [] OTHER -> "rejected"
           payload == IF applies /\ ~unfit THEN ApplyDeepReviewRepair(record.payload, d.repair)
                      ELSE record.payload
           reviewed == Reviewed(record, kind, d)
<1>1. DOMAIN record = {"fragment", "created", "payload", "stage", "reserved"}
  BY DEF HoldsEvidence
<1>2. /\ AtItsRisk(record.payload) /\ record.fragment \in DOMAIN f
      /\ record.payload.evidence = f[record.fragment].content
  BY DEF HoldsEvidence
<1>3. AtItsRisk(payload) /\ payload.evidence = record.payload.evidence
  <2>1. CASE applies /\ ~unfit
    <3> DEFINE patched == Patched(record.payload, d.repair)
    <3>1. IsClaim(patched) /\ patched.evidence = record.payload.evidence
      <4>1. IsClaim(record.payload) /\ IsPatch(d.repair)
        BY <1>2, <2>1 DEF AtItsRisk
      <4> QED BY <4>1, PatchedOf
    <3>2. payload = EnforceKnowledgeRisk(patched)
      BY <2>1 DEF ApplyDeepReviewRepair
    <3> HIDE DEF patched, payload
    <3> QED BY <3>1, <3>2, EnforcedIsAtItsRisk
  <2>2. CASE ~(applies /\ ~unfit)
    <3>1. payload = record.payload
      BY <2>2
    <3> QED BY <1>2, <3>1
  <2> QED BY <2>1, <2>2
<1>4. reviewed = [record EXCEPT !.stage = next, !.reserved = FALSE, !.payload = payload]
  BY DEF Reviewed
<1> HIDE DEF next, payload
<1>5. /\ DOMAIN reviewed = DOMAIN record /\ reviewed.fragment = record.fragment
      /\ reviewed.payload = payload
  BY <1>1, <1>4
<1> HIDE DEF reviewed
<1>6. HoldsEvidence(reviewed, f)
  BY <1>1, <1>2, <1>3, <1>5 DEF HoldsEvidence
<1> QED BY <1>5, <1>6 DEF reviewed

-----------------------------------------------------------------------------
(* The steps.                                                                *)

LEMMA ChunkSourceKeeps ==
  ASSUME ExtractionAssumption, ExtractInv, ChunkSource
  PROVE  ExtractInv'
<1> DEFINE chunks == ChunkSourceText(text)
           disposition(i) == ClassifyFragmentDisposition(chunks[i].content)
<1>1. /\ fragments = <<>> /\ text' = text /\ records' = records /\ lease' = lease
      /\ fragments' = [i \in DOMAIN chunks |->
           [content |-> chunks[i].content, disposition |-> disposition(i),
            status |-> IF disposition(i) = NotGiven THEN "queued" ELSE "analyzed"]]
  BY DEF ChunkSource
<1>2. text \in Texts
  BY DEF ExtractInv, Segmented
<1>3. (\E n \in Nat : DOMAIN chunks = 1..n) /\ Chunked(text, chunks)
  BY <1>2, ChunksOf
<1>4. \A i : disposition(i) \in {"non_knowledge", NotGiven}
  BY DEF ClassifyFragmentDisposition
<1> HIDE DEF chunks, disposition
<1>5. /\ DOMAIN fragments' = DOMAIN chunks
      /\ \A i \in DOMAIN chunks :
            /\ DOMAIN fragments'[i] = {"content", "disposition", "status"}
            /\ fragments'[i].content = chunks[i].content
            /\ fragments'[i].disposition = disposition(i)
            /\ fragments'[i].status = IF disposition(i) = NotGiven THEN "queued" ELSE "analyzed"
  BY <1>1
<1>6. Segmented'
  <2>1. Chunked(text, fragments')
    BY <1>3, <1>5 DEF Chunked
  <2> QED BY <1>1, <1>2, <1>3, <1>5, <2>1 DEF Segmented
<1>7. EvidenceHeld'
  <2>0. DOMAIN fragments = {}
    BY <1>1
  <2>1. DOMAIN records = {}
    <3>1. \A r \in DOMAIN records : records[r].fragment \in DOMAIN fragments
      BY DEF ExtractInv, EvidenceHeld, HoldsEvidence
    <3> QED BY <2>0, <3>1
  <2> QED BY <1>1, <2>1 DEF ExtractInv, EvidenceHeld
<1>8. FragmentsLeased'
  BY <1>1 DEF ExtractInv, FragmentsLeased
<1>9. Accounted'
  <2>1. NotGiven # "knowledge_extracted"
    BY DEF ExtractionAssumption
  <2> QED BY <1>4, <1>5, <2>1 DEF Accounted
<1> QED BY <1>6, <1>7, <1>8, <1>9 DEF ExtractInv

LEMMA FastPathKeeps ==
  ASSUME ExtractionAssumption, ExtractInv, NEW x \in Extractions, RunDeterministicFastPath(x)
  PROVE  ExtractInv'
<1> DEFINE kept == Kept(x)
           made == [k \in DOMAIN kept |-> Made(kept[k].candidate, kept[k].fragment)]
           of(i) == {k \in DOMAIN kept : kept[k].fragment = i}
           waits(i) == \E k \in of(i) : ~kept[k].ready
<1>1. /\ lease = NotGiven /\ text' = text /\ lease' = lease /\ fragments # <<>>
      /\ records' = WithCandidates(records, made)
      /\ fragments' = [i \in DOMAIN fragments |->
                         ExtractedFragment(fragments[i], i \in x.handled, of(i) # {}, waits(i))]
      /\ \A i \in DOMAIN fragments : fragments[i].status \in {"queued", "analyzed"}
  BY DEF RunDeterministicFastPath
<1>2. /\ kept \in Seq(ToSet(x.candidates))
      /\ \A k \in DOMAIN kept : /\ IsClaim(kept[k].candidate)
                                /\ kept[k].fragment \in DOMAIN fragments
  <2> DEFINE places == {k \in DOMAIN x.candidates :
                          LET c == x.candidates[k]
                          IN /\ c.fragment \in DOMAIN fragments
                             /\ fragments[c.fragment].status = "queued"
                             /\ c.fragment \in x.handled \/ c.ready
                             /\ c.valid}
  <2>1. x.candidates \in Seq(ToSet(x.candidates)) /\ places \in SUBSET DOMAIN x.candidates
    BY DEF ExtractionAssumption
  <2>2. kept = Subsequence(x.candidates, places)
    BY DEF Kept
  <2>3. \A k \in places : /\ x.candidates[k].fragment \in DOMAIN fragments
                          /\ IsClaim(x.candidates[k].candidate)
    BY DEF ExtractionAssumption, ToSet
  <2> HIDE DEF places, kept
  <2>4. /\ kept \in Seq(ToSet(x.candidates))
        /\ \A k \in DOMAIN kept : \E i \in places : kept[k] = x.candidates[i]
    BY <2>1, <2>2, SubsequenceOf
  <2> QED BY <2>3, <2>4
<1> DEFINE P == {made[k] : k \in DOMAIN kept}
<1> HIDE DEF kept
<1>3. made \in Seq(P)
  BY <1>2
<1>4. \A k \in DOMAIN made :
         /\ made[k].fragment = kept[k].fragment /\ made[k].fragment \in DOMAIN fragments
         /\ AtItsRisk(made[k].candidate)
         /\ made[k].candidate.evidence = fragments[made[k].fragment].content
  BY <1>2, MadeOf
<1>5. DOMAIN made = DOMAIN kept
  OBVIOUS
<1>6. \A i : waits(i) => of(i) # {}
  OBVIOUS
<1>7. \A i \in DOMAIN fragments : of(i) # {} => \E k \in DOMAIN kept : kept[k].fragment = i
  OBVIOUS
<1> HIDE DEF made, P, of, waits
<1>8. ASSUME NEW i \in DOMAIN fragments
      PROVE  /\ DOMAIN fragments'[i] = DOMAIN fragments[i]
             /\ fragments'[i].content = fragments[i].content
             /\ \/ /\ fragments'[i].status \in {"analyzed", "verified"}
                   /\ fragments'[i].disposition = "knowledge_extracted" /\ of(i) # {}
                \/ /\ fragments'[i].status = "verified"
                   /\ fragments'[i].disposition \in {"targeted_retry", fragments[i].disposition}
                \/ fragments'[i] = fragments[i]
  <2> DEFINE f == fragments[i]
             g == fragments'[i]
  <2>1. g = ExtractedFragment(f, i \in x.handled, of(i) # {}, waits(i))
    BY <1>1
  <2>2. DOMAIN f = {"content", "disposition", "status"}
    BY DEF ExtractInv, Segmented
  <2> HIDE DEF f, g
  <2>3. CASE i \in x.handled /\ f.status = "queued"
    <3>1. CASE of(i) # {}
      <4>1. g = [f EXCEPT !.status = IF waits(i) THEN "analyzed" ELSE "verified",
                          !.disposition = "knowledge_extracted"]
        BY <2>1, <2>3, <3>1 DEF ExtractedFragment
      <4> QED BY <2>2, <3>1, <4>1 DEF f, g
    <3>2. CASE of(i) = {}
      <4>1. g = [f EXCEPT !.status = "verified",
                          !.disposition = IF f.disposition = NotGiven THEN "targeted_retry"
                                          ELSE f.disposition]
        BY <1>6, <2>1, <2>3, <3>2 DEF ExtractedFragment
      <4> QED BY <2>2, <4>1 DEF f, g
    <3> QED BY <3>1, <3>2
  <2>4. CASE ~(i \in x.handled /\ f.status = "queued")
    <3>1. g = f
      BY <2>1, <2>4 DEF ExtractedFragment
    <3> QED BY <2>2, <3>1 DEF f, g
  <2> QED BY <2>3, <2>4
<1>9. TextsStay
  BY <1>1, <1>8 DEF TextsStay
<1>10. /\ EvidenceHeld'
       /\ \A r \in DOMAIN records : r \in DOMAIN records' /\ records'[r] = records[r]
       /\ \A k \in DOMAIN made :
             \E r \in DOMAIN records' : records'[r].fragment = made[k].fragment
  <2>1. EvidenceHeld
    BY DEF ExtractInv
  <2> QED BY <1>1, <1>3, <1>4, <1>9, <2>1, RecordsMade
<1>11. Segmented'
  BY <1>9, SegmentedStays DEF ExtractInv
<1>12. FragmentsLeased'
  BY <1>1 DEF FragmentsLeased
<1>13. Accounted'
  <2>1. DOMAIN fragments' = DOMAIN fragments
    BY <1>1
  <2>2. \A i \in DOMAIN fragments : fragments'[i].status # "reserved"
    BY <1>1, <1>8
  <2>3. ASSUME NEW i \in DOMAIN fragments, fragments'[i].disposition = "knowledge_extracted"
        PROVE  \E r \in DOMAIN records' : records'[r].fragment = i
    <3>1. CASE fragments'[i] = fragments[i]
      <4>1. \E r \in DOMAIN records : records[r].fragment = i
        BY <2>3, <3>1 DEF ExtractInv, Accounted
      <4> QED BY <4>1, <1>10
    <3>2. CASE of(i) # {}
      <4>1. PICK k \in DOMAIN kept : kept[k].fragment = i
        BY <1>7, <3>2
      <4> QED BY <1>4, <1>5, <1>10, <4>1
    <3>3. CASE fragments[i].disposition = "knowledge_extracted"
      <4>1. \E r \in DOMAIN records : records[r].fragment = i
        BY <3>3 DEF ExtractInv, Accounted
      <4> QED BY <4>1, <1>10
    <3> QED BY <1>8, <2>3, <3>1, <3>2, <3>3
  <2>4. \A i \in DOMAIN fragments :
           fragments'[i].status = "analyzed"
             => fragments'[i].disposition \in {"knowledge_extracted", "non_knowledge"}
    BY <1>8 DEF ExtractInv, Accounted
  <2> QED BY <2>1, <2>2, <2>3, <2>4 DEF Accounted
<1> QED BY <1>10, <1>11, <1>12, <1>13 DEF ExtractInv

LEMMA QueueAnalysisKeeps ==
  ASSUME ExtractionAssumption, ExtractInv, QueueAnalysis
  PROVE  ExtractInv'
<1> DEFINE items == BoundFragmentAnalysisBatch(QueuedFragments)
<1>1. /\ lease = NotGiven /\ text' = text /\ records' = records
      /\ lease' = [kind |-> "analysis", items |-> items]
      /\ fragments' = [i \in DOMAIN fragments |->
           IF i \in ToSet(lease'.items) THEN [fragments[i] EXCEPT !.status = "reserved"]
           ELSE fragments[i]]
  BY DEF QueueAnalysis
<1>2. items \in Seq(DOMAIN fragments)
  <2> DEFINE queued == {i \in DOMAIN fragments : fragments[i].status = "queued"}
  <2>1. PICK n \in Nat : DOMAIN fragments = 1..n
    BY DEF ExtractInv, Segmented
  <2>2. queued \in SUBSET DOMAIN fragments
    OBVIOUS
  <2> HIDE DEF queued
  <2>3. Ordinals(fragments, queued) \in Seq(DOMAIN fragments)
    BY <2>1, <2>2, OrdinalsOf
  <2>4. QueuedFragments \in Seq(DOMAIN fragments)
    BY <2>3 DEF QueuedFragments, queued
  <2> QED BY <2>4, BatchOf
<1> HIDE DEF items
<1>3. lease'.items = items /\ lease'.kind = "analysis"
  BY <1>1
<1>4. lease' # NotGiven
  <2>1. items \in Seq(Nat)
    <3>1. PICK n \in Nat : DOMAIN fragments = 1..n
      BY DEF ExtractInv, Segmented
    <3> QED BY <1>2, <3>1
  <2>2. lease' \in [kind : TaskKinds, items : Seq(Nat)]
    BY <1>1, <2>1 DEF TaskKinds
  <2> QED BY <2>2 DEF ExtractionAssumption
<1>5. \A i \in DOMAIN fragments :
         /\ DOMAIN fragments'[i] = DOMAIN fragments[i]
         /\ fragments'[i].content = fragments[i].content
         /\ fragments'[i].disposition = fragments[i].disposition
         /\ \/ fragments'[i].status = "reserved" /\ i \in ToSet(items)
            \/ fragments'[i].status = fragments[i].status
  BY <1>1, <1>3 DEF ExtractInv, Segmented
<1>6. TextsStay
  BY <1>1, <1>5 DEF TextsStay
<1>7. Segmented'
  BY <1>6, SegmentedStays DEF ExtractInv
<1>8. EvidenceHeld'
  BY <1>1, <1>6, HeldStays DEF ExtractInv, EvidenceHeld
<1>9. FragmentsLeased'
  BY <1>2, <1>3, <1>6 DEF FragmentsLeased, TextsStay
<1>10. Accounted'
  BY <1>1, <1>3, <1>4, <1>5, <1>6 DEF ExtractInv, Accounted, TextsStay
<1> QED BY <1>7, <1>8, <1>9, <1>10 DEF ExtractInv

\* What the server makes of an answer, whatever it is: complete, valid claims about
\* fragments of the lease, and no fragment called extracted.
Materialized(m, a) ==
    /\ Accepted(m)
    /\ m.candidates \in Seq(ToSet(a.candidates))
    /\ \A k \in DOMAIN m.candidates : /\ IsClaim(m.candidates[k].candidate)
                                      /\ m.candidates[k].fragment \in DOMAIN lease.items
    /\ \A i \in DOMAIN m.dispositions : m.dispositions[i] # "knowledge_extracted"

LEMMA MaterializedOf ==
  ASSUME ExtractionAssumption, NEW a \in AnalysisAnswers
  PROVE  Materialized(MaterializeCandidateAnalysisArtifact(a), a)
<1> DEFINE leased == DOMAIN lease.items
           places == {k \in DOMAIN a.candidates : /\ a.candidates[k].fragment \in leased
                                                  /\ a.candidates[k].candidate # NotGiven}
           candidates == Subsequence(a.candidates, places)
           extracted == {candidates[k].fragment : k \in DOMAIN candidates}
           rejected == (a.rejected \cap leased) \ extracted
           given == a.dispositions
           valid == {k \in DOMAIN given :
                       /\ given[k].fragment \in leased \ rejected
                       /\ ~(/\ given[k].fragment \in extracted
                            /\ given[k].disposition = "non_knowledge")}
           last == {k \in valid : \A l \in valid :
                      l > k => given[l].fragment # given[k].fragment}
           answered == {given[k].fragment : k \in last}
           of(i) == given[CHOOSE k \in last : given[k].fragment = i].disposition
           v == ValidAnalysis(a)
           m == MaterializeCandidateAnalysisArtifact(a)
           missing == leased \ (extracted \cup rejected \cup answered)
<1>1. /\ places \in SUBSET DOMAIN a.candidates /\ a.candidates \in Seq(ToSet(a.candidates))
      /\ \A k \in places : /\ IsClaim(a.candidates[k].candidate)
                           /\ a.candidates[k].fragment \in leased
  BY DEF ExtractionAssumption, ToSet
<1>2. v = [candidates |-> candidates, rejected |-> rejected,
           dispositions |-> [i \in answered |-> of(i)]]
  BY DEF ValidAnalysis
<1> HIDE DEF places
<1>3. /\ candidates \in Seq(ToSet(a.candidates))
      /\ \A k \in DOMAIN candidates : \E i \in places : candidates[k] = a.candidates[i]
  BY <1>1, SubsequenceOf
<1>4. \A k \in DOMAIN candidates : /\ IsClaim(candidates[k].candidate)
                                   /\ candidates[k].fragment \in leased
  BY <1>1, <1>3
<1> HIDE DEF candidates
<1>5. extracted \subseteq leased /\ rejected \subseteq leased \ extracted
  BY <1>4
<1>6. \A k \in last : /\ k \in DOMAIN given /\ given[k].fragment \in leased \ rejected
                      /\ given[k].fragment \in extracted
                         => given[k].disposition # "non_knowledge"
  OBVIOUS
<1> HIDE DEF last, valid
<1>7. \A i \in answered : \E k \in last : given[k].fragment = i /\ of(i) = given[k].disposition
  <2> TAKE i \in answered
  <2>1. \E k \in last : given[k].fragment = i
    OBVIOUS
  <2> DEFINE chosen == CHOOSE k \in last : given[k].fragment = i
  <2>2. chosen \in last /\ given[chosen].fragment = i
    BY <2>1
  <2>3. of(i) = given[chosen].disposition
    OBVIOUS
  <2> HIDE DEF chosen, of
  <2> QED BY <2>2, <2>3
<1>8. answered \subseteq leased \ rejected
  BY <1>6
<1>9. \A k \in DOMAIN given : given[k].disposition # "knowledge_extracted"
  BY DEF ExtractionAssumption, ToSet
<1> HIDE DEF of, answered, extracted, rejected
<1>10. \A i \in answered : /\ i \in extracted => of(i) # "non_knowledge"
                           /\ of(i) # "knowledge_extracted"
  BY <1>6, <1>7, <1>9
<1>11. /\ v.candidates = candidates /\ v.rejected = rejected
       /\ v.dispositions = [i \in answered |-> of(i)]
  BY <1>2
<1> HIDE DEF v
<1>12. Extracted(v) = extracted
  BY <1>11 DEF Extracted, extracted
<1>13. Handled(v) = extracted \cup rejected \cup answered
  BY <1>11, <1>12 DEF Handled
<1>14. /\ m.candidates = candidates /\ m.rejected = rejected
       /\ m.dispositions = [i \in answered \cup missing |->
                              IF i \in answered THEN of(i) ELSE "targeted_retry"]
  <2>1. DOMAIN v.dispositions = answered /\ \A i \in answered : v.dispositions[i] = of(i)
    BY <1>11
  <2>2. m = [candidates |-> v.candidates, rejected |-> v.rejected,
             dispositions |-> [i \in DOMAIN v.dispositions \cup (leased \ Handled(v)) |->
               IF i \in DOMAIN v.dispositions THEN v.dispositions[i] ELSE "targeted_retry"]]
    BY DEF MaterializeCandidateAnalysisArtifact, v
  <2>3. leased \ Handled(v) = missing
    BY <1>13
  <2> HIDE DEF m, missing
  <2>4. m.dispositions = [i \in answered \cup missing |->
                            IF i \in answered THEN v.dispositions[i] ELSE "targeted_retry"]
    BY <2>1, <2>2, <2>3
  <2> QED BY <1>11, <2>1, <2>2, <2>4
<1> HIDE DEF m
<1>15. Extracted(m) = extracted
  BY <1>14 DEF Extracted, extracted
<1>16. DOMAIN m.dispositions = answered \cup missing
  BY <1>14
<1>17. \A i \in DOMAIN m.dispositions :
          m.dispositions[i] = IF i \in answered THEN of(i) ELSE "targeted_retry"
  BY <1>14
<1>18. Accepted(m)
  <2>1. m.rejected \cap (Extracted(m) \cup DOMAIN m.dispositions) = {}
    BY <1>5, <1>8, <1>14, <1>15, <1>16
  <2>2. \A i \in Extracted(m) \cap DOMAIN m.dispositions : m.dispositions[i] # "non_knowledge"
    BY <1>10, <1>15, <1>16, <1>17
  <2>3. Handled(m) = leased
    BY <1>5, <1>8, <1>14, <1>15, <1>16 DEF Handled
  <2> QED BY <2>1, <2>2, <2>3 DEF Accepted
<1>19. \A i \in DOMAIN m.dispositions : m.dispositions[i] # "knowledge_extracted"
  BY <1>10, <1>16, <1>17
<1>20. /\ m.candidates \in Seq(ToSet(a.candidates))
       /\ \A k \in DOMAIN m.candidates : /\ IsClaim(m.candidates[k].candidate)
                                         /\ m.candidates[k].fragment \in leased
  BY <1>3, <1>4, <1>14
<1> QED BY <1>18, <1>19, <1>20 DEF m, Materialized

LEMMA AnalysisKeeps ==
  ASSUME ExtractionAssumption, ExtractInv,
         NEW a \in AnalysisAnswers, SubmitCandidateAnalysis(a)
  PROVE  ExtractInv'
<1> DEFINE m == MaterializeCandidateAnalysisArtifact(a)
           items == lease.items
           made == [k \in DOMAIN m.candidates |->
                      Made(m.candidates[k].candidate, items[m.candidates[k].fragment])]
           place(i) == CHOOSE p \in DOMAIN items : items[p] = i
           P == {made[k] : k \in DOMAIN m.candidates}
<1>1. /\ lease # NotGiven /\ lease.kind = "analysis" /\ text' = text /\ lease' = NotGiven
      /\ records' = WithCandidates(records, made)
      /\ fragments' = [i \in DOMAIN fragments |->
           IF i \in ToSet(items) THEN AnalyzedFragment(fragments[i], m, place(i))
           ELSE fragments[i]]
  BY DEF SubmitCandidateAnalysis
<1>2. /\ m.candidates \in Seq(ToSet(a.candidates))
      /\ \A k \in DOMAIN m.candidates : /\ IsClaim(m.candidates[k].candidate)
                                        /\ m.candidates[k].fragment \in DOMAIN items
      /\ \A i \in DOMAIN m.dispositions : m.dispositions[i] # "knowledge_extracted"
  BY MaterializedOf DEF Materialized
<1>3. items \in Seq(DOMAIN fragments)
  BY <1>1 DEF ExtractInv, FragmentsLeased
<1> HIDE DEF m
<1>4. made \in Seq(P)
  BY <1>2
<1>5. \A k \in DOMAIN m.candidates : items[m.candidates[k].fragment] \in DOMAIN fragments
  BY <1>2, <1>3
<1>6. \A k \in DOMAIN made :
         /\ made[k].fragment = items[m.candidates[k].fragment]
         /\ made[k].fragment \in DOMAIN fragments /\ AtItsRisk(made[k].candidate)
         /\ made[k].candidate.evidence = fragments[made[k].fragment].content
  <2> TAKE k \in DOMAIN made
  <2> DEFINE c == m.candidates[k].candidate
             i == items[m.candidates[k].fragment]
  <2>1. k \in DOMAIN m.candidates /\ made[k] = Made(c, i)
    OBVIOUS
  <2>2. IsClaim(c) /\ i \in DOMAIN fragments
    BY <1>2, <1>5, <2>1
  <2> HIDE DEF c, i, made, items
  <2>3. /\ made[k].fragment = i /\ AtItsRisk(made[k].candidate)
        /\ made[k].candidate.evidence = fragments[i].content
    BY <2>1, <2>2, MadeOf
  <2> QED BY <2>2, <2>3 DEF i
<1>7. DOMAIN made = DOMAIN m.candidates
  OBVIOUS
<1>8. \A i \in ToSet(items) : place(i) \in DOMAIN items /\ items[place(i)] = i
  BY DEF ToSet
<1> HIDE DEF made, P, place, items
<1>9. ASSUME NEW i \in DOMAIN fragments, i \in ToSet(items)
      PROVE  /\ DOMAIN fragments'[i] = DOMAIN fragments[i]
             /\ fragments'[i].content = fragments[i].content
             /\ \/ /\ fragments'[i].status = "queued"
                   /\ fragments'[i].disposition # "knowledge_extracted"
                \/ /\ fragments'[i].status = "analyzed"
                   /\ fragments'[i].disposition = "knowledge_extracted"
                   /\ place(i) \in Extracted(m)
                \/ /\ fragments'[i].status = "analyzed"
                   /\ fragments'[i].disposition = "non_knowledge"
  <2> DEFINE f == fragments[i]
             g == fragments'[i]
             continued == /\ place(i) \in DOMAIN m.dispositions
                          /\ m.dispositions[place(i)] # "non_knowledge"
  <2>1. g = AnalyzedFragment(f, m, place(i))
    BY <1>1, <1>9
  <2>2. DOMAIN f = {"content", "disposition", "status"}
    BY DEF ExtractInv, Segmented
  <2> HIDE DEF f, g
  <2>3. CASE continued
    <3>1. g = [f EXCEPT !.status = "queued", !.disposition = m.dispositions[place(i)]]
      BY <2>1, <2>3 DEF AnalyzedFragment
    <3> QED BY <1>2, <2>2, <2>3, <3>1 DEF f, g
  <2>4. CASE ~continued /\ place(i) \in Extracted(m)
    <3>1. g = [f EXCEPT !.status = "analyzed", !.disposition = "knowledge_extracted"]
      BY <2>1, <2>4 DEF AnalyzedFragment
    <3> QED BY <2>2, <2>4, <3>1 DEF f, g
  <2>5. CASE ~continued /\ place(i) \notin Extracted(m)
    <3>1. g = [f EXCEPT !.status = "analyzed", !.disposition = "non_knowledge"]
      BY <2>1, <2>5 DEF AnalyzedFragment
    <3> QED BY <2>2, <2>5, <3>1 DEF f, g
  <2> QED BY <2>3, <2>4, <2>5
<1>10. \A i \in DOMAIN fragments : i \notin ToSet(items) => fragments'[i] = fragments[i]
  BY <1>1
<1>11. TextsStay
  BY <1>1, <1>9, <1>10 DEF TextsStay
<1>12. /\ EvidenceHeld'
       /\ \A r \in DOMAIN records : r \in DOMAIN records' /\ records'[r] = records[r]
       /\ \A k \in DOMAIN made :
             \E r \in DOMAIN records' : records'[r].fragment = made[k].fragment
  <2>1. EvidenceHeld
    BY DEF ExtractInv
  <2> QED BY <1>1, <1>4, <1>6, <1>11, <2>1, RecordsMade
<1>13. Segmented'
  BY <1>11, SegmentedStays DEF ExtractInv
<1>14. FragmentsLeased'
  BY <1>1 DEF FragmentsLeased
<1>15. Accounted'
  <2>1. DOMAIN fragments' = DOMAIN fragments
    BY <1>1
  <2>2. \A i \in DOMAIN fragments : fragments'[i].status # "reserved"
    BY <1>9, <1>10 DEF ExtractInv, Accounted, items
  <2>3. ASSUME NEW i \in DOMAIN fragments, fragments'[i].disposition = "knowledge_extracted"
        PROVE  \E r \in DOMAIN records' : records'[r].fragment = i
    <3>1. CASE i \notin ToSet(items)
      <4>1. fragments'[i] = fragments[i]
        BY <1>10, <3>1
      <4>2. \E r \in DOMAIN records : records[r].fragment = i
        BY <2>3, <4>1 DEF ExtractInv, Accounted
      <4> QED BY <4>2, <1>12
    <3>2. CASE i \in ToSet(items)
      <4>1. place(i) \in Extracted(m)
        BY <1>9, <2>3, <3>2
      <4>2. PICK k \in DOMAIN m.candidates : m.candidates[k].fragment = place(i)
        BY <4>1 DEF Extracted
      <4>3. made[k].fragment = i
        BY <1>6, <1>7, <1>8, <3>2, <4>2
      <4> QED BY <1>7, <1>12, <4>3
    <3> QED BY <3>1, <3>2
  <2>4. \A i \in DOMAIN fragments :
           fragments'[i].status = "analyzed"
             => fragments'[i].disposition \in {"knowledge_extracted", "non_knowledge"}
    BY <1>9, <1>10 DEF ExtractInv, Accounted
  <2> QED BY <2>1, <2>2, <2>3, <2>4 DEF Accounted
<1> QED BY <1>12, <1>13, <1>14, <1>15 DEF ExtractInv

\* A step that changes only the records, and not what they rest on.
LEMMA RecordsReviewed ==
  ASSUME ExtractInv, text' = text, fragments' = fragments,
         DOMAIN records' = DOMAIN records,
         records' = [r \in DOMAIN records |-> records'[r]],
         \A r \in DOMAIN records : /\ HoldsEvidence(records'[r], fragments)
                                   /\ records'[r].fragment = records[r].fragment
  PROVE  Segmented' /\ EvidenceHeld'
<1>1. Segmented'
  BY DEF ExtractInv, Segmented
<1>2. DOMAIN records = 1..Len(records) /\ Len(records) \in Nat
  BY DEF ExtractInv, EvidenceHeld
<1>3. records' \in Seq(ToSet(records'))
  BY <1>2 DEF ToSet
<1> QED BY <1>1, <1>3 DEF EvidenceHeld

LEMMA QueueReviewKeeps ==
  ASSUME ExtractInv, NEW kind \in DOMAIN StageOf, QueueReview(kind)
  PROVE  ExtractInv'
<1>1. PICK items :
        /\ lease = NotGiven /\ text' = text /\ fragments' = fragments
        /\ lease' = [kind |-> kind, items |-> items]
        /\ records' = [r \in DOMAIN records |->
             [records[r] EXCEPT !.reserved = @ \/ r \in ToSet(lease'.items)]]
  BY DEF QueueReview
<1>2. kind # "analysis" /\ lease'.kind = kind
  BY <1>1 DEF StageOf
<1>3. \A r \in DOMAIN records : /\ HoldsEvidence(records'[r], fragments)
                                /\ records'[r].fragment = records[r].fragment
  <2> TAKE r \in DOMAIN records
  <2>1. HoldsEvidence(records[r], fragments)
    BY DEF ExtractInv, EvidenceHeld
  <2>2. DOMAIN records[r] = {"fragment", "created", "payload", "stage", "reserved"}
    BY <2>1 DEF HoldsEvidence
  <2>3. /\ DOMAIN records'[r] = DOMAIN records[r]
        /\ records'[r].payload = records[r].payload
        /\ records'[r].fragment = records[r].fragment
    BY <1>1, <2>2
  <2> QED BY <2>1, <2>3 DEF HoldsEvidence
<1>4. /\ DOMAIN records' = DOMAIN records
      /\ records' = [r \in DOMAIN records |-> records'[r]]
  BY <1>1
<1>5. Segmented' /\ EvidenceHeld'
  BY <1>1, <1>3, <1>4, RecordsReviewed
<1>6. FragmentsLeased'
  BY <1>2 DEF FragmentsLeased
<1>7. Accounted'
  BY <1>1, <1>3, <1>4 DEF ExtractInv, Accounted
<1> QED BY <1>5, <1>6, <1>7 DEF ExtractInv

LEMMA SubmitReviewKeeps ==
  ASSUME ExtractionAssumption, ExtractInv, NEW decisions \in Reviews, SubmitReview(decisions)
  PROVE  ExtractInv'
<1> DEFINE made == NormalizeLeasedDecisionIndexes(decisions)
           decided(r) == CHOOSE d \in made : lease.items[d.index] = r
<1>1. /\ lease # NotGiven /\ lease.kind # "analysis" /\ lease' = NotGiven
      /\ text' = text /\ fragments' = fragments
      /\ records' = [r \in DOMAIN records |->
           IF \E d \in made : lease.items[d.index] = r
           THEN Reviewed(records[r], lease.kind, decided(r))
           ELSE [records[r] EXCEPT !.reserved = FALSE]]
  BY DEF SubmitReview
<1>2. \A d \in made : d.repair = NotGiven \/ IsPatch(d.repair)
  BY DEF NormalizeLeasedDecisionIndexes, ExtractionAssumption, ToSet
<1>3. \A r : (\E d \in made : lease.items[d.index] = r) => decided(r) \in made
  OBVIOUS
<1> HIDE DEF made, decided
<1>4. \A r \in DOMAIN records : /\ HoldsEvidence(records'[r], fragments)
                                /\ records'[r].fragment = records[r].fragment
  <2> TAKE r \in DOMAIN records
  <2>1. HoldsEvidence(records[r], fragments)
    BY DEF ExtractInv, EvidenceHeld
  <2>2. DOMAIN records[r] = {"fragment", "created", "payload", "stage", "reserved"}
    BY <2>1 DEF HoldsEvidence
  <2>3. CASE \E d \in made : lease.items[d.index] = r
    <3>1. records'[r] = Reviewed(records[r], lease.kind, decided(r))
      BY <1>1, <2>3
    <3>2. decided(r).repair = NotGiven \/ IsPatch(decided(r).repair)
      BY <1>2, <1>3, <2>3
    <3> QED BY <2>1, <3>1, <3>2, ReviewedOf
  <2>4. CASE ~ \E d \in made : lease.items[d.index] = r
    <3>1. records'[r] = [records[r] EXCEPT !.reserved = FALSE]
      BY <1>1, <2>4
    <3>2. /\ DOMAIN records'[r] = DOMAIN records[r]
          /\ records'[r].payload = records[r].payload
          /\ records'[r].fragment = records[r].fragment
      BY <2>2, <3>1
    <3> QED BY <2>1, <3>2 DEF HoldsEvidence
  <2> QED BY <2>3, <2>4
<1>5. /\ DOMAIN records' = DOMAIN records
      /\ records' = [r \in DOMAIN records |-> records'[r]]
  BY <1>1
<1>6. Segmented' /\ EvidenceHeld'
  BY <1>1, <1>4, <1>5, RecordsReviewed
<1>7. FragmentsLeased'
  BY <1>1 DEF FragmentsLeased
<1>8. Accounted'
  <2>1. \A i : (\E r \in DOMAIN records : records[r].fragment = i)
                 => (\E r \in DOMAIN records' : records'[r].fragment = i)
    BY <1>4, <1>5
  <2>2. \A i \in DOMAIN fragments : fragments[i].status # "reserved"
    BY <1>1 DEF ExtractInv, Accounted
  <2> QED BY <1>1, <2>1, <2>2 DEF ExtractInv, Accounted
<1> QED BY <1>6, <1>7, <1>8 DEF ExtractInv

LEMMA FailTaskKeeps == ExtractInv /\ FailTask => ExtractInv'
<1> SUFFICES ASSUME ExtractInv, FailTask PROVE ExtractInv'
  OBVIOUS
<1>1. /\ text' = text /\ lease' = NotGiven
      /\ fragments' = [i \in DOMAIN fragments |->
           IF fragments[i].status = "reserved" THEN [fragments[i] EXCEPT !.status = "failed"]
           ELSE fragments[i]]
      /\ records' = [r \in DOMAIN records |-> [records[r] EXCEPT !.reserved = FALSE]]
  BY DEF FailTask
<1>2. \A i \in DOMAIN fragments :
         /\ DOMAIN fragments'[i] = DOMAIN fragments[i]
         /\ fragments'[i].content = fragments[i].content
         /\ fragments'[i].disposition = fragments[i].disposition
         /\ fragments'[i].status # "reserved"
         /\ fragments'[i].status \in {"failed", fragments[i].status}
  BY <1>1 DEF ExtractInv, Segmented
<1>3. TextsStay
  BY <1>1, <1>2 DEF TextsStay
<1>4. \A r \in DOMAIN records : /\ HoldsEvidence(records'[r], fragments')
                                /\ records'[r].fragment = records[r].fragment
  <2> TAKE r \in DOMAIN records
  <2>1. HoldsEvidence(records[r], fragments)
    BY DEF ExtractInv, EvidenceHeld
  <2>2. DOMAIN records[r] = {"fragment", "created", "payload", "stage", "reserved"}
    BY <2>1 DEF HoldsEvidence
  <2>3. /\ DOMAIN records'[r] = DOMAIN records[r]
        /\ records'[r].payload = records[r].payload
        /\ records'[r].fragment = records[r].fragment
    BY <1>1, <2>2
  <2>4. HoldsEvidence(records'[r], fragments)
    BY <2>1, <2>3 DEF HoldsEvidence
  <2> QED BY <1>3, <2>3, <2>4, HeldStays
<1>5. DOMAIN records' = DOMAIN records /\ records' \in Seq(ToSet(records'))
  <2>1. DOMAIN records = 1..Len(records) /\ Len(records) \in Nat
    BY DEF ExtractInv, EvidenceHeld
  <2>2. DOMAIN records' = DOMAIN records /\ records' = [r \in DOMAIN records |-> records'[r]]
    BY <1>1
  <2> QED BY <2>1, <2>2 DEF ToSet
<1>6. Segmented'
  BY <1>3, SegmentedStays DEF ExtractInv
<1>7. EvidenceHeld'
  BY <1>4, <1>5 DEF EvidenceHeld
<1>8. FragmentsLeased'
  BY <1>1 DEF FragmentsLeased
<1>9. Accounted'
  BY <1>2, <1>3, <1>4, <1>5 DEF ExtractInv, Accounted, TextsStay
<1> QED BY <1>6, <1>7, <1>8, <1>9 DEF ExtractInv

THEOREM ExtractionInvariant ==
  ASSUME ExtractionAssumption
  PROVE  ExtractionSpec => []ExtractInv
<1>1. ASSUME ExtractionInit PROVE ExtractInv
  <2>1. /\ text \in Texts /\ fragments = <<>> /\ records = <<>> /\ lease = NotGiven
    BY <1>1 DEF ExtractionInit
  <2>2. DOMAIN fragments = {} /\ DOMAIN records = {} /\ DOMAIN fragments = 1..0 /\ 0 \in Nat
    BY <2>1
  <2>3. Segmented
    BY <2>1, <2>2 DEF Segmented
  <2>4. EvidenceHeld
    BY <2>1, <2>2 DEF EvidenceHeld
  <2>5. FragmentsLeased /\ Accounted
    BY <2>1, <2>2 DEF FragmentsLeased, Accounted
  <2> QED BY <2>3, <2>4, <2>5 DEF ExtractInv
<1>2. ASSUME ExtractInv, [ExtractionNext]_extractVars PROVE ExtractInv'
  <2>1. CASE ChunkSource
    BY <1>2, <2>1, ChunkSourceKeeps
  <2>2. ASSUME NEW x \in Extractions, RunDeterministicFastPath(x) PROVE ExtractInv'
    BY <1>2, <2>2, FastPathKeeps
  <2>3. CASE QueueAnalysis
    BY <1>2, <2>3, QueueAnalysisKeeps
  <2>4. ASSUME NEW a \in AnalysisAnswers, SubmitCandidateAnalysis(a) PROVE ExtractInv'
    BY <1>2, <2>4, AnalysisKeeps
  <2>5. ASSUME NEW kind \in DOMAIN StageOf, QueueReview(kind) PROVE ExtractInv'
    BY <1>2, <2>5, QueueReviewKeeps
  <2>6. ASSUME NEW decisions \in Reviews, SubmitReview(decisions) PROVE ExtractInv'
    BY <1>2, <2>6, SubmitReviewKeeps
  <2>7. CASE FailTask
    BY <1>2, <2>7, FailTaskKeeps
  <2>8. CASE UNCHANGED extractVars
    <3>1. text' = text /\ fragments' = fragments /\ records' = records /\ lease' = lease
      BY <2>8 DEF extractVars
    <3> QED BY <1>2, <3>1 DEF ExtractInv, Segmented, EvidenceHeld, FragmentsLeased, Accounted
  <2> QED BY <1>2, <2>1, <2>2, <2>3, <2>4, <2>5, <2>6, <2>7, <2>8 DEF ExtractionNext
<1> QED BY <1>1, <1>2, PTL DEF ExtractionSpec

\* Whatever agents write and reviewers repair, a record rests on the text of its own
\* fragment and carries at least the risk its lines are classified with.
THEOREM RecordsRestOnEvidence ==
  ASSUME ExtractionAssumption
  PROVE  ExtractionSpec => []RecordsKeepTheirEvidence
<1>1. ExtractInv => RecordsKeepTheirEvidence
  BY DEF ExtractInv, EvidenceHeld, HoldsEvidence, AtItsRisk, RecordsKeepTheirEvidence
<1>2. ExtractionSpec => []ExtractInv
  BY ExtractionInvariant
<1> QED BY <1>1, <1>2, PTL

\* No text is lost on its way to an agent, whatever an agent answers is usable, and a
\* fragment is done only when it was set aside or a record was made of it.
THEOREM NothingIsLost ==
  ASSUME ExtractionAssumption
  PROVE  ExtractionSpec => []EvidenceIsKept
<1>1. ExtractInv => EvidenceIsKept
  <2> SUFFICES ASSUME ExtractInv PROVE EvidenceIsKept
    OBVIOUS
  <2>1. \A a \in AnalysisAnswers : Accepted(MaterializeCandidateAnalysisArtifact(a))
    BY MaterializedOf DEF Materialized
  <2> QED BY <2>1 DEF ExtractInv, Segmented, Chunked, Accounted, EvidenceIsKept
<1>2. ExtractionSpec => []ExtractInv
  BY ExtractionInvariant
<1> QED BY <1>1, <1>2, PTL
=============================================================================
