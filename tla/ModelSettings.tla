--------------------------- MODULE ModelSettings ---------------------------
(***************************************************************************)
(* The agent settings: the form administrators fill                        *)
(* (apps/admin/src/pages/models.tsx), the version that guards what they    *)
(* save and the catalog it is checked against                              *)
(* (src/domain/pipeline-execution.ts).                                     *)
(*                                                                         *)
(* Several administrators edit at once, on copies of the settings that are *)
(* polled and arrive late.  The executor pool publishes a catalog or an    *)
(* error whenever it likes (ModelRefresh says when).                       *)
(***************************************************************************)
EXTENDS Naturals

CONSTANTS
    Admins,
    Models,       \* a model with its reasoning effort and its fallback
    Profiles,     \* the execution profiles
    Counts,       \* numbers of agents
    Reports,      \* what the executor's binary may tell: [models, error, fit]
    NoCopy,
    MaxVersion,   \* bound on settings_version
    MaxFaults     \* bound on failed reads and lost answers

ReportsAssumption ==
    Reports \subseteq [models : SUBSET Models, error : BOOLEAN, fit : BOOLEAN]
SettingsBounds == MaxVersion \in Nat \ {0} /\ MaxFaults \in Nat

Values == [agents : Counts, profiles : [Profiles -> Models]]
Settings == [version : 1..MaxVersion, values : Values]

VARIABLES
    settings,    \* pipeline_settings and pipeline_execution_profiles
    view,        \* view[a]: the settings the page of a has, or NoCopy
    reading,     \* reading[a]: settings on their way to the page, or NoCopy
    draft,       \* draft[a]: [from, values], what a edits and began from, or NoCopy
    phase,       \* phase[a]: of the request that saves the draft
    catalog,     \* pipeline_runtime_catalog
    settingsFaults       \* how many of MaxFaults have happened

settingsVars == <<settings, view, reading, draft, phase, catalog, settingsFaults>>

Draft == [from : Settings, values : Values]

SettingsInit ==
    /\ settings \in [version : {1}, values : Values]
    /\ view = [a \in Admins |-> NoCopy]
    /\ reading = [a \in Admins |-> NoCopy]
    /\ draft = [a \in Admins |-> NoCopy]
    /\ phase = [a \in Admins |-> "editing"]
    /\ catalog = [models |-> {}, error |-> FALSE, fit |-> FALSE, recent |-> FALSE]
    /\ settingsFaults = 0

-----------------------------------------------------------------------------
(* The form.                                                                *)

\* The version and the profiles are of one statement.
GetExecutionSettings == settings

\* The page reads again every ten seconds.
PollSettings(a) ==
    /\ reading[a] = NoCopy
    /\ reading' = [reading EXCEPT ![a] = GetExecutionSettings]
    /\ UNCHANGED <<settings, view, draft, phase, catalog, settingsFaults>>

\* What was saved is edited no more once the page has read again, or has tried.
Reloaded(a) ==
    /\ reading' = [reading EXCEPT ![a] = NoCopy]
    /\ IF phase[a] = "reloading"
       THEN /\ draft' = [draft EXCEPT ![a] = NoCopy]
            /\ phase' = [phase EXCEPT ![a] = "editing"]
       ELSE UNCHANGED <<draft, phase>>
    /\ UNCHANGED <<settings, catalog>>

SettingsArrive(a) ==
    /\ reading[a] # NoCopy
    /\ view' = [view EXCEPT ![a] = reading[a]]
    /\ Reloaded(a)
    /\ UNCHANGED settingsFaults

ReadFails(a) ==
    /\ reading[a] # NoCopy /\ settingsFaults < MaxFaults
    /\ settingsFaults' = settingsFaults + 1
    /\ Reloaded(a)
    /\ UNCHANGED view

\* The form: the draft, or the settings the page has.  A change keeps the version
\* the draft began from, whatever the page has read since.  (The models on offer
\* are those of a catalog of the page's own, of any age.)
Form(a) ==
    IF draft[a] # NoCopy THEN draft[a] ELSE [from |-> view[a], values |-> view[a].values]

Edit(a, values) ==
    /\ phase[a] = "editing" /\ view[a] # NoCopy
    /\ values # Form(a).values
    /\ draft' = [draft EXCEPT ![a] = [Form(a) EXCEPT !.values = values]]
    /\ UNCHANGED <<settings, view, reading, phase, catalog, settingsFaults>>

CancelChanges(a) ==
    /\ phase[a] = "editing" /\ draft[a] # NoCopy
    /\ draft' = [draft EXCEPT ![a] = NoCopy]
    /\ reading' = [reading EXCEPT ![a] = GetExecutionSettings]
    /\ UNCHANGED <<settings, view, phase, catalog, settingsFaults>>

Save(a) ==
    /\ phase[a] = "editing" /\ draft[a] # NoCopy
    /\ phase' = [phase EXCEPT ![a] = "sent"]
    /\ UNCHANGED <<settings, view, reading, draft, catalog, settingsFaults>>

-----------------------------------------------------------------------------
(* The service.                                                             *)

Changed(values) == {p \in Profiles : values.profiles[p] # settings.values.profiles[p]}

\* Only a change of models asks for a catalog, a recent one without an error, of
\* an executor that fits and that offers them.
Supported(values) ==
    Changed(values) # {} =>
        /\ catalog.recent /\ ~catalog.error /\ catalog.fit
        /\ \A p \in Changed(values) : values.profiles[p] \in catalog.models

\* Mutant: the version is not compared.
AcceptsAny(a) == Supported(draft[a].values)

Accepts(a) ==
    /\ draft[a].from.version = settings.version
    /\ Supported(draft[a].values)

\* The page keeps the draft when it is refused, and when the answer is lost.
SetExecutionSettings(a) ==
    /\ phase[a] = "sent"
    /\ IF Accepts(a)
       THEN /\ settings.version < MaxVersion
            /\ settings' = [version |-> settings.version + 1, values |-> draft[a].values]
            /\ \/ phase' = [phase EXCEPT ![a] = "saved"] /\ UNCHANGED settingsFaults
               \/ /\ settingsFaults < MaxFaults
                  /\ settingsFaults' = settingsFaults + 1
                  /\ phase' = [phase EXCEPT ![a] = "editing"]
       ELSE /\ phase' = [phase EXCEPT ![a] = "editing"]
            /\ UNCHANGED <<settings, settingsFaults>>
    /\ UNCHANGED <<view, reading, draft, catalog>>

\* A save that succeeded cancels what is being read and reads again.
Invalidate(a) ==
    /\ phase[a] = "saved"
    /\ phase' = [phase EXCEPT ![a] = "reloading"]
    /\ reading' = [reading EXCEPT ![a] = GetExecutionSettings]
    /\ UNCHANGED <<settings, view, draft, catalog, settingsFaults>>

-----------------------------------------------------------------------------
(* The catalog.                                                             *)

\* A report with an error keeps the models of the last that had none.
PublishExecutionCatalog(report) ==
    /\ catalog' = IF report.error THEN [catalog EXCEPT !.error = TRUE, !.fit = report.fit]
                  ELSE [models |-> report.models, error |-> FALSE, fit |-> report.fit,
                        recent |-> TRUE]
    /\ UNCHANGED <<settings, view, reading, draft, phase, settingsFaults>>

\* A quarter of an hour passes without one.
CatalogAges ==
    /\ catalog' = [catalog EXCEPT !.recent = FALSE]
    /\ UNCHANGED <<settings, view, reading, draft, phase, settingsFaults>>

-----------------------------------------------------------------------------

SettingsNext ==
    \/ \E a \in Admins :
          \/ PollSettings(a) \/ SettingsArrive(a) \/ ReadFails(a)
          \/ \E values \in Values : Edit(a, values)
          \/ CancelChanges(a) \/ Save(a) \/ SetExecutionSettings(a) \/ Invalidate(a)
    \/ \E report \in Reports : PublishExecutionCatalog(report)
    \/ CatalogAges

SettingsSpec == SettingsInit /\ [][SettingsNext]_settingsVars
-----------------------------------------------------------------------------
(* Properties.                                                              *)

Phases == {"editing", "sent", "saved", "reloading"}
SettingsTypeOK ==
    /\ settings \in Settings
    /\ view \in [Admins -> Settings \cup {NoCopy}]
    /\ reading \in [Admins -> Settings \cup {NoCopy}]
    /\ draft \in [Admins -> Draft \cup {NoCopy}]
    /\ phase \in [Admins -> Phases]
    /\ catalog \in [models : SUBSET Models, error : BOOLEAN, fit : BOOLEAN, recent : BOOLEAN]
    /\ settingsFaults \in 0..MaxFaults

\* Settings are replaced only by someone whose form began from those very values,
\* however late the page read them: nobody overwrites what he has not seen.
SettingsAreSeen ==
    [][settings' # settings =>
          \E a \in Admins : /\ phase[a] = "sent" /\ draft[a] # NoCopy
                            /\ draft[a].from.values = settings.values
                            /\ draft[a].values = settings'.values]_settingsVars
=============================================================================
