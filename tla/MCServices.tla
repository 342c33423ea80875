----------------------------- MODULE MCServices -----------------------------
(***************************************************************************)
(* One model of the parts of the program that share no state: expert       *)
(* tasks, the agent settings, native tasks, uploads, the workbench, the    *)
(* operations feed, the review of changes, the rebuilding of the           *)
(* applicability index, the crawl of a collection, the analysis of paths,  *)
(* the search and the extraction of evidence, whose modules this one       *)
(* extends; the public statistics and the refresh of the models.  The      *)
(* first state chooses the part that runs, the others stay as they begin.  *)
(***************************************************************************)
EXTENDS ExpertTask, ModelSettings, ProtocolTasks, IntakeUploads, CaseWorkbench,
        OperationsFeed, ChangeReview, ApplicabilityIndex, CollectionCrawl, PathAnalysis,
        KnowledgeSearch, EvidenceExtraction, MCParts

CONSTANTS
    w1, w2, r1, question, context, website,
    root, map, pageA, pageB, pageC, outside

VARIABLES
    part,
    release, cache, aged, broken, lock, refresh, statsFaults,
    pool, prices, fetch, asked, refreshes, refreshFaults

statsVars == <<release, cache, aged, broken, lock, refresh, statsFaults>>
refreshVars == <<pool, prices, fetch, asked, refreshes, refreshFaults>>

\* The root links to a page and out of the job's scope, the sitemap to two pages;
\* one page redirects to the next, the page outside to the one that redirects.
MCUrls == {root, map, pageA, pageB, pageC, outside}
MCScope == [j \in {website, NoJob} |-> MCUrls \ {map, IF j = NoJob THEN map ELSE outside}]
MCLinks == (root :> <<pageA, outside>>) @@ (map :> <<pageB, pageC>>)
           @@ (pageA :> <<pageB, root>>) @@ [u \in {pageB, pageC, outside} |-> <<>>]
MCRedirect == [u \in MCUrls |-> CASE u = pageB -> pageC [] u = outside -> pageB [] OTHER -> u]
MCContent == [u \in MCUrls |-> u]

Stats == INSTANCE PublicStats WITH
    Refreshers <- {w1, w2}, MaxRelease <- 3, MaxFaults <- 2, faults <- statsFaults

Refreshing == INSTANCE ModelRefresh WITH
    MaxRequests <- 2, MaxFaults <- 1, requests <- refreshes, faults <- refreshFaults

\* What the parts assume of their constants.
ASSUME PartsAssumption ==
    /\ CrawlAssumption /\ CaseAssumption /\ NoneIsNoKey
    /\ PageIsNotEmpty /\ Stats!NoneIsNobody /\ SearchAssumption
    /\ ExtractionAssumption /\ ReviewAssumption
    /\ PathAssumption /\ LimitAssumption /\ UploadsBounds
    /\ ReportsAssumption /\ SettingsBounds /\ Refreshing!BoundsAssumption
    /\ IndexAssumption

ServicesInit ==
    /\ part \in {"crawl", "expert", "workbench", "native", "feed", "stats", "search",
                "extract", "review", "paths", "uploads", "settings", "refresh", "index"}
    /\ Init
    /\ CrawlInit /\ CaseInit /\ NativeInit /\ FeedInit /\ Stats!Init
    /\ SearchInit /\ ExtractionInit /\ ReviewInit /\ PathInit /\ UploadsInit
    /\ SettingsInit /\ Refreshing!Init /\ IndexInit
    \* The parts that do not run begin in one way only.
    /\ part = "search" \/ request = CHOOSE r \in MCRequests : TRUE
    /\ part = "extract" \/ text = CHOOSE t \in MCTexts : TRUE
    /\ part = "paths" \/ destination = nothing
    /\ part = "index" \/ revisions = {}
    /\ part = "uploads" \/ \A u \in {w1, w2} :
                               upload[u].document = CHOOSE d \in MCDocuments : TRUE
    /\ settings.values.profiles[question] = model1

ServicesNext ==
    /\ UNCHANGED part
    /\ \/ /\ part = "crawl" /\ CrawlNext
          /\ UNCHANGED <<vars, workbenchVars, nativeVars, feedVars, statsVars, searchVars,
                       extractVars, reviewVars, pathVars, uploadVars, settingsVars, refreshVars,
                       indexVars>>
       \/ /\ part = "expert" /\ Next
          /\ UNCHANGED <<crawlVars, workbenchVars, nativeVars, feedVars, statsVars, searchVars,
                       extractVars, reviewVars, pathVars, uploadVars, settingsVars, refreshVars,
                       indexVars>>
       \/ /\ part = "workbench" /\ CaseNext
          /\ UNCHANGED <<vars, crawlVars, nativeVars, feedVars, statsVars, searchVars,
                       extractVars, reviewVars, pathVars, uploadVars, settingsVars, refreshVars,
                       indexVars>>
       \/ /\ part = "native" /\ NativeNext
          /\ UNCHANGED <<vars, crawlVars, workbenchVars, feedVars, statsVars, searchVars,
                       extractVars, reviewVars, pathVars, uploadVars, settingsVars, refreshVars,
                       indexVars>>
       \/ /\ part = "feed" /\ FeedNext
          /\ UNCHANGED <<vars, crawlVars, workbenchVars, nativeVars, statsVars, searchVars,
                       extractVars, reviewVars, pathVars, uploadVars, settingsVars, refreshVars,
                       indexVars>>
       \/ /\ part = "stats" /\ Stats!Next
          /\ UNCHANGED <<vars, crawlVars, workbenchVars, nativeVars, feedVars, searchVars,
                       extractVars, reviewVars, pathVars, uploadVars, settingsVars, refreshVars,
                       indexVars>>
       \/ /\ part = "search" /\ SearchNext
          /\ UNCHANGED <<vars, crawlVars, workbenchVars, nativeVars, feedVars, statsVars,
                       extractVars, reviewVars, pathVars, uploadVars, settingsVars, refreshVars,
                       indexVars>>
       \/ /\ part = "extract" /\ ExtractionNext
          /\ UNCHANGED <<vars, crawlVars, workbenchVars, nativeVars, feedVars, statsVars,
                       searchVars, reviewVars, pathVars, uploadVars, settingsVars, refreshVars,
                       indexVars>>
       \/ /\ part = "review" /\ ReviewNext
          /\ UNCHANGED <<vars, crawlVars, workbenchVars, nativeVars, feedVars, statsVars,
                       searchVars, extractVars, pathVars, uploadVars, settingsVars, refreshVars,
                       indexVars>>
       \/ /\ part = "paths" /\ PathNext
          /\ UNCHANGED <<vars, crawlVars, workbenchVars, nativeVars, feedVars, statsVars,
                       searchVars, extractVars, reviewVars, uploadVars, settingsVars,
                       refreshVars, indexVars>>
       \/ /\ part = "uploads" /\ UploadsNext
          /\ UNCHANGED <<vars, crawlVars, workbenchVars, nativeVars, feedVars, statsVars,
                       searchVars, extractVars, reviewVars, pathVars, settingsVars, refreshVars,
                       indexVars>>
       \/ /\ part = "settings" /\ SettingsNext
          /\ UNCHANGED <<vars, crawlVars, workbenchVars, nativeVars, feedVars, statsVars,
                       searchVars, extractVars, reviewVars, pathVars, uploadVars, refreshVars,
                       indexVars>>
       \/ /\ part = "refresh" /\ Refreshing!Next
          /\ UNCHANGED <<vars, crawlVars, workbenchVars, nativeVars, feedVars, statsVars,
                       searchVars, extractVars, reviewVars, pathVars, uploadVars, settingsVars,
                       indexVars>>
       \/ /\ part = "index" /\ IndexNext
          /\ UNCHANGED <<vars, crawlVars, workbenchVars, nativeVars, feedVars, statsVars,
                       searchVars, extractVars, reviewVars, pathVars, uploadVars, settingsVars,
                       refreshVars>>

\* The fairness of each part, where it is the one that runs.
ServicesFairness ==
    /\ WF_crawlVars(part = "crawl" /\ NextScanArrives)
    /\ \A w \in {w1, w2} :
          WF_crawlVars(part = "crawl"
                         /\ (ExpandNextSourceCollection(w) \/ FetchFails(w)))
    /\ WF_vars(part = "expert" /\ ExpiryPasses)
    /\ WF_vars(part = "expert" /\ RunWorkerMaintenance)
    /\ WF_vars(part = "expert" /\ ClosePipelineTask)
    /\ WF_vars(part = "expert" /\ WriteTask(r1))
    /\ WF_workbenchVars(part = "workbench" /\ Commit)
    /\ WF_workbenchVars(part = "workbench" /\ PollTimer)
    /\ WF_workbenchVars(part = "workbench" /\ Progress)
    /\ WF_workbenchVars(part = "workbench" /\ TimerAnswered)
    /\ WF_workbenchVars(part = "workbench" /\ TimerApplied)
    /\ \A p \in {w1, w2} : WF_statsVars(part = "stats" /\ Stats!Refresh(p))
    /\ WF_refreshVars(part = "refresh" /\ Refreshing!Pool)
    /\ WF_refreshVars(part = "refresh" /\ Refreshing!Pricing)
    /\ WF_refreshVars(part = "refresh" /\ Refreshing!PricesAge)

ServicesSpec ==
    /\ ServicesInit
    /\ [][ServicesNext]_<<part, vars, crawlVars, workbenchVars, nativeVars, feedVars, statsVars,
                         searchVars, extractVars, reviewVars, pathVars, uploadVars,
                         settingsVars, refreshVars, indexVars>>
    /\ ServicesFairness

(***************************************************************************)
(* The properties of the parts; those of the extended modules are there.   *)
(***************************************************************************)

\* Expert tasks end, and their pipeline tasks with them (ExpertTask).
ExpertTasksSettle == part = "expert" => ExpertTaskSettles

\* What waits in a part is over in the end: a website job (CollectionCrawl), research
\* the workbench polls (CaseWorkbench), statistics of an older release (PublicStats),
\* a refresh of the models (ModelRefresh).
Waits ==
    \/ part = "crawl" /\ GoesOn(website)
    \/ part = "workbench" /\ Followed
    \/ part = "stats" /\ Stats!Behind
    \/ part = "refresh" /\ Refreshing!Awaited
ServicesMoveOn == Waits ~> ~Waits
=============================================================================
