--------------------------- MODULE CollectionCrawl ---------------------------
(***************************************************************************)
(* The crawl of one collection of documents (expandNextSourceCollection    *)
(* of domain/pipeline-worker.ts) and the website jobs that ask for it      *)
(* (domain/intake.ts).  A worker takes the collection, visits some pages,  *)
(* each recorded at once, and then commits the links it found, the rest of *)
(* its queue and the job's state in one transaction.  The pages stay as    *)
(* they are while they are crawled.                                        *)
(***************************************************************************)
EXTENDS Naturals, FiniteSets, SequencesExt

CONSTANTS
    Urls,
    Root, Sitemap,   \* where a scan starts
    Scope,           \* the URLs within the scope each job gives the collection
    Locations,       \* sitemaps: documents whose links are only followed
    Links,           \* the links of each document, in its order
    Redirect,        \* where each URL redirects to, itself if nowhere
    MaxRedirects,    \* redirects a fetch follows (5)
    Content,         \* the bytes of each document
    Jobs, Crawlers, NoJob,
    CrawlDepth,      \* crawl_depth (100 for a website)
    LinkLimit,       \* link_limit: pages of a scan, links of a pass
    PassPages,       \* pages of a pass (20)
    MaxCrawlFaults,  \* bound: failed fetches, slow workers, interventions
    MaxCrashes       \* bound: lost processes and failed statements

CrawlAssumption ==
    /\ IsFiniteSet(Urls) /\ {Root, Sitemap} \subseteq Urls /\ Locations \subseteq Urls
    /\ Scope \in [Jobs \cup {NoJob} -> SUBSET Urls]
    /\ Links \in [Urls -> Seq(Urls)] /\ Redirect \in [Urls -> Urls]
    /\ NoJob \notin Jobs \cup Urls
    /\ {LinkLimit, PassPages} \subseteq Nat \ {0} /\ {CrawlDepth, MaxRedirects} \subseteq Nat

VARIABLES
    collection,  \* source_collections: job, status, due, queue, scan
    page,        \* source_collection_pages.status, by requested_url
    sources,     \* source_candidates the crawl has made
    job,         \* intake_jobs.status
    crawler,     \* what each worker process is doing
    crawlFaults, crashes

crawlVars == <<collection, page, sources, job, crawler, crawlFaults, crashes>>

PageStatus == {"none", "queued", "accepted", "duplicate", "out_of_scope", "unsafe",
               "temporary_failure", "permanent_failure"}
TerminalPage == {"accepted", "duplicate", "permanent_failure"}
Open == {"queued", "running"}

NoPass == [pc |-> "idle"]
Busy == {w \in Crawlers : crawler[w].pc # "idle"}

CrawlInit ==
    /\ collection = [job |-> NoJob, status |-> "active", due |-> TRUE,
                     queue |-> <<>>, scan |-> 0]
    /\ page = [u \in Urls |-> "none"]
    /\ sources = {}
    /\ job = [j \in Jobs |-> "none"]
    /\ crawler = [w \in Crawlers |-> NoPass]
    /\ crawlFaults = 0 /\ crashes = 0

Mishap == crawlFaults < MaxCrawlFaults /\ crawlFaults' = crawlFaults + 1
Crashes == crashes < MaxCrashes /\ crashes' = crashes + 1

(***************************************************************************)
(* The administrator's jobs.                                               *)
(***************************************************************************)

\* A second job for the same URL takes the collection from the first.
CreateWebsiteIntakeJob(j) ==
    /\ job[j] = "none" /\ Mishap
    /\ job' = [job EXCEPT ![j] = "queued"]
    /\ collection' = [collection EXCEPT !.job = j, !.status = "active", !.due = TRUE]
    /\ page' = [page EXCEPT ![Root] = IF @ = "none" THEN "queued" ELSE @]
    /\ UNCHANGED <<sources, crawler, crashes>>

ControlIntakeJob(j) ==
    /\ job[j] \notin {"none", "completed", "cancelled"}
    /\ \E status \in {"paused", "queued", "cancelled"} \ {job[j]} :
          job' = [job EXCEPT ![j] = status]
    /\ UNCHANGED <<collection, page, sources, crawler, crawlFaults, crashes>>

NextScanArrives ==
    /\ ~collection.due /\ collection.status = "active"
    /\ collection' = [collection EXCEPT !.due = TRUE]
    /\ UNCHANGED <<page, sources, job, crawler, crawlFaults, crashes>>

(***************************************************************************)
(* A pass takes the collection: one that is due, or one another worker     *)
(* has held for ten minutes, because it is gone or slow.                   *)
(***************************************************************************)
ScanStart == <<[url |-> Sitemap, depth |-> 0], [url |-> Root, depth |-> 0]>>

Wanted == collection.job \in {NoJob} \cup {j \in Jobs : job[j] \in Open}

TakeCollection(w) ==
    /\ crawler[w] = NoPass /\ Wanted
    /\ \/ collection.status = "active" /\ collection.due /\ UNCHANGED crawlFaults
       \/ collection.status = "refreshing" /\ Busy = {} /\ UNCHANGED crawlFaults
       \/ collection.status = "refreshing" /\ Mishap
    /\ collection' = [collection EXCEPT !.status = "refreshing"]
    /\ crawler' = [crawler EXCEPT ![w] =
          [pc |-> "crawl", job |-> collection.job, scan |-> collection.scan,
           queue |-> IF collection.queue = <<>> THEN ScanStart ELSE collection.queue,
           seen |-> {}, discovered |-> {}, pages |-> 0, current |-> NoJob]]
    /\ UNCHANGED <<page, sources, job, crashes>>

(***************************************************************************)
(* One page: taken from the queue, fetched and recorded.                   *)
(***************************************************************************)
Crawlable(c, u) == u \in Scope[c.job] \cup Locations

Goes(c) ==
    /\ c.queue # <<>> /\ c.pages < PassPages
    /\ c.scan + c.pages < LinkLimit
    /\ Cardinality(c.discovered) < LinkLimit

Visit(w) ==
    LET c == crawler[w]
        current == Head(c.queue)
        passed == [c EXCEPT !.queue = Tail(@), !.seen = @ \cup {current.url}]
    IN /\ c.pc = "crawl" /\ Goes(c)
       /\ \/ /\ \/ current.url \in c.seen
                \/ Crawlable(c, current.url) /\ page[current.url] \in TerminalPage
             /\ crawler' = [crawler EXCEPT ![w] = passed]
             /\ UNCHANGED page
          \/ /\ current.url \notin c.seen /\ ~Crawlable(c, current.url)
             /\ crawler' = [crawler EXCEPT ![w] = passed]
             /\ page' = [page EXCEPT ![current.url] = "out_of_scope"]
          \/ /\ current.url \notin c.seen /\ Crawlable(c, current.url)
             /\ page[current.url] \notin TerminalPage
             /\ crawler' = [crawler EXCEPT ![w] =
                   [passed EXCEPT !.pc = "fetched", !.current = current,
                                  !.pages = @ + 1]]
             /\ UNCHANGED page
       /\ UNCHANGED <<collection, sources, job, crawlFaults, crashes>>

\* Where a fetch ends that follows the redirects it may; some lead on from there.
FinalUrl(u) ==
    LET hop[n \in 0..MaxRedirects] == IF n = 0 THEN u ELSE Redirect[hop[n - 1]]
    IN hop[MaxRedirects]

Astray == {u \in Urls : Redirect[FinalUrl(u)] # FinalUrl(u)}

FetchFails(w) ==
    /\ crawler[w].pc = "fetched"
    /\ LET url == crawler[w].current.url
           Becomes(status) == page' = [page EXCEPT ![url] = status]
       IN \/ url \in Astray /\ Becomes("unsafe") /\ UNCHANGED crawlFaults
          \/ /\ url \notin Astray /\ Mishap
             /\ \E status \in {"temporary_failure", "permanent_failure", "unsafe"} :
                   Becomes(status)
    /\ crawler' = [crawler EXCEPT ![w].pc = "crawl"]
    /\ UNCHANGED <<collection, sources, job, crashes>>

\* The links of a document that become sources: those in scope, until there are enough.
Taken(c, links) ==
    LET InScope(k) == links[k] \in Scope[c.job]
        Found(k) == c.discovered \cup {links[i] : i \in {j \in 1..k : InScope(j)}}
    IN {i \in DOMAIN links :
          InScope(i) /\ \A k \in 1..(i - 1) : InScope(k) => Cardinality(Found(k)) < LinkLimit}

\* Those of them that are not too deep are followed, as long as the queue has room.
FollowedLinks(c, links) ==
    LET places == SetToSortSeq({i \in Taken(c, links) :
                     c.current.depth < CrawlDepth /\ links[i] \notin c.seen}, <)
        room == {n \in DOMAIN places : Len(c.queue) + n <= LinkLimit}
    IN [n \in room |-> [url |-> links[places[n]], depth |-> c.current.depth + 1]]

\* Mutant: a link that is too deep to be followed is not a source either.
FollowedOnly(c, links) ==
    [c EXCEPT !.discovered = @ \cup {links[i] : i \in {k \in Taken(c, links) :
                                                   c.current.depth < CrawlDepth}},
              !.queue = @ \o FollowedLinks(c, links)]

WithLinks(c, links) ==
    [c EXCEPT !.discovered = @ \cup {links[i] : i \in Taken(c, links)},
              !.queue = @ \o FollowedLinks(c, links)]

\* The documents a sitemap names are visited at its own depth.
Located(c, links) ==
    SelectSeq([i \in DOMAIN links |-> [url |-> links[i], depth |-> c.current.depth]],
              LAMBDA p : Crawlable(c, p.url))

WithLocations(c, links) == [c EXCEPT !.queue = @ \o Located(c, links)]

\* The content of a page recorded before, by this pass or any other.
KnownContent(content) ==
    \E u \in Urls : page[u] \in {"accepted", "duplicate"} /\ Content[FinalUrl(u)] = content

Record(w) ==
    LET c == crawler[w]
        url == c.current.url
        document == FinalUrl(url)
        Becomes(status) == page' = [page EXCEPT ![url] = status]
        Proceed(d) == crawler' = [crawler EXCEPT ![w] = [d EXCEPT !.pc = "crawl"]]
    IN /\ c.pc = "fetched" /\ url \notin Astray
       /\ \/ ~Crawlable(c, document) /\ Becomes("out_of_scope") /\ Proceed(c)
          \/ /\ Crawlable(c, document) /\ KnownContent(Content[document])
             /\ Becomes("duplicate") /\ Proceed(c)
          \/ /\ Crawlable(c, document) /\ ~KnownContent(Content[document])
             /\ Becomes("accepted")
             /\ IF document \in Locations
                THEN Proceed(WithLocations(c, Links[document]))
                ELSE Proceed(WithLinks([c EXCEPT !.discovered = @ \cup {document}],
                                    Links[document]))
       /\ UNCHANGED <<collection, sources, job, crawlFaults, crashes>>

(***************************************************************************)
(* The end of a pass.  What was not visited is kept for the next one,      *)
(* unless the scan has spent its pages.                                    *)
(***************************************************************************)
Unvisited(c) ==
    LET rest == SelectSeq(c.queue, LAMBDA p : p.url \notin c.seen)
        SameUrl(i, k) == rest[i].url = rest[k].url
        firsts == {i \in DOMAIN rest : \A k \in 1..(i - 1) : ~SameUrl(i, k)}
        Latest(i) == rest[CHOOSE k \in DOMAIN rest :
                          SameUrl(i, k) /\ \A n \in (k + 1)..Len(rest) : ~SameUrl(i, n)]
        distinct == [n \in 1..Cardinality(firsts) |->
                       Latest(CHOOSE i \in firsts : Cardinality(firsts \cap (1..i)) = n)]
    IN SubSeq(distinct, 1, IF Len(distinct) < LinkLimit THEN Len(distinct) ELSE LinkLimit)

Remaining(c) == IF c.scan + c.pages >= LinkLimit THEN <<>> ELSE Unvisited(c)

Finish(w) ==
    LET c == crawler[w]
        remaining == Remaining(c)
    IN /\ c.pc = "crawl" /\ ~Goes(c)
       /\ sources' = sources \cup c.discovered
       /\ collection' = [collection EXCEPT
             !.status = "active", !.due = (remaining # <<>>), !.queue = remaining,
             !.scan = IF remaining = <<>> THEN 0 ELSE c.scan + c.pages]
       /\ job' = IF c.job = NoJob THEN job
                 ELSE [job EXCEPT ![c.job] =
                         IF remaining = <<>> THEN "completed" ELSE "running"]
       /\ crawler' = [crawler EXCEPT ![w] = NoPass]
       /\ UNCHANGED <<page, crawlFaults, crashes>>

\* A statement fails: the collection is put off for a day, its queue as it was.
Defer(w) ==
    /\ w \in Busy /\ Crashes
    /\ collection' = [collection EXCEPT !.status = "active", !.due = FALSE]
    /\ crawler' = [crawler EXCEPT ![w] = NoPass]
    /\ UNCHANGED <<page, sources, job, crawlFaults>>

StopPass(w) ==
    /\ w \in Busy /\ Crashes
    /\ crawler' = [crawler EXCEPT ![w] = NoPass]
    /\ UNCHANGED <<collection, page, sources, job, crawlFaults>>

ExpandNextSourceCollection(w) == TakeCollection(w) \/ Visit(w) \/ Record(w) \/ Finish(w)

CrawlNext ==
    \/ \E j \in Jobs : CreateWebsiteIntakeJob(j) \/ ControlIntakeJob(j)
    \/ NextScanArrives
    \/ \E w \in Crawlers :
          \/ ExpandNextSourceCollection(w) \/ FetchFails(w) \/ Defer(w) \/ StopPass(w)

CrawlSpec == CrawlInit /\ [][CrawlNext]_crawlVars

\* The worker loops and time go on.
CrawlFairness ==
    /\ WF_crawlVars(NextScanArrives)
    /\ \A w \in Crawlers : WF_crawlVars(ExpandNextSourceCollection(w) \/ FetchFails(w))

FairCrawlSpec == CrawlSpec /\ CrawlFairness

(***************************************************************************)
(* Properties.                                                             *)
(***************************************************************************)

\* Rows and crawlers keep their form.
CrawlTypeOK ==
    /\ collection.job \in Jobs \cup {NoJob}
    /\ collection.status \in {"active", "refreshing"} /\ collection.due \in BOOLEAN
    /\ collection.scan \in 0..(LinkLimit - 1) /\ Len(collection.queue) <= LinkLimit
    /\ page \in [Urls -> PageStatus] /\ sources \subseteq Urls
    /\ job \in [Jobs -> Open \cup {"none", "paused", "completed", "cancelled"}]
    /\ \A w \in Crawlers : crawler[w].pc \in {"idle", "crawl", "fetched"}

\* The URLs within every scope the collection may be given.
Always == {u \in Urls : \A j \in Jobs \cup {NoJob} : u \in Scope[j]}

\* "Website jobs use a durable frontier": no link of a document that was accepted is
\* lost between the passes that visit it and follow it, whatever workers overlap and
\* fetches fail.  A pass may stop at its limit of links, and a statement may fail.
NoLinkIsLost ==
    crashes = 0 /\ Busy = {} =>
        \A u \in Urls :
            page[u] = "accepted" /\ FinalUrl(u) \notin Locations =>
                \/ ({FinalUrl(u)} \cup (ToSet(Links[FinalUrl(u)]) \cap Always)) \subseteq sources
                \/ Cardinality(sources) >= LinkLimit

\* A website job ends, or is paused, or loses its collection to another: its passes
\* do not go round for ever, whatever fails.
GoesOn(j) == collection.job = j /\ job[j] \in Open
WebsiteJobsEnd == \A j \in Jobs : GoesOn(j) ~> ~GoesOn(j)
=============================================================================
