SPECIFICATION ServicesSpec
CONSTANTS
    Workers = {w1, w2}
    Requesters = {r1}
    ResearchAttempts = 2
    AttemptLimit = 3
    RetryBudget = 2
    MaxClaims = 4
    MaxSubmissions = 2
    MaxAdminActions = 1
    None = None
    NoCopy = NoCopy
    Admins = {w1, w2}
    Models = {model1, model2}
    Profiles = {question}
    Counts = {1}
    Reports <- MCReports
    MaxVersion = 3
    MaxFaults = 1
    Calls = {w1, w2}
    Keys = {key1, key2}
    Uploads = {w1, w2}
    Documents <- MCDocuments
    Limit <- MCLimit
    Questions = {question}
    Contexts = {context}
    Evidences = {key1}
    Refs = {}
    NoData = NoData
    MaxCaseVersion = 3
    MaxRequests = 1
    Writers = {w1, w2}
    PageSize = 1
    MaxEvents = 3
    Absent = Absent
    Handles = {website}
    Lines <- MCLines
    MaxLines = 2
    Outputs <- MCOutputs
    Empty = "none"
    LastRevision = 2
    Known = {2}
    Processes = {w1, w2}
    BatchSize = 1
    MaxRuns = 2
    MaxIndexFaults = 1
    MaxLost = 1
    MaxStops = 1
    Urls <- MCUrls
    Root = root
    Sitemap = map
    Scope <- MCScope
    Locations = {map}
    Links <- MCLinks
    Redirect <- MCRedirect
    MaxRedirects = 1
    Content <- MCContent
    Jobs = {website}
    Crawlers = {w1, w2}
    NoJob = NoJob
    CrawlDepth = 1
    LinkLimit = 4
    PassPages = 2
    MaxCrawlFaults = 1
    MaxCrashes = 1
    Unset = nothing
    Vendors = {vendor1, vendor2}
    VendorOf <- MCVendorOf
    ArchitectureOf <- MCArchitectureOf
    Systems <- MCSystems
    Portable = {family1}
    Parents <- MCParents
    VendorFamily <- MCVendorFamily
    Branched = {family2}
    BranchOf <- MCBranchOf
    Parts = {part1, part2}
    SupportParts = {part2}
    AnswerLimit = 2
    Candidates <- MCCandidates
    Requests <- MCRequests
    Exclusions <- MCExclusions
    MaxKnowledge = 2
    NotGiven = nothing
    Texts <- MCTexts
    MaxBytes = 5
    BatchFragments = 2
    BatchBytes = 8
    WindowFragments = 2
    MaximumRecords = 2
    TargetTokens = 12
    HardTokens = 12
    Extractions <- MCExtractions
    AnalysisAnswers <- MCAnswers
    Reviews <- MCReviews
    MaxRecords = 2
    NoName = nothing
    Silent = silent
    Same <- MCSame
    Snapshots <- MCSnapshots
    Destinations = {nothing, hop3, hop2}
    MaxSnapshots = 3
    w1 = w1
    w2 = w2
    r1 = r1
    question = question
    context = context
    key1 = key1
    key2 = key2
    website = website
    root = root
    map = map
    pageA = pageA
    pageB = pageB
    pageC = pageC
    outside = outside
    nothing = nothing
    vendor1 = vendor1
    vendor2 = vendor2
    model1 = model1
    model2 = model2
    family1 = family1
    family2 = family2
    arch = arch
    part1 = part1
    part2 = part2
    hop1 = hop1
    hop2 = hop2
    hop3 = hop3
    silent = silent
INVARIANTS
    PublishedOnce
    ShownBelongsToCase
    HandedTaskHasItsResult
    NoLinkIsLost
    
    CountedIsIndexed
    
    
    CompletePathsAreDrawn
    AcceptedHasItsDocument
PROPERTIES
    ExpertTasksSettle
    AnimatedTransitionsAreCounted
    PassedIsShown
    SettingsAreSeen
    ServicesMoveOn
CHECK_DEADLOCK FALSE
