CONSTANTS
    docA = docA docB = docB fs = fs o = o old = old n1 = n1 n2 = n2 v1 = v1 v2 = v2 v3 = v3
    t1 = t1 t2 = t2 q1 = q1 q2 = q2 q3 = q3 q4 = q4 none = none
    ka = ka kb = kb kf = kf ko = ko kd = kd kn = kn
    shared = shared private = private e1 = e1 e2 = e2 e3 = e3 e4 = e4 e5 = e5
    Doc <- AllDocs
    Blank <- SomeBlank
    Passages <- SomePassages
    Sections <- SomeSections
    Budgets = {8, 14, 22, 34}
    Drifts = {0, 1}
    Rankings <- SomeRankings
    Wrap = 2
    Preamble = 1
    Joint = 1
    MaxBlocks = 3
    PerDocCap = 2
    MergeGap = 3
    ContextLines = 2
    MinBlock = 5
    FloorTenths = 3
    ShareTenths = 4
    NearPercent = 85
    Expand = TRUE
    DocumentOrder = TRUE
    StoredDoc <- Kept3
    Key <- Keys
    ScopeOf <- DocScope
    DeadSets <- Deleted
    Scopes <- AllScopes
    ScopeSets <- Grants
    ExcludeSets <- Excludes
    Question <- Asks
    Idf <- Weights
    PostingsBudget = 5
    CandidateLimit = 3
    Edges <- SomeEdges
    Defs <- SomeDefs
    Mentions <- SomeMentions
    Seeds <- FromE1
    Damping <- NoDamping
    Answers <- Parts
    CoMention = {"with"}
    Hops = 3
    Beam = 2
    MaxLinks = 1
    Vectors <- SomeVectors
    NearLimit = 3
    FileKey = {kf}
    Version = {v1, v2, v3}
    Twin <- TwinOf
    SourceScope = shared
    Identifiers <- TwoIdentifiers
    Matches <- MatchLines
    MaxEdits = 1
    Prior <- EvenPrior
    RerankLimit = 7
    MaxResults = 5
    MaxLifts = 4
    NearestExempt = 2
    WLex = 30
    WExact = 12
    WGraph = 18
    WNear = 35
CHECK_DEADLOCK FALSE
SPECIFICATION SpecAll
INVARIANTS CondensedShowsWhy NothingUnseen OneVersion ChainsFollow
