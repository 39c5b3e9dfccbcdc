CONSTANTS
    w1 = w1 w2 = w2 f = f u1 = u1 u2 = u2
    Doc <- Docs
    Blank <- NoBlank
    Passages <- DocPassages
    Sections <- NoSections
    Budgets = {}
    Drifts = {0, 2}
    Rankings = {}
    Wrap = 1
    Preamble = 1
    Joint = 0
    MaxBlocks = 3
    PerDocCap = 2
    MergeGap = 1
    ContextLines = 1
    MinBlock = 2
    FloorTenths = 3
    ShareTenths = 5
    NearPercent = 85
    Expand = TRUE
    DocumentOrder = FALSE
    Writer = {w1, w2}
    Turn <- Turns
    Roles <- TurnRoles
    Ranking <- Relevance
    Windows = {6, 14, 24}
    SystemCost = 1
    QuestionCost = 1
    Policy = 2
    Overhead = 1
    Template = 1
    MinAnswer = 2
    MaxAnswer = 6
    MinMargin = 1
    MinShrink = 2
    HistoryTenths = 4
    Separate = TRUE
    MaxForgets = 1
    MaxFaults = 1
    MaxAsks = 1
CHECK_DEADLOCK FALSE
SPECIFICATION SpecAssembly
INVARIANTS TurnsOnce ForgottenStaysOut
PROPERTY AssembleEnds
