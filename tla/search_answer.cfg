CONSTANTS
    Char <- Chars
    Lower <- AsciiLower
    Fold <- UnicodeLower
    Forced <- Delimiters
    LowerCase = {"a", "b", "e"}
    UpperCase = {"A", "E"}
    Rare <- Joints
    Word <- Letters LeadWord <- Letters TrailWord <- OneByte
    NL <- LineFeed CR <- Return
    MinGram = 2 MaxGram = 3
    Classes <- Drawn
    Doc <- Docs
    Query <- Asks
    MaxDocs = 2
    MaxWord = 9
    MaxVariants = 2
    ScanPercent = 50
    PathOf <- Places
    Stem <- Stems
    Ext <- Exts
    Tails <- Endings
    Heads <- Beginnings
    NoExt = "none" Here = "." Up = ".."
    Session <- Sessions
    Library <- Caller
    Corpus <- Indexes
    Dash <- Pipeline
    NUL = "0"
    Request <- Requests
    NoValue <- Blank
    Subcommand <- Subcommands
    WithoutMatch <- Harmless
    BasicToo <- Basics
SPECIFICATION AgentSpec
CHECK_DEADLOCK FALSE
INVARIANTS SearchIsScan LimitIsFilled AnswerIsReference CapIsFilled CodeTellsAnswer RewriteKeepsMeaning
