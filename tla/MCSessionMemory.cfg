SPECIFICATION Spec
CONSTANTS
    Names = {"x", "y"}
    Shorthands = {"ll", "say"}
    Numerals <- MCNumerals
    Value <- MCValue
    Lines <- MCShortLines
    Home <- MCHome
    Files <- MCFiles
    RcAliases <- MCRcAliases
    Environment = {"HOME"}
    TableSize = 20
    AliasLimit = 3
    ArenaSize = 40
    ScratchSize = 12
    PromptStrings = 2
    MaxLines = 6
    Careful = TRUE
INVARIANT MemoryLasts
CHECK_DEADLOCK FALSE
