SPECIFICATION Spec
CONSTANTS
    Names = {"x", "y"}
    Shorthands = {"ll", "say"}
    Numerals <- MCNumerals
    Value <- MCValue
    Lines <- MCLines
    Home <- MCHome
    Files <- MCFiles
    RcAliases <- MCRcAliases
    Environment = {"HOME"}
    TableSize = 20
    AliasLimit = 3
    ArenaSize = 40
    ScratchSize = 60
    PromptStrings = 1
    MaxLines = 4
    Careful = TRUE
INVARIANT TypeOK
PROPERTY LineIsDone
CHECK_DEADLOCK FALSE
