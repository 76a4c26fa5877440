SPECIFICATION FrontSpec
CONSTANTS
    TextMaxChars = 5
    RawSourceMax = 5
    SourceLines <- MCSourceLines
    MAX_TOKENS = 3
    TermMaxLen = 4
    Names = {"a", "b"}
    Values = {"one"}
    Reserved = {}
    FileNames = {m}
    Main = m
    cmdLine <- MCcmdLine
    CC_MAX_DEPTH = 2
    OpenMax = 2
    SOURCEFILE_MAX = 3
    ErrorMax = 2
    ErrorBound = 3
    Equates <- MCEquates
    LineChoices <- MCLineChoices
    DataChoices <- MCDataChoices
    TOKEN_MAX_LEN = 3
    MAX_SOURCE_LINE = 5
    Commands <- MCCommands
    TextLimit = 6
    StructErrors = 2
    STRUCT_MAX_ELEM = 2
    Endians = {FALSE, TRUE}
    MacroLines <- MCMacroLines
    MacroTextLimit = 6
    MacroErrors = 2
    MACRO_MAX_ARGS = 2
    MACRO_MAX_LINES = 2
    MACRO_MAX_LABELS = 1
    Register <- MCRegister
INVARIANTS
    FrontTypeOK LineDelivered AssemblesWhatIsAsked LineIsExpansion
    NothingLeftMarked ElementsWhereMapped ExpansionsFit
PROPERTIES
    FrontReturns
CHECK_DEADLOCK FALSE
