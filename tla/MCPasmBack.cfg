SPECIFICATION BackSpec
CONSTANTS
    ExpBits = 8
    Numerals <- MCNums
    LabelOffsets <- MCLab
    UnknownLabels = {"U"}
    Texts <- MCTexts
    FieldTexts <- MCFieldTexts
    MAXTERM = 4
    Instructions <- MCInstructions
    OpOffsets = {600}
    F = F
    L = L
    G = G
    None = None
    PasmLines <- MCPasmLines
    PasmTextMax = 3
    PasmErrorMax = 2
    MAX_PROGRAM = 15
    MaxImmediate = 12
    JmpReach = 12
    PasmCores = {0, 1}
    Arguments <- MCArguments
    ArgumentMax = 3
    Images <- MCImages
    FileLines <- MCFileLines
    EndsWithNewline = FALSE
    LabelRecords = {0, 2}
    MAX_CMD_EQUATE = 1
    Unwritten <- Hole
    Directories <- MCDirectories
    SourceNames <- MCSourceNames
    Readable <- MCReadable
    DirectoryMax = 2
    RecordMax = 3
    OpenLimit = 3
    Size = 6
INVARIANTS
    OperandsByGrammar WordsDoInstruction
    ImageIsProgram OutputsAsAsked
PROPERTIES
    IncludesResolved
CHECK_DEADLOCK FALSE
