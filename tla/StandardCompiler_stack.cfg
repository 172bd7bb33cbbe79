SPECIFICATION AllSpec
CONSTANTS
    NameOrder <- MCNameOrder
    Texts <- MCTexts
    Imports <- MCImports
    Declares <- MCDeclares
    Needs <- MCNeeds
    Fault <- MCFault
    Abstract <- MCAbstract
    Unsupported <- MCUnsupported
    Given <- MCGiven
    Selections <- MCSelections
    Files <- MCFiles
    Requests <- MCRequests
    ErrorLimit = 2
    MaxCompiles = 2
    MaxCount = 2
    MaxChanges = 3
INVARIANTS
    StateMatchesData
    SuccessClean
    AnswerCurrent
    FailureExplained
CHECK_DEADLOCK FALSE
