CONSTANTS
    Lines <- ReplLines
    Home <- MCHome
    Dirs <- MCDirs
    NoDir = NoDir
    MaxDepth = 3
    MaxLog = 3
    NoCmd = NoCmd
    LogFile <- MCLogFile
    CharCode <- MCCharCode
SPECIFICATION Spec
INVARIANT TypeOK ParserMatchesGrammar ExecutorAgreesWithParser PromptShowsHome
PROPERTY HistoryRefinement RevealListsTarget
