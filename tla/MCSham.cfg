CONSTANTS
    ClientISS <- MCClientISS
    ServerISS <- MCServerISS
    DataSize <- MCDataSize
    WindowSize <- MCWindowSize
    MaxRetries <- MCMaxRetries
    FileSize <- MCFileSize
    ChannelCap <- MCChannelCap
    ChatLines <- MCChatLines
    LossSim = TRUE

SPECIFICATION FairSpec

INVARIANT TypeOK
INVARIANT StreamIntegrity
INVARIANT SuccessMeansDelivered
PROPERTY StreamRefinement
PROPERTY ClientTerminates

CHECK_DEADLOCK FALSE
