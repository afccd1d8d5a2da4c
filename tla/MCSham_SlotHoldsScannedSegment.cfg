CONSTANTS
    ClientISS <- MCClientISS
    ServerISS <- MCServerISS
    DataSize <- MCDataSize
    WindowSize <- MCWindowSize
    MaxRetries <- MCMaxRetries
    FileSize <- MCFileSize
    ChannelCap <- MCChannelCap
    ChatLines <- MCChatLines
    LossSim = TRUE

SPECIFICATION Spec

INVARIANT SlotHoldsScannedSegment

CHECK_DEADLOCK FALSE
