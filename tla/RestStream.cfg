SPECIFICATION FairSpec
CONSTANTS
    Capacity = 1
    MaxLines = 3
    Payloads <- MCPayloads
INVARIANTS
    StreamIsBody
    CompleteOrError
PROPERTIES
    OnlyFullChannelHolds
    ReadReturnsAfterClose
