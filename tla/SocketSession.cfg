SPECIFICATION FairSpec
CONSTANTS
    Capacity = 2
    MaxFrame = 3
    MaxEvents = 6
INVARIANTS
    StreamIsDecoded
PROPERTY ReaderExits
