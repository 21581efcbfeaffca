CONSTANTS
    MaxLine = 4
    MaxChunk = 5
    MaxBuffer = 9
    MaxStream = 16
    MaxSend = 7
    WireCapacity = 5
    MaxMessages = 4
    Texts <- MCTexts
SPECIFICATION Spec
INVARIANT PeerNeverRefuses
PROPERTIES MessagesArrive ClosingEnds EveryMessageArrives
CHECK_DEADLOCK FALSE
