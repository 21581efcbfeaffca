CONSTANTS
    MaxLine = 3
    MaxChunk = 4
    MaxBuffer = 7
    MaxStream = 8
SPECIFICATION EitherSpec
INVARIANTS TypeOK ResidueBounded BotRefusesHopeless
PROPERTY DeliversLines
CHECK_DEADLOCK FALSE
