\* The sizes of the code; ids of one, two and three bytes.
SPECIFICATION Spec
CONSTANTS
    PartyCounts <- Counts
    BodyLengths <- Bodies
    OtherLengths = {0, 1, 127, 128, 16384, 8388607, 8388608, 8388609}
    Numerals = {1, 128, 20000}
    AnswerLengths = {0, 32}
    Buffer = 8192
    PeerIdLength = 38
    MaxRequest = 8388608
    MaxResponse = 10240
INVARIANTS
    SurvivesIffFits
    RequestIntact
    ResponseIntact
