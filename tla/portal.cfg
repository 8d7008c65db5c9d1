SPECIFICATION FairSpec
CONSTANTS
    HeaderSize = 2
    QuestionSize = 2
    AnswerSize = 3
    BufferSize = 14
    MaxLabel = 3
    Packets <- MCPackets
    NoPacket = NoPacket
    Names = {n1}
    Lengths = {1, 3}
    Limit = 1
    Networks = {w1, w2}
    Reachable = {w1}
    Nothing = Nothing
    MaxDeferred = 2
    MaxCuts = 1
INVARIANTS TypeOK RunsOnFlash StaysInBuffer AnswersExactlyAQueries
PROPERTIES RebootKeepsPromise SavedReboots RedirectorFollows
