SPECIFICATION FairSpec
CONSTANTS
    Communities = {c1, c2}
    Homes = {h1}
    MsgIds = {h1, m1}
    Requests = {r1, r2}
    MaxList = 2
    MaxRows = 2
    MaxCrashes = 1
    NoCommunity = NoCommunity
INVARIANTS TypeOK PushedOnce ReferencesHold
PROPERTY SentIsPushed
