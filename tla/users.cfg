SPECIFICATION FairSpec
CONSTANTS
    Ids = {root, op, rootmail}
    Addresses = {rootmail, opmail, root}
    Root = root
    Operator = op
    RootAddress = rootmail
    OperatorAddress = opmail
    Requests = {r1, r2}
    MaxTokens = 2
    MaxCrashes = 1
    Keep = Keep
    Absent = Absent
INVARIANTS TypeOK AdminRemains
PROPERTY DemotedLosesPower
CHECK_DEADLOCK FALSE
