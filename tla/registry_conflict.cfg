SPECIFICATION FairSpec
CONSTANTS
    d1 = d1
    d2 = d2
    m1 = m1
    h1 = h1
    Devices = {d1, d2}
    Homes = {h1}
    Communities = {c1}
    Groups = {g1}
    Macs = {m1}
    MacOf <- MCMacOf
    HomeOf <- MCHomeOf
    Requests = {r1}
    NULL = NULL
    Absent = Absent
PROPERTY NextRegisterFills
