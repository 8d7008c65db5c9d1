SPECIFICATION FairSpec
CONSTANTS
    Versions = {v0, v1, d1}
    Seeded = {v0}
    Contents = {c1, c2}
    Uploads = {u1, u2}
    Devices = {d1}
    MaxCrashes = 2
    Missing = Missing
    Placeholder = Placeholder
    Empty = Empty
    Damaged = Damaged
INVARIANTS TypeOK CatalogueMatchesFile ReadyHasImage
PROPERTY JobSettles
CHECK_DEADLOCK FALSE
