\* Progress of billing and of shutdown, with ids that are no number or too large.
CONSTANTS
    t1 = t1
    t2 = t2
    u1 = u1
    big = big
    raw = raw
    c1 = c1
    c2 = c2
    k1 = k1
    k2 = k2
    NoKey = NoKey
    Keys <- TagBigRaw
    Conns = {k1}
    Dirs = {"up"}
    MaxStorages = 2
    MaxBytes = 1
    MaxChunk = 1
    Users = {u1, big}
    Oversized = {big}
    Clients = {c1}
    Matches <- OnlyFirst
    MaxLost = 1
SPECIFICATION FairSpec
PROPERTIES EventuallySettled ShutdownCompletes
