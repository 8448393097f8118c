\* Bytes on their way into the counter when the box closes.
CONSTANTS
    t1 = t1
    t2 = t2
    u1 = u1
    big = big
    raw = raw
    c1 = c1
    c2 = c2
    k1 = k1
    k2 = k2
    NoKey = NoKey
    Keys <- OneTag
    Conns = {k1}
    Dirs = {"up"}
    MaxStorages = 1
    MaxBytes = 1
    MaxChunk = 1
    Users = {u1}
    Oversized = {}
    Clients = {c1}
    Matches <- OnlyFirst
    MaxLost = 0
SPECIFICATION Spec
INVARIANT FinalSnapshotComplete
