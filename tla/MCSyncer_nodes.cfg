\* Two nodes with a panel client each and two connections: partial failures, lost
\* answers, deleted and recreated entries.
CONSTANTS
    t1 = t1
    t2 = t2
    u1 = u1
    big = big
    raw = raw
    c1 = c1
    c2 = c2
    k1 = k1
    k2 = k2
    NoKey = NoKey
    Keys <- TwoTags
    Conns = {k1, k2}
    Dirs = {"up"}
    MaxStorages = 2
    MaxBytes = 1
    MaxChunk = 1
    Users = {u1}
    Oversized = {}
    Clients = {c1, c2}
    Matches <- OwnTag
    MaxLost = 1
SPECIFICATION Spec
SYMMETRY ConnSymmetry
INVARIANTS TypeOK BilledOnce CommittedNeverAhead EveryByteAccounted
PROPERTIES ImplementsLedger QuietAfterClose
