\* A connection between AddUsers and the commit.
CONSTANTS
    Ids = {1, 2}
    Lists <- NoneChanges
    VlessTags = {"v"}
    Hy2Tags = {}
    NoTag = NoTag
    Conns = {1}
SPECIFICATION Spec
CHECK_DEADLOCK FALSE
INVARIANT LiveConnsHoldLimiters
