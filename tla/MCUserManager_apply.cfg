\* A user comes, goes and changes beside one who stays.
CONSTANTS
    Ids = {1, 2}
    Lists <- OneChanges
    VlessTags = {"v"}
    Hy2Tags = {"h"}
    NoTag = NoTag
    Conns = {1}
SPECIFICATION Spec
CHECK_DEADLOCK FALSE
INVARIANTS TypeOK NodeIsolation StableLimiters
PROPERTY UnchangedUndisturbed
