SPECIFICATION FairSpec
CONSTANTS
    s1 = s1
    p1 = p1
    site = site
    NoTask = NoTask
    NoDomain = NoDomain
    Conns = {s1, p1}
    Streams = {s1}
    Lazy = {s1}
    Duplex <- RemoteDuplex
    Types <- StrategyOf
    Domain <- ByName
    Tasks <- TasksOfAll
    Questions <- SiteQuestions
    Asks <- AsksSite
CHECK_DEADLOCK FALSE
INVARIANTS TypeOK Released HalfCloseKeepsDownload AskedOnce
PROPERTIES DialReturns CloseEndsListed
