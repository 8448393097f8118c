\* Two connections share the bucket of a user: streams, one longer than the
\* burst of 2, and packets; the rate changes, the limit is lifted, the user is
\* removed.
CONSTANTS
    Waiters = {1, 2}
    Sizes = {1, 3}
    Packets = {1, 2}
    Rates = {0, 1, 2}
    Rate0 = 1
    MinBurst = 2
    Window = 2
    MaxAge = 6
SPECIFICATION FairSpec
CHECK_DEADLOCK FALSE
INVARIANTS TypeOK RateBound
PROPERTIES ClosedCutsOff WaitReturns
