\* Two agents with the same nodes and batch ids; a batch with two items and a bad one.
CONSTANTS
    n1 = n1
    n2 = n2
    b1 = b1
    b2 = b2
    Agents = {"x", "y"}
    Versions = {1, 2}
    Nodes = {n1, n2}
    Users = {1}
    Batches = {b1, b2}
    Items <- GoodAndBad
    Requests = {1, 2}
SPECIFICATION Spec
INVARIANTS TypeOK UsageIsBooked AckedIsBooked
