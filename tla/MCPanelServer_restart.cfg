\* The panel process restarts between a push and its retry.
CONSTANTS
    n1 = n1
    n2 = n2
    b1 = b1
    b2 = b2
    Agents = {"x"}
    Versions = {1}
    Nodes = {n1}
    Users = {1}
    Batches = {b1}
    Items <- OneItem
    Requests = {1, 2}
SPECIFICATION RestartSpec
INVARIANT AppliedOnce
