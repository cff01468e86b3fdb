SPECIFICATION FairSpec
CONSTANTS
    n1 = n1
    n2 = n2
    n3 = n3
    Node = {n1, n2, n3}
    Rank <- MCRank
    Factor = 2
    None = None
    MaxFaults = 1
CHECK_DEADLOCK FALSE
PROPERTIES
    FullSetConverges
