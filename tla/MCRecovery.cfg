SPECIFICATION FairRecSpec
CONSTANTS
    self = self
    a = a
    d = d
    c1 = c1
    c2 = c2
    h1 = h1
    Node <- MCNode
    Chunk = {c1, c2}
    NoChunk = NoChunk
    Rank <- MCRank
    Factor = 2
    Worker = {w1}
    QueueSize = 1
    MaxRetries = 0
    Lossy = FALSE
    Flaky = {a}
    MaxJobs = 0
    Handler = {h1}
    Blob <- MCBlob
    Received = {c1}
    DiskFaults = TRUE
    MaxDeaths = 2
    MaxRevivals = 1
INVARIANTS
    RecTypeOK
    RepairHasNoHole
PROPERTY
    RepairRestores
