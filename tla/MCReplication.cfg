SPECIFICATION FairSpec
CONSTANTS
    self = self
    a = a
    b = b
    c1 = c1
    c2 = c2
    Node <- MCNode
    Chunk = {c1, c2}
    NoChunk = NoChunk
    Rank <- MCRank
    Factor = 2
    Worker = {w1, w2}
    QueueSize = 1
    MaxRetries = 1
    Lossy = TRUE
    Flaky = {a, b}
    MaxJobs = 2
INVARIANTS
    TypeOK
    WorkersCoherent
    NoTargetForgotten
    DrainedUnlessCancelled
PROPERTIES
    WorkGetsDone
