SPECIFICATION FairSpec
CONSTANTS
    self = self
    n1 = n1
    n2 = n2
    Node <- MCNode
    Version <- MCVersion
    Byte = {"x", "y", "z"}
    Sent <- MCSent
    Body <- MCBody
    Ending <- MCEnding
    ChunkSize = 2
    RankOf <- MCRankOf
    Factor = 2
    None = None
    Frail = {self, n1}
    MaxFaults = 2
INVARIANTS
    TypeOK
    OutputOfOneUpload
    SteadySourceServes
    AckedIsFound
PROPERTIES
    DownloadsEnd
