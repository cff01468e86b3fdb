SPECIFICATION FairHealSpec
CONSTANTS
    Peer = {p1}
    self = self
    SuspectAfter = 1
    DeadAfter = 2
    MaxCallbacks = 1
    Gossiped = {}
CHECK_DEADLOCK FALSE
PROPERTIES
    UpIsReadmitted
