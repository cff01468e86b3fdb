SPECIFICATION FairHealSpec
CONSTANTS
    Peer = {p1, p2}
    self = self
    SuspectAfter = 1
    DeadAfter = 2
    MaxCallbacks = 1
    Gossiped = {p1}
CHECK_DEADLOCK FALSE
INVARIANTS
    HealTypeOK
    ClassifiedBySilence
    RingResolvable
    RingTracksUnlessAstray
    LoneCallback
PROPERTIES
    DeadOnlyToAlive
    DownIsNoticed
    UpIsNoticed
    HealsUnlessAstray
