SPECIFICATION FairSpec
CONSTANTS
    Getters = {g1, g2}
    Posters = {p1, p2}
    NoThread = NoThread
INVARIANTS
    TypeOK
    NoLostWakeup
PROPERTIES
    ImplementsLatch
    PostTaken
