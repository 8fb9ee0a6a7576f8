SPECIFICATION PublicationSpec
CONSTANTS
    g1 = g1
    g2 = g2
    t1 = t1
    t2 = t2
    calm = calm
    alarm = alarm
    NoGeneration = NoGeneration
    NoContent = NoContent
    Generations <- MCOneGeneration
    Threads <- MCThreads
    Contents <- MCContents
    Alarming <- MCAlarming
    MaxSequence = 2
    MaxCursor = 8
    Capacity = 1
INVARIANTS
    RejectedMeansReplaced
