\* Two bridge sessions publish while a reader watches a ring of two events.
SPECIFICATION FairWatchSpec
CONSTANTS
    Generations = {g1, g2}
    NoGeneration = none
    Contents = {d1, d2}
    NoContent = nothing
    Readers = {u1}
    MaxSequence = 3
    MaxCursor = 5
    Capacity = 2
INVARIANTS
    GenerationsAreFenced
    NothingIsMissed
PROPERTIES
    ReaderCatchesUp
