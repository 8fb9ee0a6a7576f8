\* Two actions of two commands each in the queue of one bridge, walks, lost
\* requests and answers, and a reconnect.
SPECIFICATION DeliverySpec
CONSTANTS
    Characters = {c1}
    Generations = {g1, g2}
    NoGeneration = none
    r1 = r1
    r2 = r2
    Rooms <- MCRooms
    NoRoom = nowhere
    Kinds = {"supervised"}
    MaxActions = 2
    MaxLifetime = 1
    Horizon = 1
    Char = c1
    Gen = g1
    Length = 2
    MaxMoves = 1
    MaxLost = 1
SYMMETRY MCSymmetry
INVARIANTS
    SentWhereConsented
    CompletionIsTruthful
    OneHolder
