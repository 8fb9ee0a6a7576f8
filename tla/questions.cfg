\* Two questions of two characters for one slot, with forgets, new sessions
\* and model adapters that may never return.
SPECIFICATION FairSpec
CONSTANTS
    Characters = {c1, c2}
    Generations = {g1}
    NoGeneration = none
    Questions = {q1, q2}
    NoQuestion = nothing
    Slots = 1
    MaxForgets = 1
\* Questions and forgets run out: nothing is left to do.
CHECK_DEADLOCK FALSE
INVARIANTS
    AnswersStayInConversation
    RunningHoldsSlot
PROPERTIES
    AskReturns
    SlotIsFreed
