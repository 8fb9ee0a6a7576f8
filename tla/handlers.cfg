\* Every capability alone, and an outing followed by another, by a travel and
\* by a recovery; one change of the game and one crash.
SPECIFICATION Spec
CONSTANTS
    Plans <- MCPlans
    MaxOperations = 2
    MaxChanges = 1
    MaxCrashes = 1
\* The plans end.
CHECK_DEADLOCK FALSE
INVARIANTS
    SuccessIsWitnessed

    
