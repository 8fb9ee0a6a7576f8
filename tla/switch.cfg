\* Every order of three commands, their workers, the action loop and one restart.
SPECIFICATION FairSpec
CONSTANTS
    MaxCommands = 3
    MaxRestarts = 1
    MaxLost = 1
INVARIANTS
    OffHolds
PROPERTIES
    RestartsAreReconciled
    RejectedBridgeStops
