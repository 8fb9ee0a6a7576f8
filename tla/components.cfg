\* The components that work alone, one at a time, ReconAdmission with three
\* cancelling threads against the worker that admits a recon.
SPECIFICATION ComponentsSpec
CONSTANTS
    Cancellers = {caller, forget, session}
    Worker = worker
    Nobody = nobody
    PlainMethods <- MCPlainMethods
    SpellMethods <- MCSpellMethods
    Safest = {"chest"}
    Restorable = {"pack", "chest"}
    Pages = {"a", "b"}
    MirrorRevisions = 2
    Questions = {"p", "q"}
    CacheTTL = 1
    Interval = 1
    LiveTime = 3
    LiveRevisions = 3
    Requests <- MCRequests
    Priority <- MCPriority
    Size <- MCSize
    Identity <- MCIdentity
    Needs <- MCNeeds
    MaxBatch = 3
    MaxRequests = 6
    MaxRounds = 3
    MaxResult = 6
    MaxContext = 12
    DecisionTTL = 1
    Lifetime = 1
    DecisionTime = 3
    MaxSequence = 2
    MaxObservations = 3
    Scripts = {"a", "b"}
    Attempts = 2
    ScriptVersions = 2
    Owners = {"o", "p"}
    Spells = {"s"}
    Corpses = {"c"}
    Warning = 1
    Emergency = 2
    Persistence = 2
    ActiveLimit = 2
    MaxAge = 1
    MaxEvents = 1
    MaxPrompt = 9
    Limits <- MCLimits
    Knowledge = 2
    Records <- MCRecords
    ContextTime = 2
    MaxGeneration = 2
    MaxLevel = 2
    Pieces <- MCPieces
    MaxWindows = 3
    CacheSize = 3
    Batch = 2
    PageVersions = 2
    MaxCalls = 2
    MaxMutations = 2
\* Several of them end.
CHECK_DEADLOCK FALSE
INVARIANTS
    NothingOutlivesQuestion
    IssuedHoldsTogether
    ReadsAreHonest
    EvidenceIsAccounted
    
    ManifestIsTrue
    AlertsAreBorneOut
    
    RankingIsWhole
    ReportIsComplete
PROPERTIES
    
    CancelReturns
