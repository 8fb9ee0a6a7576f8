------------------------------ MODULE Components ------------------------------
(***************************************************************************)
(* The components that work alone: Init chooses which of them moves, and   *)
(* that one lives in the registers.  ReconAdmission keeps its own          *)
(* variables, and its fairness.                                            *)
(***************************************************************************)
EXTENDS ReconAdmission, Sequences, FiniteSets

\* The constants of the components, which their modules explain; Questions
\* and Pages are those of two of them.
CONSTANTS
    PlainMethods, SpellMethods, Safest, Restorable,  \* ItemAudit
    Pages, MirrorRevisions,                          \* WikiMirror
    Questions, CacheTTL, Interval, LiveTime, LiveRevisions,  \* LiveWiki
    Requests, Priority, Size, Identity, Needs,       \* EvidenceLoop
    MaxBatch, MaxRequests, MaxRounds, MaxResult, MaxContext,
    DecisionTTL, Lifetime, DecisionTime, MaxSequence, MaxObservations,  \* Decisions
    Scripts, Attempts, ScriptVersions,               \* CorpusSync
    Owners, Spells, Corpses, Warning, Emergency, Persistence, ActiveLimit,  \* AlertReducer
    MaxAge, MaxEvents, MaxPrompt, Limits, Knowledge, Records,  \* ContextAssembly
    ContextTime, MaxGeneration, MaxLevel,
    Pieces, MaxWindows, CacheSize, Batch, PageVersions,  \* SemanticRanking
    MaxCalls, MaxMutations                           \* CodeExecution

VARIABLES
    component,  \* the one that moves
    r1, r2, r3, r4, r5, r6, r7, r8, r9, r10, r11, r12, r13  \* registers

registers == <<r1, r2, r3, r4, r5, r6, r7, r8, r9, r10, r11, r12, r13>>
all == <<vars, component, registers>>

Audit == INSTANCE ItemAudit WITH
    item <- r1, replaced <- r2, origin <- r3, todo <- r4, command <- r5, abandoned <- r6,
    produced <- r7, evidence <- r8, stopped <- r9, at <- r10, alert <- r11

Mirror == INSTANCE WikiMirror WITH
    MaxRevision <- MirrorRevisions,
    wiki <- r1, mirror <- r2, staging <- r3, seen <- r4, syncId <- r5, writer <- r6, search <- r7, issued <- r8

Live == INSTANCE LiveWiki WITH
    TTL <- CacheTTL, MaxTime <- LiveTime, MaxRevision <- LiveRevisions,
    now <- r1, rev <- r2, replacedAt <- r3, disk <- r4, memory <- r5, lastRequest <- r6,
    pc <- r7, found <- r8, doc <- r9, supplied <- r10

Loop == INSTANCE EvidenceLoop WITH
    at <- r1, rounds <- r2, used <- r3, finalOnly <- r4, entries <- r5, index <- r6, context <- r7,
    batch <- r8, executed <- r9, turns <- r10, cancelled <- r11, wanted <- r12, before <- r13

Decision == INSTANCE Decisions WITH
    TTL <- DecisionTTL, MaxTime <- DecisionTime,
    now <- r1, seq <- r2, sampledAt <- r3, actual <- r4, observations <- r5, record <- r6, invocation <- r7,
    at <- r8, response <- r9, held <- r10, respondedAt <- r11, status <- r12, audited <- r13

Corpus == INSTANCE CorpusSync WITH
    MaxVersion <- ScriptVersions,
    repository <- r1, disk <- r2, manifest <- r3, listed <- r4, at <- r5, payload <- r6, tries <- r7,
    records <- r8, failures <- r9, meddled <- r10

Alerts == INSTANCE AlertReducer WITH
    active <- r1, counts <- r2, seen <- r3, previous <- r4, known <- r5, stayed <- r6

Context == INSTANCE ContextAssembly WITH
    MaxTime <- ContextTime,
    now <- r1, generation <- r2, level <- r3, info <- r4, live <- r5, events <- r6, alerts <- r7,
    stored <- r8, at <- r9, prompt <- r10

Ranking == INSTANCE SemanticRanking WITH
    MaxVersion <- PageVersions,
    mirror <- r1, hits <- r2, bodies <- r3, at <- r4, holder <- r5, encoder <- r6, cache <- r7,
    missing <- r8, available <- r9, scored <- r10, cancelled <- r11

Execution == INSTANCE CodeExecution WITH
    child <- r1, calls <- r2, waiting <- r3, up <- r4, down <- r5, phase <- r6, closed <- r7,
    failure <- r8, pending <- r9, steps <- r10, hub <- r11, returned <- r12

ASSUME ComponentConstants ==
    /\ Audit!AuditConstants /\ Mirror!MirrorBounds /\ Live!LiveBounds /\ Loop!LoopLimits
    /\ Decision!DecisionBounds /\ Corpus!CorpusBounds /\ Alerts!ReducerConstants /\ Context!ContextConstants
    /\ Ranking!RankingConstants /\ Execution!ExecutionLimits

-----------------------------------------------------------------------------

\* The registers from the i-th on are not used.
Free12 == r12 = 0 /\ r13 = 0
Free11 == r11 = 0 /\ Free12
Free9 == r9 = 0 /\ r10 = 0 /\ Free11
Free7 == r7 = 0 /\ r8 = 0 /\ Free9
Free1 == r1 = 0 /\ r2 = 0 /\ r3 = 0 /\ r4 = 0 /\ r5 = 0 /\ r6 = 0 /\ Free7

ComponentsInit ==
    /\ Init
    /\ \/ component = "recon" /\ Free1
       \/ component = "audit" /\ Audit!Init /\ Free12
       \/ component = "mirror" /\ Mirror!Init /\ Free9
       \/ component = "live" /\ Live!Init /\ Free11
       \/ component = "loop" /\ Loop!Init
       \/ component = "decision" /\ Decision!Init
       \/ component = "corpus" /\ Corpus!Init /\ Free11
       \/ component = "alerts" /\ Alerts!Init /\ Free7
       \/ component = "context" /\ Context!Init /\ Free11
       \/ component = "ranking" /\ Ranking!Init /\ Free12
       \/ component = "execution" /\ Execution!Init /\ r13 = 0

ComponentsNext ==
    \/ component = "recon" /\ Next /\ UNCHANGED <<component, registers>>
    \/ /\ UNCHANGED <<vars, component>>
       /\ \/ component = "audit" /\ Audit!Next /\ UNCHANGED <<r12, r13>>
          \/ component = "mirror" /\ Mirror!Next /\ UNCHANGED <<r9, r10, r11, r12, r13>>
          \/ component = "live" /\ Live!Next /\ UNCHANGED <<r11, r12, r13>>
          \/ component = "loop" /\ Loop!Next
          \/ component = "decision" /\ Decision!Next
          \/ component = "corpus" /\ Corpus!Next /\ UNCHANGED <<r11, r12, r13>>
          \/ component = "alerts" /\ Alerts!Next /\ UNCHANGED <<r7, r8, r9, r10, r11, r12, r13>>
          \/ component = "context" /\ Context!Next /\ UNCHANGED <<r11, r12, r13>>
          \/ component = "ranking" /\ Ranking!Next /\ UNCHANGED <<r12, r13>>
          \/ component = "execution" /\ Execution!Next /\ UNCHANGED r13

ComponentsSpec ==
    /\ ComponentsInit /\ [][ComponentsNext]_all
    /\ \A t \in All : WF_all(component = "recon" /\ Cancel(t) /\ UNCHANGED <<component, registers>>)
    /\ WF_all(component = "recon" /\ Recon /\ UNCHANGED <<component, registers>>)
    /\ WF_all(component = "recon" /\ DeadlinePasses /\ UNCHANGED <<component, registers>>)

-----------------------------------------------------------------------------
(* The properties of the components, each while it is the one that moves;  *)
(* the definitions say in full what they are about.                        *)

\* ItemAudit (operations.py): an audit that ends tells where the item is.
AuditEndsTruthfully == [][component = "audit" => Audit!EndsTruthfully]_all

\* WikiMirror (gswiki.py, research.py): a search issues what belongs together.
IssuedHoldsTogether == component = "mirror" => Mirror!IssuedHoldsTogether

\* LiveWiki (knowledge.py): live text is of one revision, and of its time.
ReadsAreHonest == component = "live" => Live!ReadsAreHonest

\* EvidenceLoop (evidence_loop.py): evidence and budgets are accounted for.
EvidenceIsAccounted == component = "loop" => Loop!EvidenceIsAccounted

\* Decisions (decisions.py): a recommendation still holds when it is given.
DecisionIsFenced == component = "decision" => Decision!DecisionIsFenced

\* CorpusSync (lich_corpus.py): the manifest is true of the directory.
ManifestIsTrue == component = "corpus" => Corpus!ManifestIsTrue

\* AlertReducer (watchers.py): an alert rests on what was last known.
AlertsAreBorneOut == component = "alerts" => Alerts!AlertsAreBorneOut

\* ContextAssembly (context_assembler.py): a prompt is of one session.
PromptIsOfOneSession == component = "context" => Context!PromptIsOfOneSession

\* SemanticRanking (semantic.py): an order rests on what it ranks.
RankingIsWhole == component = "ranking" => Ranking!RankingIsWhole

\* CodeExecution (executor.ts): a report accounts for every mutation.
ReportIsComplete == component = "execution" => Execution!ReportIsComplete
=============================================================================
