--------------------------- MODULE SemanticRanking ---------------------------
(***************************************************************************)
(* The optional reranking of a research search: _rerank_research of        *)
(* knowledge.py, which reads the passages of its hits from the mirror, and *)
(* the one SemanticReranker of semantic.py all questions share, with its   *)
(* lock nobody waits for, its encoder that is loaded once and its bounded  *)
(* cache of vectors.  The mirror is synchronised meanwhile, the encoder    *)
(* may fail and a question may be cancelled at any moment.                 *)
(*                                                                         *)
(* A window is a piece of the text of one page in one version; the vector  *)
(* of a window is named by the window it was computed from.                *)
(***************************************************************************)
EXTENDS Naturals, Sequences, FiniteSets, SequencesExt

CONSTANTS
    Questions, Pages,
    Pieces,       \* the windows of a page
    MaxWindows,   \* _MAX_WINDOWS: of one call, cached ones included
    CacheSize,    \* _CACHE_WINDOWS
    Batch,        \* _BATCH
    MaxVersion    \* bound of the model: versions of a page

\* Assumed of the constants.
RankingConstants ==
    /\ {MaxWindows, CacheSize, Batch, MaxVersion} \subseteq Nat
    /\ MaxWindows <= CacheSize /\ Batch > 0
    /\ IsFiniteSet(Pages) /\ Pieces \in [Pages -> Nat \ {0}]
    /\ "" \notin Questions

VARIABLES
    mirror,     \* the version of a page
    hits,       \* the versions of the passages a search has found, 0 for none
    bodies,     \* the versions whose text was read for them
    at,         \* where a question stands
    holder,     \* who has _lock, "" for nobody
    encoder,    \* _encoder is loaded
    cache,      \* _cache, the least recent first
    missing, available,  \* of the call that holds the lock
    scored,     \* the vectors the scores of a question rest on
    cancelled   \* QuestionControl, of each question

vars == <<mirror, hits, bodies, at, holder, encoder, cache, missing, available, scored, cancelled>>
reranker == <<holder, encoder, cache, missing, available>>
world == <<mirror, cancelled>>
search == <<hits, bodies>>

Window == UNION {{<<p, v, i>> : v \in 1..MaxVersion, i \in 1..Pieces[p]} : p \in Pages}
WindowsOf(versions) == {w \in Window : versions[w[1]] = w[2]}
InCall == {"load", "plan", "encode"}  \* in _score
Ends == {"lexical", "ranked", "cancelled"}
NoHits == [p \in Pages |-> 0]

RankingTypeOK ==
    /\ mirror \in [Pages -> 1..MaxVersion] /\ {hits, bodies} \subseteq [Questions -> [Pages -> 0..MaxVersion]]
    /\ at \in [Questions -> {"search", "read", "score", "scored"} \cup InCall \cup Ends]
    /\ holder \in Questions \cup {""} /\ encoder \in BOOLEAN
    /\ Len(cache) <= CacheSize /\ ToSet(cache) \subseteq Window
    /\ ToSet(missing) \cup available \subseteq Window
    /\ scored \in [Questions -> SUBSET Window] /\ cancelled \subseteq Questions

Init ==
    /\ mirror = [p \in Pages |-> 1] /\ hits = [q \in Questions |-> NoHits] /\ bodies = hits
    /\ at = [q \in Questions |-> "search"]
    /\ holder = "" /\ encoder = FALSE /\ cache = <<>> /\ missing = <<>> /\ available = {}
    /\ scored = [q \in Questions |-> {}] /\ cancelled = {}

Goto(q, next) == at' = [at EXCEPT ![q] = next]

-----------------------------------------------------------------------------
(* _rerank_research                                                        *)

\* The hits come from the mirror of that moment; none of them, no reranking.
Search(q) ==
    /\ at[q] = "search"
    /\ \E found \in SUBSET Pages :
         /\ hits' = [hits EXCEPT ![q] = [p \in Pages |-> IF p \in found THEN mirror[p] ELSE 0]]
         /\ Goto(q, IF found = {} THEN "lexical" ELSE "read")
    /\ UNCHANGED <<world, bodies, reranker, scored>>

Bodies(q) == [p \in Pages |-> IF hits[q][p] = 0 THEN 0 ELSE mirror[p]]

\* Mutant of ReadBodies: the passages of the page as it is now.
ReadBodiesAsTheyAre(q) ==
    /\ at[q] = "read"
    /\ Goto(q, IF q \in cancelled THEN "cancelled" ELSE "score")
    /\ bodies' = [bodies EXCEPT ![q] = Bodies(q)]
    /\ UNCHANGED <<world, hits, reranker, scored>>

\* ranking_passage_bodies, in one transaction: every passage of the hits is
\* still the one that was found, or there is no reranking.
ReadBodies(q) ==
    /\ at[q] = "read"
    /\ Goto(q, CASE q \in cancelled -> "cancelled"
                 [] Bodies(q) = hits[q] -> "score"
                 [] OTHER -> "lexical")
    /\ bodies' = [bodies EXCEPT ![q] = Bodies(q)]
    /\ UNCHANGED <<world, hits, reranker, scored>>

-----------------------------------------------------------------------------
(* SemanticReranker                                                        *)

\* score: the lock is tried, not awaited.
Score(q) ==
    /\ at[q] = "score"
    /\ IF q \notin cancelled /\ holder = "" THEN holder' = q /\ Goto(q, "load")
       ELSE UNCHANGED holder /\ Goto(q, IF q \in cancelled THEN "cancelled" ELSE "lexical")
    /\ UNCHANGED <<world, search, encoder, cache, missing, available, scored>>

\* The finally of score, after an error, a limit or a cancellation.
Leave(q, end) ==
    /\ holder' = "" /\ Goto(q, end)
    /\ UNCHANGED <<encoder, cache, missing, available, scored>>

\* Every check() raises in a cancelled question, and the backend may fail.
Interrupted(q) ==
    /\ holder = q /\ at[q] \in InCall
    /\ \/ q \in cancelled /\ Leave(q, "cancelled")
       \/ Leave(q, "lexical")
    /\ UNCHANGED <<world, search>>

Load(q) ==
    /\ at[q] = "load" /\ (encoder \/ q \notin cancelled)
    /\ encoder' = TRUE /\ Goto(q, "plan")
    /\ UNCHANGED <<world, search, holder, cache, missing, available, scored>>

Known(windows) == windows \cap ToSet(cache)

\* The entries of a sequence that are none of the windows, in their order.
Without(entries, windows) ==
    LET kept == {i \in DOMAIN entries : entries[i] \notin windows} IN
    [k \in 1..Cardinality(kept) |->
        entries[CHOOSE i \in kept : Cardinality({j \in kept : j <= i}) = k]]

\* The windows of all passages, in the order of the hits; what the cache has
\* becomes the most recent.
Plan(q) ==
    LET windows == WindowsOf(bodies[q]) IN
    /\ at[q] = "plan" /\ q \notin cancelled /\ Cardinality(windows) <= MaxWindows
    /\ Goto(q, "encode")
    /\ available' = Known(windows)
    /\ missing' = SetToSeq(windows \ Known(windows))
    /\ cache' = Without(cache, windows) \o SetToSeq(Known(windows))
    /\ UNCHANGED <<world, search, holder, encoder, scored>>

\* Each vector enters the cache, and the least recent one leaves it.
Store(windows) ==
    LET all == cache \o windows
        excess == IF Len(all) > CacheSize THEN Len(all) - CacheSize ELSE 0
    IN SubSeq(all, excess + 1, Len(all))

Encode(q) ==
    LET n == IF Len(missing) < Batch THEN Len(missing) ELSE Batch
        batch == SubSeq(missing, 1, n)
    IN
    /\ at[q] = "encode" /\ missing # <<>> /\ q \notin cancelled
    /\ missing' = SubSeq(missing, n + 1, Len(missing))
    /\ available' = available \cup ToSet(batch)
    /\ cache' = Store(batch)
    /\ UNCHANGED <<world, search, at, holder, encoder, scored>>

\* The query is encoded, every passage scored, and the lock released.
Rank(q) ==
    /\ at[q] = "encode" /\ missing = <<>> /\ q \notin cancelled
    /\ scored' = [scored EXCEPT ![q] = available]
    /\ holder' = "" /\ Goto(q, "scored")
    /\ UNCHANGED <<world, search, encoder, cache, missing, available>>

\* rerank_semantic, after a last check.
Reorder(q) ==
    /\ at[q] = "scored" /\ Goto(q, IF q \in cancelled THEN "cancelled" ELSE "ranked")
    /\ UNCHANGED <<world, search, reranker, scored>>

-----------------------------------------------------------------------------
Cancel(q) ==
    /\ at[q] \notin Ends /\ cancelled' = cancelled \cup {q}
    /\ UNCHANGED <<mirror, search, at, reranker, scored>>

\* A synchronisation replaces a page.
Sync(p) ==
    /\ mirror[p] < MaxVersion /\ mirror' = [mirror EXCEPT ![p] = @ + 1]
    /\ UNCHANGED <<search, at, reranker, scored, cancelled>>

Next ==
    \/ \E q \in Questions :
         \/ Search(q) \/ ReadBodies(q) \/ Score(q) \/ Interrupted(q) \/ Load(q)
         \/ Plan(q) \/ Encode(q) \/ Rank(q) \/ Reorder(q) \/ Cancel(q)
    \/ \E p \in Pages : Sync(p)

Spec == Init /\ [][Next]_vars

-----------------------------------------------------------------------------
(* Properties.                                                             *)

\* An order is the lexical one or rests on all of the passages it ranks, each
\* in the very version that was found: not on a page synchronised since, not
\* on what a version before or an abandoned call left in the cache.  However
\* a call ends, the lock is free for the next one and the cache within bounds.
RankingIsWhole ==
    /\ \A q \in Questions : at[q] \in {"scored", "ranked"} => scored[q] = WindowsOf(hits[q])
    /\ \A q \in Questions : (holder = q) <=> (at[q] \in InCall)
    /\ Len(cache) <= CacheSize
=============================================================================
