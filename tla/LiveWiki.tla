------------------------------- MODULE LiveWiki -------------------------------
(***************************************************************************)
(* Reading one wiki page through the live source: LiveGSWikiSource of      *)
(* knowledge.py with its two caches and its rate limit, shared by all      *)
(* questions, and ResearchSession.read of research.py, which refreshes a   *)
(* stale page once, at its first read, and otherwise keeps to the snapshot *)
(* it has begun to supply.                                                 *)
(*                                                                         *)
(* A revision stands for the whole text; replacedAt tells until when each  *)
(* was the current one.                                                    *)
(***************************************************************************)
EXTENDS Naturals, FiniteSets

CONSTANTS
    Questions,     \* the questions that read, each in a thread of its own
    TTL, Interval, \* cache_ttl_seconds, min_request_interval_seconds
    MaxTime, MaxRevision  \* bounds

\* Assumed of the constants.
LiveBounds == {TTL, Interval, MaxTime, MaxRevision} \subseteq Nat

NoEntry == [rev |-> 0, at |-> 0]
Never == 0  \* no request yet; the clock begins at 1

VARIABLES
    now, rev,    \* the time, and the current revision of the page
    replacedAt,  \* when a revision ceased to be current
    disk, memory,\* the cache file and _memory_cache: the entry of the page
    lastRequest, \* _last_request_at
    pc,          \* where each question stands in a read
    found,       \* what its refresh has got, with the time taken before
    doc,         \* its document
    supplied     \* the revisions whose text it was given under one handle

vars == <<now, rev, replacedAt, disk, memory, lastRequest, pc, found, doc, supplied>>
source == <<disk, memory, lastRequest>>
page == <<now, rev, replacedAt>>

Entries == [rev : 0..MaxRevision, at : 0..MaxTime]
Freshness == {"stale", "mirror_snapshot", "verified_at_retrieval", "snippet_only"}

LiveTypeOK ==
    /\ now \in 1..MaxTime /\ rev \in 1..MaxRevision /\ replacedAt \in [1..MaxRevision -> 0..MaxTime]
    /\ disk \in Entries /\ memory \in Entries /\ lastRequest \in 0..MaxTime
    /\ pc \in [Questions -> {"idle", "lookup", "requested", "answered", "refreshed"}]
    /\ found \in [Questions -> Entries]
    /\ doc \in [Questions -> [rev : 1..MaxRevision, at : 0..MaxTime, fresh : Freshness,
                              attempted : BOOLEAN, started : BOOLEAN,
                              replacement : Entries]]
    /\ supplied \in [Questions -> SUBSET (1..MaxRevision)]

Goto(q, where) == pc' = [pc EXCEPT ![q] = where]

-----------------------------------------------------------------------------
(* LiveGSWikiSource.read                                                   *)

\* _read_cache: the later of the two entries.
Cached == IF memory.at > disk.at THEN memory ELSE disk

CacheFresh == Cached # NoEntry /\ now - Cached.at <= TTL

Found(q, entry, next) == found' = [found EXCEPT ![q] = entry] /\ Goto(q, next)

\* Mutant of CacheHit: what the cache had is stamped anew.
CacheHitRestamped(q) ==
    /\ pc[q] = "lookup" /\ CacheFresh
    /\ Found(q, [Cached EXCEPT !.at = now], "refreshed")
    /\ UNCHANGED <<page, source, doc, supplied>>

\* The original time of retrieval stays with the text.
CacheHit(q) ==
    /\ pc[q] = "lookup" /\ CacheFresh
    /\ Found(q, Cached, "refreshed")
    /\ UNCHANGED <<page, source, doc, supplied>>

Limited == lastRequest # Never /\ now - lastRequest < Interval

RateLimited(q) ==
    /\ pc[q] = "lookup" /\ ~CacheFresh /\ Limited
    /\ Found(q, NoEntry, "refreshed")
    /\ UNCHANGED <<page, source, doc, supplied>>

\* The time is taken before the request, so what comes back is not older.
Requested(q) ==
    /\ pc[q] = "lookup" /\ ~CacheFresh /\ ~Limited
    /\ lastRequest' = now
    /\ Found(q, [rev |-> 0, at |-> now], "requested")
    /\ UNCHANGED <<page, disk, memory, doc, supplied>>

\* An error status, an oversized or invalid response, a page not returned.
RequestFails(q) ==
    /\ pc[q] = "requested"
    /\ Found(q, NoEntry, "refreshed")
    /\ UNCHANGED <<page, source, doc, supplied>>

Answered(q) ==
    /\ pc[q] = "requested"
    /\ Found(q, [found[q] EXCEPT !.rev = rev], "answered")
    /\ UNCHANGED <<page, source, doc, supplied>>

\* _write_cache: the entry is put over whatever another thread has written;
\* the file is replaced as a whole, or not at all.
Written(q) ==
    /\ pc[q] = "answered"
    /\ memory' = found[q]
    /\ disk' \in {disk, found[q]}
    /\ Goto(q, "refreshed")
    /\ UNCHANGED <<page, lastRequest, found, doc, supplied>>

-----------------------------------------------------------------------------
(* ResearchSession.read                                                    *)

\* What the model is given under the handle: text of one revision.
Supply(q, r, next) ==
    /\ supplied' = [supplied EXCEPT ![q] = @ \cup {r}]
    /\ Goto(q, next)

Replaced(q) == doc[q].replacement # NoEntry

NeedsRefresh(q) == doc[q].fresh = "stale" /\ ~Replaced(q) /\ ~doc[q].attempted /\ ~doc[q].started

\* A first read of a stale page; where online fallback is disabled the page
\* is read as it is.
StartRefresh(q) ==
    /\ pc[q] = "idle" /\ NeedsRefresh(q)
    /\ doc' = [doc EXCEPT ![q].attempted = TRUE]
    /\ Goto(q, "lookup")
    /\ UNCHANGED <<page, source, found, supplied>>

ReadOffline(q) ==
    /\ pc[q] = "idle" /\ NeedsRefresh(q)
    /\ doc' = [doc EXCEPT ![q].attempted = TRUE, ![q].started = TRUE]
    /\ Supply(q, doc[q].rev, "idle")
    /\ UNCHANGED <<page, source, found>>

\* Another revision becomes a document of its own, which takes over the
\* reads of this handle; the same one is verified; nothing changes nothing.
Refreshed(q) ==
    /\ pc[q] = "refreshed"
    /\ LET f == found[q] IN
       IF f = NoEntry
       THEN doc' = [doc EXCEPT ![q].started = TRUE] /\ Supply(q, doc[q].rev, "idle")
       ELSE IF f.rev # doc[q].rev
       THEN doc' = [doc EXCEPT ![q].replacement = f] /\ Supply(q, f.rev, "idle")
       ELSE /\ doc' = [doc EXCEPT ![q].fresh = "verified_at_retrieval", ![q].at = f.at, ![q].started = TRUE]
            /\ Supply(q, f.rev, "idle")
    /\ found' = [found EXCEPT ![q] = NoEntry]
    /\ UNCHANGED <<page, source>>

\* Any other read, of the page, a section or a continuation.  A cursor is
\* never carried over to a replacement, a section only when it is the same
\* one there: "revision_changed" supplies nothing.
Read(q) ==
    /\ pc[q] = "idle" /\ ~NeedsRefresh(q) /\ doc[q].fresh # "snippet_only"
    /\ IF Replaced(q)
       THEN UNCHANGED doc /\ Supply(q, doc[q].replacement.rev, "idle")
       ELSE doc' = [doc EXCEPT ![q].started = TRUE] /\ Supply(q, doc[q].rev, "idle")
    /\ UNCHANGED <<page, source, found>>

-----------------------------------------------------------------------------
Tick == now < MaxTime /\ now' = now + 1 /\ UNCHANGED <<rev, replacedAt, source, pc, found, doc, supplied>>

Edited ==
    /\ rev < MaxRevision
    /\ rev' = rev + 1 /\ replacedAt' = [replacedAt EXCEPT ![rev] = now]
    /\ UNCHANGED <<now, source, pc, found, doc, supplied>>

\* A question comes with a document of an earlier search: the mirror of
\* revision 1, fresh or stale, or a web snippet.
Opened(f) == [rev |-> 1, at |-> 0, fresh |-> f, attempted |-> FALSE, started |-> FALSE,
              replacement |-> NoEntry]

\* The sidecar restarts with the cache file, which may be unreadable.
Restart ==
    /\ memory' = NoEntry /\ disk' \in {disk, NoEntry} /\ lastRequest' = Never
    /\ pc' = [q \in Questions |-> "idle"] /\ found' = [q \in Questions |-> NoEntry]
    /\ doc' = [q \in Questions |-> Opened("stale")] /\ supplied' = [q \in Questions |-> {}]
    /\ UNCHANGED page

Init ==
    /\ now = 1 /\ rev = 1 /\ replacedAt = [r \in 1..MaxRevision |-> 0]
    /\ disk = NoEntry /\ memory = NoEntry /\ lastRequest = Never
    /\ pc = [q \in Questions |-> "idle"] /\ found = [q \in Questions |-> NoEntry]
    /\ doc \in [Questions -> {Opened(f) : f \in Freshness \ {"verified_at_retrieval"}}]
    /\ supplied = [q \in Questions |-> {}]

Next ==
    \/ \E q \in Questions :
         \/ CacheHit(q) \/ RateLimited(q) \/ Requested(q) \/ RequestFails(q) \/ Answered(q) \/ Written(q)
         \/ StartRefresh(q) \/ ReadOffline(q) \/ Refreshed(q) \/ Read(q)
    \/ Tick \/ Edited \/ Restart

Spec == Init /\ [][Next]_vars

-----------------------------------------------------------------------------
(* Properties.                                                             *)

HonestAt(r, at) == r = rev \/ replacedAt[r] >= at

\* What a question reads of a live page is what it says it is.  A handle never
\* mixes versions: first pages, sections and continuations, before or after
\* the page changed in the wiki or in the cache, are text of one revision.
\* And "verified at retrieval" is true of the time it names: the revision was
\* the wiki's at that time or later, through both caches, the races of their
\* writers and restarts.
ReadsAreHonest ==
    \A q \in Questions :
      /\ Cardinality(supplied[q]) <= 1
      /\ doc[q].fresh = "verified_at_retrieval" => HonestAt(doc[q].rev, doc[q].at)
      /\ Replaced(q) => HonestAt(doc[q].replacement.rev, doc[q].replacement.at)
=============================================================================
