------------------------------ MODULE WikiMirror ------------------------------
(***************************************************************************)
(* The local mirror of the wiki, its passage index and a search over both: *)
(* sync of gswiki.py, build_index, rebuild and the queries of              *)
(* passage_index.py, and the reads of knowledge.py and research.py that    *)
(* open the database anew for every step of one search.                    *)
(*                                                                         *)
(* A revision of a page stands for its text and for every fingerprint of   *)
(* it.  A stamp is the moment a synchronisation began, kept here as the    *)
(* revisions the wiki had then.  One writer runs at a time, which rebuild  *)
(* demands of its caller.                                                  *)
(***************************************************************************)
EXTENDS Naturals

CONSTANTS
    Pages,
    MaxRevision  \* bound on the edits of a page

\* Assumed of the constants.
MirrorBounds == MaxRevision \in Nat \ {0}

Absent == 0
Deleted == MaxRevision + 1  \* what the wiki says of a page it no longer has

VARIABLES
    wiki,     \* the revision of every page in the wiki
    mirror,   \* the published database
    staging,  \* the unpublished copy of the running writer
    seen,     \* pages with last_seen = sync_id in the copy
    syncId,   \* the stamp of the running synchronisation
    writer,   \* where the writer stands
    search,   \* the running search: its step, the hits, the documents, their stamp
    issued    \* what the last search has issued handles for

vars == <<wiki, mirror, staging, seen, syncId, writer, search, issued>>
world == <<mirror, staging, seen, syncId, writer>>
reading == <<search, issued>>

Revisions == [Pages -> 0..Deleted]
Nothing == [p \in Pages |-> Absent]

\* page: the rows of pages; doc: those of wiki_documents with their passages.
Database == [page : Revisions, doc : Revisions, complete : BOOLEAN, stamp : Revisions]

Empty == [page |-> Nothing, doc |-> Nothing, complete |-> FALSE, stamp |-> Nothing]
NoSearch == [step |-> "idle", hits |-> Nothing, loaded |-> Nothing, focused |-> {}, stamp |-> Nothing]
NoIssue == [text |-> Nothing, passages |-> Nothing, stamp |-> Nothing]

MirrorTypeOK ==
    /\ wiki \in [Pages -> 1..Deleted]
    /\ mirror \in Database /\ staging \in Database
    /\ seen \subseteq Pages /\ syncId \in Revisions
    /\ writer \in {"idle", "fetching", "indexing", "publishing"}
    /\ search.step \in {"idle", "load", "legacy"} /\ search.hits \in Revisions
    /\ search.focused \subseteq Pages /\ issued.text \in Revisions /\ issued.passages \in Revisions

-----------------------------------------------------------------------------
(* The writers.                                                            *)

\* A page that changes loses its document, and the index its completeness.
Stored(db, pages) ==
    [db EXCEPT !.page = pages,
               !.doc = [p \in Pages |-> IF pages[p] = db.page[p] THEN db.doc[p] ELSE Absent],
               !.complete = db.complete /\ pages = db.page]

\* sync begins on a copy of the mirror; its stamp is taken before any page.
SyncStart ==
    /\ writer = "idle"
    /\ writer' = "fetching" /\ staging' = mirror /\ seen' = {} /\ syncId' = wiki
    /\ UNCHANGED <<wiki, mirror, reading>>

\* _upsert_page, one batch after the other; the wiki goes on meanwhile.
Fetch(p) ==
    /\ writer = "fetching" /\ p \notin seen /\ wiki[p] # Deleted
    /\ staging' = Stored(staging, [staging.page EXCEPT ![p] = wiki[p]])
    /\ seen' = seen \cup {p}
    /\ UNCHANGED <<wiki, mirror, syncId, writer, reading>>

\* Mutant of Complete: pages that were not seen again are kept.
CompleteKeeping ==
    /\ writer = "fetching" /\ \A p \in Pages \ seen : wiki[p] = Deleted
    /\ staging' = [staging EXCEPT !.stamp = syncId]
    /\ writer' = "indexing" /\ seen' = {} /\ syncId' = Nothing
    /\ UNCHANGED <<wiki, mirror, reading>>

\* Every page the wiki has was listed: the others are deleted, and only now
\* the copy is stamped.
Complete ==
    /\ writer = "fetching" /\ \A p \in Pages \ seen : wiki[p] = Deleted
    /\ staging' = [Stored(staging, [p \in Pages |-> IF p \in seen THEN staging.page[p] ELSE Absent])
                   EXCEPT !.stamp = syncId]
    /\ writer' = "indexing" /\ seen' = {} /\ syncId' = Nothing
    /\ UNCHANGED <<wiki, mirror, reading>>

\* rebuild drops what is derived, and keeps the stamp.
RebuildStart ==
    /\ writer = "idle"
    /\ staging' = [mirror EXCEPT !.doc = Nothing, !.complete = FALSE] /\ writer' = "indexing"
    /\ UNCHANGED <<wiki, mirror, seen, syncId, reading>>

\* build_index keeps a document of the page's revision and makes the others:
\* all of them or, through the savepoint, none.
BuildIndex ==
    /\ writer = "indexing"
    /\ staging' = [staging EXCEPT !.doc = staging.page, !.complete = TRUE]
    /\ writer' = "publishing"
    /\ UNCHANGED <<wiki, mirror, seen, syncId, reading>>

WriterDone == writer' = "idle" /\ staging' = Empty /\ seen' = {} /\ syncId' = Nothing

\* os.replace: whoever has the old file open goes on with it.
Publish ==
    /\ writer = "publishing"
    /\ mirror' = staging /\ WriterDone
    /\ UNCHANGED <<wiki, reading>>

\* A request, the index or the process fails; the copy is never published.
WriterFails ==
    /\ writer # "idle"
    /\ WriterDone
    /\ UNCHANGED <<wiki, mirror, reading>>

-----------------------------------------------------------------------------
(* One search.  Each step opens the database that is published then.       *)

Issue(text, passages, stamp) ==
    /\ issued' = [text |-> text, passages |-> passages, stamp |-> stamp]
    /\ search' = NoSearch

\* query_passages and the stamp, in one connection: passages of some of the
\* indexed documents.  Without a complete index the search is a legacy one.
Query ==
    /\ search.step = "idle"
    /\ \E chosen \in SUBSET Pages \ {{}} :
         search' = [step |-> IF mirror.complete THEN "load" ELSE "legacy",
                    hits |-> [p \in Pages |-> IF p \in chosen THEN mirror.doc[p] ELSE Absent],
                    loaded |-> Nothing, focused |-> {}, stamp |-> mirror.stamp]
    /\ issued' = NoIssue
    /\ UNCHANGED <<wiki, world>>

\* The same row is found again, bound to its page, in a complete index.
SameSnapshot(p) ==
    /\ mirror.complete /\ mirror.doc[p] = mirror.page[p]
    /\ mirror.doc[p] = search.hits[p]

Wanted == {p \in Pages : search.hits[p] # Absent}

\* A snapshot that changed sends the whole search back to the pages.
Restart == search' = [search EXCEPT !.step = "legacy"]

\* _load_research_document, one candidate after the other, and
\* _register_passages, which compares the text with the hit once more.
Load(p) ==
    /\ search.step = "load" /\ p \in Wanted /\ search.loaded[p] = Absent
    /\ \A q \in Wanted : search.loaded[q] # Absent => q \in search.focused
    /\ IF SameSnapshot(p) THEN search' = [search EXCEPT !.loaded[p] = mirror.doc[p]] ELSE Restart
    /\ UNCHANGED <<wiki, world, issued>>

\* document_passages within the text just loaded.
Focus(p) ==
    /\ search.step = "load" /\ search.loaded[p] # Absent /\ p \notin search.focused
    /\ IF SameSnapshot(p) THEN search' = [search EXCEPT !.focused = @ \cup {p}] ELSE Restart
    /\ UNCHANGED <<wiki, world, issued>>

\* Handles are issued after the last candidate is prepared, none before.
IssueLoaded ==
    /\ search.step = "load" /\ search.focused = Wanted
    /\ Issue(search.loaded, search.hits, search.stamp)
    /\ UNCHANGED <<wiki, world>>

\* _search_gswiki over the pages, with the stamp of the same connection.
Legacy ==
    /\ search.step = "legacy"
    /\ Issue(mirror.page, Nothing, mirror.stamp)
    /\ UNCHANGED <<wiki, world>>

-----------------------------------------------------------------------------
Edited(p) ==
    /\ wiki[p] < Deleted
    /\ wiki' = [wiki EXCEPT ![p] = @ + 1]
    /\ UNCHANGED <<world, reading>>

Init ==
    /\ wiki = [p \in Pages |-> 1]
    /\ mirror = [page |-> wiki, doc |-> Nothing, complete |-> FALSE, stamp |-> wiki]
    /\ staging = Empty /\ seen = {} /\ syncId = Nothing /\ writer = "idle"
    /\ search = NoSearch /\ issued = NoIssue

Next ==
    \/ SyncStart \/ Complete \/ RebuildStart \/ BuildIndex \/ Publish \/ WriterFails
    \/ Query \/ IssueLoaded \/ Legacy
    \/ \E p \in Pages : Fetch(p) \/ Load(p) \/ Focus(p) \/ Edited(p)

Spec == Init /\ [][Next]_vars

-----------------------------------------------------------------------------
(* Property.                                                               *)

\* What a search issues holds together although the mirror is replaced
\* between any two of its steps: a passage is of the text it is shown in, and
\* the text is one the wiki had when the mirror, by its stamp, was made or
\* later; a page the wiki had lost by then is not there.
IssuedHoldsTogether ==
    \A p \in Pages :
      /\ issued.passages[p] \in {Absent, issued.text[p]}
      /\ issued.text[p] = Absent \/ issued.text[p] >= issued.stamp[p]
=============================================================================
