-------------------------- MODULE WorldStateWatch ---------------------------
(***************************************************************************)
(* The readers of a WorldState: whoever takes a snapshot with its cursor   *)
(* (SessionHub.snapshot, WorldStateEvidenceAdapter.register) and then      *)
(* calls watch with the cursor of the last page, as MCP and CLI clients    *)
(* and verify_controller do.  A reader keeps what it was told.             *)
(***************************************************************************)
EXTENDS WorldState

CONSTANT Readers

VARIABLE readers

watchVars == <<worldVars, readers>>

\* cursor: where it reads on; from: where it began; got: the events it was
\* given; whole: no page was marked truncated; known: the content it last
\* read; dirty: a page announced a snapshot since then.
Reader ==
    [cursor: Nat, from: Nat, got: SUBSET Nat, whole: BOOLEAN,
     known: Contents \cup {NoContent}, dirty: BOOLEAN]

WatchTypeOK == TypeOK /\ readers \in [Readers -> Reader]

Available(r) == {i \in 1..Len(events) : events[i].cursor > readers[r].cursor}

\* Mutant of Truncated: an event lost just before the page goes unnoticed.
TruncatedLate(r) == readers[r].cursor < events[1].cursor - 2

Truncated(r) == readers[r].cursor < events[1].cursor - 1

\* snapshot: content and cursor are read together.
ReadSnapshot(r) ==
    /\ content # NoContent
    /\ readers' = [readers EXCEPT ![r] =
                     [cursor |-> cursor, from |-> cursor, got |-> {}, whole |-> TRUE,
                      known |-> content, dirty |-> FALSE]]
    /\ UNCHANGED worldVars

\* Mutant of WatchPage: the page carries the reader's own cursor back.
WatchPageStays(r) ==
    /\ Available(r) # {}
    /\ readers' = [readers EXCEPT
                     ![r].got = @ \cup {events[i].cursor : i \in Available(r)},
                     ![r].whole = @ /\ ~Truncated(r),
                     ![r].dirty = @ \/ \E i \in Available(r) : events[i].kind = "snapshot"]
    /\ UNCHANGED worldVars

\* watch returns a page as soon as there is an event past the cursor.
WatchPage(r) ==
    /\ Available(r) # {}
    /\ readers' = [readers EXCEPT
                     ![r].cursor = events[Len(events)].cursor,
                     ![r].got = @ \cup {events[i].cursor : i \in Available(r)},
                     ![r].whole = @ /\ ~Truncated(r),
                     ![r].dirty = @ \/ \E i \in Available(r) : events[i].kind = "snapshot"]
    /\ UNCHANGED worldVars

\* watch gives up after its timeout and returns the current cursor.
WatchTimeout(r) ==
    /\ Available(r) = {}
    /\ readers' = [readers EXCEPT ![r].cursor = cursor]
    /\ UNCHANGED worldVars

WatchInit ==
    /\ Init
    /\ readers = [r \in Readers |->
                    [cursor |-> 0, from |-> 0, got |-> {}, whole |-> TRUE,
                     known |-> NoContent, dirty |-> FALSE]]

WatchNext ==
    \/ Next /\ UNCHANGED readers
    \/ \E r \in Readers : ReadSnapshot(r) \/ WatchPage(r) \/ WatchTimeout(r)

WatchSpec == WatchInit /\ [][WatchNext]_watchVars

\* Whoever watches is given the events that are there.
FairWatchSpec == WatchSpec /\ \A r \in Readers : WF_watchVars(WatchPage(r))

-----------------------------------------------------------------------------
(* Properties.                                                             *)

\* The ring may drop events, but never silently: a reader that was never told
\* "truncated" was given every event between its start and its cursor; and one
\* that moreover is caught up and saw no snapshot event may go on using the
\* snapshot it read: it is still the current one.
NothingIsMissed ==
    \A r \in Readers : readers[r].whole =>
        /\ readers[r].got = {n \in 1..MaxCursor : readers[r].from < n /\ n <= readers[r].cursor}
        /\ ~readers[r].dirty /\ readers[r].cursor = cursor => readers[r].known = content

\* Every reader eventually catches up with every event, or is told that some
\* were dropped.
ReaderCatchesUp ==
    \A r \in Readers, n \in 1..MaxCursor : (cursor >= n) ~> (readers[r].cursor >= n)
=============================================================================
