----------------------------- MODULE WorldState -----------------------------
(***************************************************************************)
(* WorldState of src/src/lich_agent_bridge/world_state.py for one          *)
(* character (characters share nothing but the lock): which session        *)
(* generation is current, the snapshot sequence inside it, and the bounded *)
(* ring of meaningful events.  Every method holds the condition's lock, so *)
(* every method is one action.                                             *)
(*                                                                         *)
(* Abstracted: a snapshot is its semantic content (what _semantic_snapshot *)
(* keeps) and an event is its generation and kind.                         *)
(***************************************************************************)
EXTENDS Integers, Sequences

CONSTANTS
    Generations, NoGeneration,  \* session generations; none admitted yet
    Contents, NoContent,        \* semantic contents of snapshots; no snapshot
    MaxSequence,                \* bound: snapshot sequence numbers
    MaxCursor,                  \* bound: events of one behaviour
    Capacity                    \* _event_capacity, the ring's maxlen

ASSUME WorldConstants ==
    /\ NoGeneration \notin Generations
    /\ NoContent \notin Contents
    /\ MaxSequence \in Nat
    /\ MaxCursor \in Nat
    /\ Capacity \in Nat \ {0}

VARIABLES
    generation,  \* generation
    sequence,    \* sequence, 0 when None
    content,     \* snapshot
    retired,     \* retired_generations
    cursor,      \* cursor
    events       \* events, the ring

worldVars == <<generation, sequence, content, retired, cursor, events>>

Kinds == {"snapshot", "event"}
StoredEvent == [cursor: Nat, generation: Generations, kind: Kinds]

TypeOK ==
    /\ generation \in Generations \cup {NoGeneration}
    /\ sequence \in 0..MaxSequence
    /\ content \in Contents \cup {NoContent}
    /\ retired \subseteq Generations
    /\ cursor \in 0..MaxCursor
    /\ events \in Seq(StoredEvent)
    /\ Len(events) <= Capacity

-----------------------------------------------------------------------------
\* The snapshots publish_snapshot refuses with StateConflict (HTTP 409).
StaleGeneration(g) == g # generation /\ g \in retired
StaleSequence(g, s) == g = generation /\ s <= sequence
Conflicts(g, s) == StaleGeneration(g) \/ StaleSequence(g, s)

\* _append_event_locked: the deque drops its oldest entry when it is full.
Push(g, kind) ==
    LET stored == [cursor |-> cursor + 1, generation |-> g, kind |-> kind]
    IN events' = Append(IF Len(events) = Capacity THEN Tail(events) ELSE events, stored)

AppendEvent(g, kind) ==
    /\ cursor < MaxCursor
    /\ cursor' = cursor + 1
    /\ Push(g, kind)

\* Mutant of PublishSnapshot: the replaced generation is not remembered.
PublishForgetful(g, s, d) ==
    /\ ~Conflicts(g, s)
    /\ generation' = g
    /\ retired' = retired
    /\ sequence' = s
    /\ content' = d
    /\ IF g # generation \/ d # content
       THEN AppendEvent(g, "snapshot")
       ELSE UNCHANGED <<cursor, events>>

\* publish_snapshot: another generation replaces and retires the current one
\* and starts a sequence of its own; a semantic change is announced.
PublishSnapshot(g, s, d) ==
    /\ ~Conflicts(g, s)
    /\ generation' = g
    /\ retired' = IF generation \in {g, NoGeneration} THEN retired ELSE retired \cup {generation}
    /\ sequence' = s
    /\ content' = d
    /\ IF g # generation \/ d # content
       THEN AppendEvent(g, "snapshot")
       ELSE UNCHANGED <<cursor, events>>

\* Mutant of PublishEvent: any session may speak.
PublishEventAny(g) ==
    /\ AppendEvent(g, "event")
    /\ UNCHANGED <<generation, sequence, content, retired>>

\* publish_event: only the current generation speaks.
PublishEvent(g) ==
    /\ g = generation
    /\ AppendEvent(g, "event")
    /\ UNCHANGED <<generation, sequence, content, retired>>

Init ==
    /\ generation = NoGeneration
    /\ sequence = 0
    /\ content = NoContent
    /\ retired = {}
    /\ cursor = 0
    /\ events = <<>>

Next ==
    \E g \in Generations :
        \/ \E s \in 1..MaxSequence, d \in Contents : PublishSnapshot(g, s, d)
        \/ PublishEvent(g)

Spec == Init /\ [][Next]_worldVars

-----------------------------------------------------------------------------
(* Properties.                                                             *)

\* Once replaced, a generation cannot become active again in this process,
\* and the events of two generations never interleave.
GenerationsAreFenced ==
    /\ generation \notin retired
    /\ \A i \in 1..Len(events) :
         /\ events[i].generation \in retired \cup {generation}
         /\ \A j \in 1..i : events[j].generation # events[i].generation =>
                               events[j].generation \in retired
    /\ \A i, j, k \in 1..Len(events) :
         i < j /\ j < k /\ events[i].generation = events[k].generation =>
            events[j].generation = events[i].generation
=============================================================================
