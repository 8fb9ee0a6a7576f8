---------------------------- MODULE ContextAssembly ----------------------------
(***************************************************************************)
(* The context one question is asked with: ContextAssembler.build reads    *)
(* the world state, the stored INFO observation, the events and the alerts *)
(* one after the other while snapshots go on being admitted, and render    *)
(* fits whole records into the prompt's budget.  The store is              *)
(* CharacterKnowledge, filled with every admitted snapshot.                *)
(*                                                                         *)
(* A generation is one login.  Of the categories INFO stands for both, and *)
(* a raise in level is the change that outdates it.  Sizes are in units.   *)
(***************************************************************************)
EXTENDS Naturals, Sequences, FiniteSets, SequencesExt

CONSTANTS
    MaxAge,          \* CHARACTER_DATA_MAX_AGE_SECONDS
    MaxEvents,       \* max_meaningful_events
    MaxPrompt,       \* what is left of the prompt for the sections
    Limits,          \* of each section, in their order
    Knowledge,       \* which of them is REFERENCE KNOWLEDGE
    Records,         \* the sizes of a section's records, as sequences
    MaxTime, MaxGeneration, MaxLevel  \* bounds

Frame == 2    \* header and footer of a section
Stub == 2     \* a record of which nothing but its authority is left

\* Assumed of the constants.
ContextConstants ==
    /\ MaxEvents \in Nat \ {0} /\ MaxPrompt \in Nat
    /\ Limits \in Seq(Nat) /\ Knowledge \in DOMAIN Limits
    /\ Records \subseteq Seq(Nat)

VARIABLES
    now, generation, level,
    info,      \* what the bridge has of INFO: time and level, time 0 for none
    live,      \* the last admitted snapshot: generation, info
    events,    \* the generations of the events the world state retains
    alerts,    \* the generation the reducer's active alerts are of, 0 for none
    stored,    \* the row of character_current_context
    at,        \* where build stands
    prompt     \* what it has so far

vars == <<now, generation, level, info, live, events, alerts, stored, at, prompt>>
bridge == <<generation, level, info>>
sidecar == <<live, events, alerts, stored>>

NoInfo == [at |-> 0, level |-> 0]
NoSnapshot == [generation |-> 0, info |-> NoInfo]
NoRow == [generation |-> 0, at |-> 0, level |-> 0]
NoPrompt == [state |-> NoSnapshot, asOf |-> 0, build |-> NoRow, current |-> FALSE,
             events |-> <<>>, alerts |-> 0, size |-> 0, references |-> 0]

ContextTypeOK ==
    /\ now \in 1..MaxTime /\ generation \in 1..MaxGeneration /\ level \in 1..MaxLevel
    /\ live.generation \in 0..generation /\ stored.generation \in 0..generation
    /\ alerts \in 0..generation /\ \A i \in DOMAIN events : events[i] \in 1..generation
    /\ at \in {"idle", "build", "events", "alerts", "render", "done"}

-----------------------------------------------------------------------------
(* The bridge, and the admission of its snapshots.                         *)

Tick == now < MaxTime /\ now' = now + 1 /\ UNCHANGED <<bridge, sidecar, at, prompt>>

RunInfo ==
    /\ info' = [at |-> now, level |-> level]
    /\ UNCHANGED <<now, generation, level, sidecar, at, prompt>>

LevelUp ==
    /\ level < MaxLevel /\ level' = level + 1
    /\ UNCHANGED <<now, generation, info, sidecar, at, prompt>>

\* A login, or a bridge that has only lost its cache.
Restart ==
    /\ generation' \in {g \in 1..MaxGeneration : g \in generation..(generation + 1)}
    /\ info' = NoInfo
    /\ UNCHANGED <<now, level, sidecar, at, prompt>>

\* category_freshness, for a snapshot whose own INFO tells the level.
InfoCurrent(row, snapshot) ==
    /\ row.generation = snapshot.generation /\ row.at > 0 /\ now - row.at <= MaxAge
    /\ snapshot.info # NoInfo => row.level = snapshot.info.level

Row(snapshot) == [generation |-> snapshot.generation, at |-> snapshot.info.at, level |-> snapshot.info.level]

\* CharacterKnowledge.record: a newer observation wins; the database may be
\* busy.
Recorded(snapshot) ==
    LET row == Row(snapshot) IN
    IF InfoCurrent(row, snapshot)
       /\ (row.at > stored.at \/ (row.at = stored.at /\ row.generation # stored.generation))
    THEN {row, stored} ELSE {stored}

\* A snapshot is admitted: state and events at once, the row with them.
Publish ==
    /\ live' = [generation |-> generation, info |-> info]
    /\ events' = IF Len(events) < MaxEvents + 1 THEN Append(events, generation)
                 ELSE Append(Tail(events), generation)
    /\ stored' \in Recorded(live')
    /\ UNCHANGED <<now, bridge, alerts, at, prompt>>

\* The watchers follow in a step of their own.
Watch ==
    /\ live # NoSnapshot /\ alerts # live.generation
    /\ alerts' = live.generation
    /\ UNCHANGED <<now, bridge, live, events, stored, at, prompt>>

-----------------------------------------------------------------------------
(* ContextAssembler.build                                                  *)

\* _current_state: generation, level and cursor of this moment.
ReadState ==
    /\ at = "idle" /\ at' = "build"
    /\ prompt' = [NoPrompt EXCEPT !.state = live, !.asOf = now]
    /\ UNCHANGED <<now, bridge, sidecar>>

\* _character_build: the stored row or the snapshot's own observation, the
\* current one of them first, then the snapshot's.
ReadBuild ==
    /\ at = "build" /\ at' = "events"
    /\ LET observed == IF prompt.state.info = NoInfo THEN NoRow ELSE Row(prompt.state)
           Current(row) == prompt.state # NoSnapshot /\ InfoCurrent(row, prompt.state)
           chosen == IF observed # NoRow /\ (Current(observed) \/ ~Current(stored)) THEN observed ELSE stored IN
       prompt' = [prompt EXCEPT !.build = chosen, !.current = Current(chosen), !.asOf = now]
    /\ UNCHANGED <<now, bridge, sidecar>>

\* The events of one generation, in their order.
EventsOf(g) ==
    LET upTo[n \in 0..Len(events)] ==
          IF n = 0 THEN <<>>
          ELSE IF events[n] = g THEN Append(upTo[n - 1], events[n]) ELSE upTo[n - 1]
    IN  upTo[Len(events)]

\* _meaningful_events: the page from before the snapshot's cursor, of its
\* generation only.
ReadEvents ==
    /\ at = "events" /\ at' = "alerts"
    /\ LET own == EventsOf(prompt.state.generation) IN
       prompt' = [prompt EXCEPT !.events = IF Len(own) > MaxEvents THEN Tail(own) ELSE own]
    /\ UNCHANGED <<now, bridge, sidecar>>

\* Mutant of ReadAlerts: all active alerts are taken.
ReadAllAlerts ==
    /\ at = "alerts" /\ at' = "render"
    /\ prompt' = [prompt EXCEPT !.alerts = alerts]
    /\ UNCHANGED <<now, bridge, sidecar>>

\* _alerts: those of another generation are left out where one is known.
ReadAlerts ==
    /\ at = "alerts" /\ at' = "render"
    /\ prompt' = [prompt EXCEPT !.alerts =
                    IF prompt.state.generation \in {0, alerts} THEN alerts ELSE 0]
    /\ UNCHANGED <<now, bridge, sidecar>>

-----------------------------------------------------------------------------
(* AssembledContext.render                                                 *)

\* _bounded_record: whole, or its text cut down to the room, or a stub that
\* may still be too large.
Bounded(size, room, text) == IF size <= room THEN size ELSE IF text /\ room > Stub THEN room ELSE Stub

\* _render_section: [used, lines, stopped] after the records that fit; a
\* separator goes with each, and knowledge shares what is left fairly.
Section(sizes, maximum, fair) ==
    LET upTo[i \in 0..Len(sizes)] ==
          IF i = 0 THEN [used |-> Frame, lines |-> <<>>, stopped |-> FALSE]
          ELSE LET s == upTo[i - 1]
                   room == IF maximum < s.used + 1 THEN 0
                           ELSE (maximum - s.used - 1) \div (IF fair THEN Len(sizes) - i + 1 ELSE 1)
                   line == Bounded(sizes[i], room, fair) IN
               IF s.stopped \/ s.used + line + 1 > maximum THEN [s EXCEPT !.stopped = TRUE]
               ELSE [s EXCEPT !.used = @ + line + 1, !.lines = Append(@, line)]
    IN  upTo[Len(sizes)]

Least(m, n) == IF m < n THEN m ELSE n

\* Every section in turn takes its share of what is left.
Rendered(blocks) ==
    LET upTo[i \in 0..Len(Limits)] ==
          IF i = 0 THEN [available |-> MaxPrompt, included |-> [k \in DOMAIN Limits |-> <<>>]]
          ELSE LET r == upTo[i - 1]
                   maximum == Least(Limits[i], IF r.available = 0 THEN 0 ELSE r.available - 1)
                   section == Section(blocks[i], maximum, i = Knowledge) IN
               IF maximum < Frame THEN r
               ELSE [available |-> r.available - section.used - 1,
                     included |-> [r.included EXCEPT ![i] = section.lines]]
    IN  upTo[Len(Limits)]

\* The records of the sections have any sizes; the references returned are
\* the excerpts whose text is still there.
Render ==
    /\ at = "render" /\ at' = "done"
    /\ \E blocks \in [DOMAIN Limits -> Records] :
         LET r == Rendered(blocks) IN
         prompt' = [prompt EXCEPT !.size = MaxPrompt - r.available,
                      !.references = Len(SelectSeq(r.included[Knowledge], LAMBDA line : line > Stub))]
    /\ UNCHANGED <<now, bridge, sidecar>>

Asked == at = "done" /\ at' = "idle" /\ prompt' = NoPrompt /\ UNCHANGED <<now, bridge, sidecar>>

Init ==
    /\ now = 1 /\ generation = 1 /\ level = 1 /\ info = NoInfo
    /\ live = NoSnapshot /\ events = <<>> /\ alerts = 0 /\ stored = NoRow
    /\ at = "idle" /\ prompt = NoPrompt

Next ==
    \/ Tick \/ RunInfo \/ LevelUp \/ Restart \/ Publish \/ Watch
    \/ ReadState \/ ReadBuild \/ ReadEvents \/ ReadAlerts \/ Render \/ Asked

Spec == Init /\ [][Next]_vars

-----------------------------------------------------------------------------
(* Property.                                                               *)

\* A prompt is of one session although its parts are read one after the
\* other: events and alerts are of the snapshot's generation, training that
\* is called current was observed in it, not too long ago, and at the level
\* the snapshot's own INFO tells; and it stays within its budget.
PromptIsOfOneSession ==
    at = "done" =>
        /\ prompt.state # NoSnapshot =>
             /\ \A i \in DOMAIN prompt.events : prompt.events[i] = prompt.state.generation
             /\ prompt.alerts \in {0, prompt.state.generation}
        /\ prompt.current =>
             /\ prompt.build.generation = prompt.state.generation
             /\ prompt.asOf - prompt.build.at <= MaxAge
             /\ prompt.state.info.level \in {0, prompt.build.level}
        /\ prompt.size <= MaxPrompt
=============================================================================
