----------------------------- MODULE AlertReducer -----------------------------
(***************************************************************************)
(* The alerts of one watched character: WatcherReducer of watchers.py over *)
(* the snapshots it admits, whose fields may be unknown at any time.       *)
(*                                                                         *)
(* Of the conditions without a memory, encumbrance with its two severities *)
(* stands for all: weapon, death, stun and wounds.  There is one lane, and *)
(* owners and scripts are known together.  A field of a snapshot is the    *)
(* set of its value, or empty when it is unknown.                          *)
(***************************************************************************)
EXTENDS Naturals, Sequences, FiniteSets, SequencesExt

CONSTANTS
    Owners,      \* scripts that may own the lane
    Spells,      \* required_defensive_spell_ids
    Corpses,
    Warning, Emergency,  \* encumbrance levels
    Persistence, \* corpse_persistence_snapshots
    ActiveLimit

\* Assumed of the constants.
ReducerConstants ==
    /\ Warning \in Nat /\ Emergency \in Nat /\ 0 < Warning /\ Warning <= Emergency
    /\ Persistence \in Nat \ {0} /\ ActiveLimit \in Nat \ {0}
    /\ IsFiniteSet(Owners) /\ IsFiniteSet(Spells) /\ IsFiniteSet(Corpses)

Unknown == {}
Field(values) == {Unknown} \cup {{v} : v \in values}
NoOwner == "nobody"

Code(kind, id) == <<kind, id>>
Encumbrance == Code("encumbrance", "")
Codes == {Encumbrance} \cup {Code("spell", s) : s \in Spells} \cup {Code("script", o) : o \in Owners}
         \cup {Code("corpse", c) : c \in Corpses}

Levels == 0..Emergency
Lanes == [owner : Owners \cup {NoOwner}, running : SUBSET Owners]

VARIABLES
    active,   \* the severity of every code, "" when it is not active
    counts,   \* corpse_counts, up to Persistence
    seen,     \* seen_required_spells
    previous, \* the lane of the previous snapshot
    known,    \* what was last known of every field, and how often on end a corpse was seen
    stayed    \* corpses seen Persistence times on end and not found gone since

vars == <<active, counts, seen, previous, known, stayed>>

ReducerTypeOK ==
    /\ active \in [Codes -> {"", "warning", "critical"}]
    /\ counts \in [Corpses -> 0..Persistence]
    /\ seen \subseteq Spells /\ stayed \subseteq Corpses
    /\ previous \in Field(Lanes)
    /\ known.level \in Field(Levels) /\ known.spells \in Field(SUBSET Spells) /\ known.lane \in Field(Lanes)

-----------------------------------------------------------------------------
(* What a snapshot says of the codes: <<code, condition, severity>> in the *)
(* order of reduce.  What is unknown says nothing.                         *)

EncumbranceSays(level) ==
    SetToSeq({<<Encumbrance, n >= Warning, IF n >= Emergency THEN "critical" ELSE "warning">> : n \in level})

\* The required spells are asked for in a fixed order.
SpellsSay(spells) ==
    LET listed == SetToSeq(Spells) IN
    [i \in DOMAIN listed |-> <<Code("spell", listed[i]), listed[i] \in seen \ UNION spells, "warning">>]

\* Of scripts and corpses the codes that are gone come last.
GoneLast(says) == SetToSeq({s \in says : s[2]}) \o SetToSeq({s \in says : ~s[2]})

\* An owner is missed when it ran a snapshot ago; once missed it stays so
\* while it owns the lane and does not run.
Missed(o, lane) ==
    /\ o \notin lane.running
    /\ IF active[Code("script", o)] # ""
       THEN lane.owner = o
       ELSE /\ \E p \in previous : p.owner = o /\ o \in p.running
            /\ lane.owner \in {o, NoOwner}

ScriptsSay(field) ==
    GoneLast({<<Code("script", o), Missed(o, lane), "warning">> : o \in Owners, lane \in field})

CountUp(n) == IF n = Persistence THEN n ELSE n + 1
Counted(corpses, before) ==
    [c \in Corpses |-> IF c \in UNION corpses THEN CountUp(before[c]) ELSE 0]

\* Mutant of CountsAfter: what is unknown interrupts no count.
CountsKept(corpses) == IF corpses = Unknown THEN counts ELSE Counted(corpses, counts)

\* A gap ends the count of a corpse that is not reported yet.
CountsAfter(corpses) ==
    IF corpses = Unknown
    THEN [c \in Corpses |-> IF active[Code("corpse", c)] = "" THEN 0 ELSE counts[c]]
    ELSE Counted(corpses, counts)

CorpsesSay(corpses) ==
    GoneLast({<<Code("corpse", c), CountsAfter(corpses)[c] = Persistence, "warning">> :
                c \in IF corpses = Unknown THEN {} ELSE Corpses})

\* _set_condition: beyond the limit nothing new becomes active.
SetCondition(alerts, says) ==
    IF ~says[2] THEN [alerts EXCEPT ![says[1]] = ""]
    ELSE IF alerts[says[1]] = "" /\ Cardinality({c \in Codes : alerts[c] # ""}) >= ActiveLimit THEN alerts
    ELSE [alerts EXCEPT ![says[1]] = says[3]]

\* The conditions in their order, one after the other.
After(says) ==
    LET upTo[n \in 0..Len(says)] ==
          IF n = 0 THEN active ELSE SetCondition(upTo[n - 1], says[n])
    IN  upTo[Len(says)]

Latest(field, before) == IF field = Unknown THEN before ELSE field

\* reduce, for the next sequence number of this generation.
Reduce(level, spells, lane, corpses) ==
    /\ seen' = seen \cup UNION spells
    /\ counts' = CountsAfter(corpses)
    /\ active' = After(EncumbranceSays(level) \o (IF spells = Unknown THEN <<>> ELSE SpellsSay(spells))
                       \o ScriptsSay(lane) \o CorpsesSay(corpses))
    /\ previous' = lane
    /\ known' = [level |-> Latest(level, known.level), spells |-> Latest(spells, known.spells),
                 lane |-> Latest(lane, known.lane), streak |-> Counted(corpses, known.streak)]
    /\ stayed' = {c \in Corpses : \/ known'.streak[c] = Persistence
                                  \/ c \in stayed /\ (corpses = Unknown \/ c \in UNION corpses)}

NothingKnown == [level |-> Unknown, spells |-> Unknown, lane |-> Unknown, streak |-> [c \in Corpses |-> 0]]

\* A new generation begins with nothing.
NewGeneration ==
    /\ active' = [c \in Codes |-> ""] /\ counts' = [c \in Corpses |-> 0]
    /\ seen' = {} /\ previous' = Unknown /\ known' = NothingKnown /\ stayed' = {}

Init ==
    /\ active = [c \in Codes |-> ""] /\ counts = [c \in Corpses |-> 0]
    /\ seen = {} /\ previous = Unknown /\ known = NothingKnown /\ stayed = {}

Next ==
    \/ \E level \in Field(Levels), spells \in Field(SUBSET Spells), lane \in Field(Lanes),
          corpses \in Field(SUBSET Corpses) : Reduce(level, spells, lane, corpses)
    \/ NewGeneration

Spec == Init /\ [][Next]_vars

-----------------------------------------------------------------------------
(* Property.                                                               *)

\* Every active alert is borne out by what was last known in this
\* generation, however many snapshots knew nothing since: the level with its
\* severity, a spell that was there once and is not, a lane whose owner does
\* not run, a corpse that stayed for the required snapshots on end and was
\* not found gone.
AlertsAreBorneOut ==
    \A code \in {c \in Codes : active[c] # ""} :
        CASE code[1] = "encumbrance" -> \E n \in known.level :
                 n >= Warning /\ (active[code] = "critical" <=> n >= Emergency)
          [] code[1] = "spell" -> code[2] \in seen /\ \E there \in known.spells : code[2] \notin there
          [] code[1] = "script" -> \E lane \in known.lane :
                 lane.owner \in {code[2], NoOwner} /\ code[2] \notin lane.running
          [] OTHER -> code[2] \in stayed
=============================================================================
