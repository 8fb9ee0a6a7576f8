------------------------------- MODULE Decisions -------------------------------
(***************************************************************************)
(* One fenced decision: DecisionToolbox of decisions.py, for the player's  *)
(* frame or for the record of an incident, while the state it was asked    *)
(* about moves on and the provider takes its time.  The incident's         *)
(* observations are delivered late, twice, out of order or never; what     *)
(* they become is load_incidents and update_duplicate.                     *)
(*                                                                         *)
(* Room, targets and plan move with the sequence number of the state: it   *)
(* stands for all of a fence but the version of the incident.  One clock   *)
(* serves for both, the monotonic one and the wall's.                      *)
(***************************************************************************)
EXTENDS Naturals, FiniteSets

CONSTANTS
    TTL,                   \* decision_ttl_seconds
    Lifetime,              \* of an incident observation
    MaxTime, MaxSequence, MaxObservations  \* bounds

\* Assumed of the constants.
DecisionBounds ==
    {TTL, Lifetime, MaxTime, MaxSequence, MaxObservations} \subseteq Nat /\ Lifetime > 0

Progress == <<"detected", "safe_hold", "classified", "resolved">>

VARIABLES
    now, seq, sampledAt, \* time, the state's sequence number and observed_at
    actual,        \* how far the incident is in its controller
    observations,  \* all that was ever observed of it
    record,        \* the IncidentRecord, of version 0 for none
    invocation,    \* the DecisionInvocation
    at,            \* where _evaluate stands
    response,      \* "none", "error" or "recommendation"
    held,          \* the fence was still the current one when it arrived,
    respondedAt,   \* and the time
    status,        \* of the outcome
    audited        \* the status appended to the audit

vars == <<now, seq, sampledAt, actual, observations, record, invocation, at, response, held, respondedAt,
          status, audited>>
world == <<now, seq, sampledAt, actual, observations, record>>
answer == <<response, held, respondedAt>>

NoRecord == [version |-> 0, seq |-> 0, at |-> 0, state |-> 0]
NoInvocation == [role |-> "none", fence |-> <<0, 0>>, at |-> 0, expires |-> 0, state |-> 0,
                 usable |-> FALSE, replay |-> FALSE]

Statuses == {"none", "recommended", "rejected", "provider_error", "unsupported", "raised"}

DecisionTypeOK ==
    /\ now \in 1..MaxTime /\ seq \in 1..MaxSequence /\ sampledAt \in 1..now
    /\ actual \in DOMAIN Progress
    /\ record.version \in 0..MaxObservations /\ record.state \in 0..actual
    /\ invocation.role \in {"none", "player", "supervisor"}
    /\ at \in {"idle", "before", "asked", "expiry", "fence", "age", "audit", "done"}
    /\ response \in {"none", "error", "recommendation"} /\ held \in BOOLEAN
    /\ status \in Statuses /\ audited \in Statuses

-----------------------------------------------------------------------------
(* The incident and its record.                                            *)

\* The controller tells where the incident stands.
Observe ==
    /\ Cardinality(observations) < MaxObservations
    /\ observations' = observations \cup {[seq |-> seq, at |-> now, state |-> actual]}
    /\ UNCHANGED <<now, seq, sampledAt, actual, record, invocation, at, answer, status, audited>>

\* allowed_transitions
MayFollow(next, state) ==
    next = state \/ next = state + 1 \/ (Progress[state] = "safe_hold" /\ Progress[next] = "resolved")

Accepts(o) ==
    IF record = NoRecord
    THEN Progress[o.state] = "detected"
    ELSE o.at > record.at /\ o.seq > record.seq /\ MayFollow(o.state, record.state)

\* detected and update_duplicate: whatever is not newer is refused.
Deliver(o) ==
    /\ Accepts(o)
    /\ record' = [version |-> record.version + 1, seq |-> o.seq, at |-> o.at, state |-> o.state]
    /\ UNCHANGED <<now, seq, sampledAt, actual, observations, invocation, at, answer, status, audited>>

\* The frame's fence, or the record's with its version.
CurrentFence(role) == IF role = "player" THEN <<seq, 0>> ELSE <<record.seq, record.version>>

-----------------------------------------------------------------------------
(* DecisionInvocation and DecisionToolbox._evaluate                        *)

\* A replay evaluates what was recorded, whenever that was.  Only a shadow
\* invocation of the enabled and selected provider is usable.
Invoke(role) ==
    /\ at = "idle"
    /\ role = "supervisor" => record # NoRecord
    /\ \E usable, replay \in BOOLEAN :
         invocation' = [role |-> role, fence |-> CurrentFence(role),
                        at |-> IF role = "player" THEN sampledAt ELSE record.at,
                        expires |-> now + TTL, state |-> record.state,
                        usable |-> usable, replay |-> replay]
    /\ at' = "before"
    /\ UNCHANGED <<world, answer, status, audited>>

Finish(s) == status' = s /\ at' = "audit"

Fenced == invocation.replay \/ CurrentFence(invocation.role) = invocation.fence
Aged == ~invocation.replay /\ invocation.role = "player" /\ now - invocation.at > TTL
IncidentExpired == invocation.role = "supervisor" /\ now > invocation.at + Lifetime
NotHeld == invocation.role = "supervisor" /\ Progress[invocation.state] # "safe_hold"

\* Everything that forbids to ask the provider at all.
BeforeInference ==
    /\ at = "before"
    /\ IF ~invocation.usable THEN Finish("unsupported")
       ELSE IF now > invocation.expires \/ ~Fenced \/ Aged \/ NotHeld \/ IncidentExpired
       THEN Finish("rejected")
       ELSE at' = "asked" /\ UNCHANGED status
    /\ UNCHANGED <<world, invocation, answer, audited>>

\* The answer of the provider: it failed, it changed its request, its answer
\* is not one of the options, or it is a recommendation.
Responds ==
    /\ at = "asked"
    /\ \E r \in {"error", "recommendation"} :
         /\ response' = r
         /\ IF r = "error" THEN Finish("provider_error") ELSE at' = "expiry" /\ UNCHANGED status
    /\ held' = Fenced /\ respondedAt' = now
    /\ UNCHANGED <<world, invocation, audited>>

\* Both expiries once more.
ExpiryAfter ==
    /\ at = "expiry"
    /\ IF IncidentExpired \/ now > invocation.expires
       THEN Finish("rejected")
       ELSE at' = "fence" /\ UNCHANGED status
    /\ UNCHANGED <<world, invocation, answer, audited>>

\* Mutant of FenceAfter: the fence was compared before the inference.
FenceKept ==
    /\ at = "fence"
    /\ at' = "age" /\ UNCHANGED status
    /\ UNCHANGED <<world, invocation, answer, audited>>

\* current_fence() is read anew after the inference.
FenceAfter ==
    /\ at = "fence"
    /\ IF Fenced THEN at' = "age" /\ UNCHANGED status ELSE Finish("rejected")
    /\ UNCHANGED <<world, invocation, answer, audited>>

AgeAfter ==
    /\ at = "age"
    /\ Finish(IF Aged THEN "rejected" ELSE "recommended")
    /\ UNCHANGED <<world, invocation, answer, audited>>

\* append_decision_audit, whose failure is raised instead of an outcome.
Audit ==
    /\ at = "audit" /\ at' = "done"
    /\ \/ audited' = status /\ UNCHANGED status
       \/ status' = "raised" /\ UNCHANGED audited
    /\ UNCHANGED <<world, invocation, answer>>

\* The caller evaluates again.
Again ==
    /\ at = "done" /\ at' = "idle"
    /\ invocation' = NoInvocation
    /\ response' = "none" /\ held' = FALSE /\ respondedAt' = 0 /\ status' = "none" /\ audited' = "none"
    /\ UNCHANGED world

-----------------------------------------------------------------------------
Tick ==
    /\ now < MaxTime /\ now' = now + 1
    /\ UNCHANGED <<seq, sampledAt, actual, observations, record, invocation, at, answer, status, audited>>

\* The next state, in which the incident may have gone on.
StateMoves ==
    /\ seq < MaxSequence /\ seq' = seq + 1 /\ sampledAt' = now
    /\ actual' \in {n \in DOMAIN Progress : n \in actual..(actual + 1)}
    /\ UNCHANGED <<now, observations, record, invocation, at, answer, status, audited>>

Init ==
    /\ now = 1 /\ seq = 1 /\ sampledAt = 1 /\ actual = 1
    /\ observations = {} /\ record = NoRecord
    /\ invocation = NoInvocation /\ at = "idle"
    /\ response = "none" /\ held = FALSE /\ respondedAt = 0 /\ status = "none" /\ audited = "none"

Evaluate == BeforeInference \/ Responds \/ ExpiryAfter \/ FenceAfter \/ AgeAfter \/ Audit

Next ==
    \/ Observe \/ \E o \in observations : Deliver(o)
    \/ \E role \in {"player", "supervisor"} : Invoke(role)
    \/ Evaluate \/ Again
    \/ Tick \/ StateMoves

Spec == Init /\ [][Next]_vars

-----------------------------------------------------------------------------
(* Property.                                                               *)

\* A recommendation that is returned was audited, comes from a shadow run,
\* and was made for a state that still stood when the provider answered, in
\* time, of an observation of this moment, or of an incident in safe hold
\* that had not expired: however the state moved, and late or doubled
\* observations of the incident came in, during the inference.
DecisionIsFenced ==
    at = "done" /\ status = "recommended" =>
        /\ audited = "recommended" /\ invocation.usable
        /\ held
        /\ respondedAt <= invocation.expires
        /\ ~invocation.replay /\ invocation.role = "player" => respondedAt - invocation.at <= TTL
        /\ invocation.role = "supervisor" =>
             /\ Progress[invocation.state] = "safe_hold" /\ actual >= invocation.state
             /\ respondedAt <= invocation.at + Lifetime
=============================================================================
