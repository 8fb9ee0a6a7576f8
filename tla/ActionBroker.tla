---------------------------- MODULE ActionBroker ----------------------------
(***************************************************************************)
(* The ActionBroker of src/src/lich_agent_bridge/actions.py: the complete  *)
(* lifecycle of commands that are proposed for a character, confirmed by   *)
(* the player, handed to the Lich bridge, reported on, stopped, cancelled  *)
(* and expired.  Every method takes the one broker lock, so every method   *)
(* is one action here.                                                     *)
(*                                                                         *)
(* Abstracted: the text of commands (a command is its Kind), details and   *)
(* audit records.  A proposal's ttl and operation deadline only matter     *)
(* through their minimum, so Submit chooses the resulting lifetime.        *)
(* retired is not the broker's: WorldState refuses a snapshot of a         *)
(* generation that was replaced, and LabHTTPServer.publish_snapshot admits *)
(* a generation only after WorldState did.                                 *)
(***************************************************************************)
EXTENDS Integers, FiniteSets

CONSTANTS
    Characters,    \* characters of the local sessions
    Generations,   \* session generations a bridge may announce
    NoGeneration,  \* no session was admitted yet
    Rooms,         \* rooms a bridge may report
    NoRoom,        \* a proposal that names no room
    Kinds,         \* the kinds of command proposed, a subset of AllKinds
    MaxActions,    \* bound: proposals accepted in a behaviour
    MaxLifetime,   \* bound: ticks until a pending action expires
    Horizon        \* bound: the clock stops here, no lifetime reaches past it

\* What the broker's state transitions distinguish about a command.
ManifestKinds == {"test", "control", "controlled", "refuge"}
AllKinds == {"inspection", "supervised", "travel"} \cup ManifestKinds

ASSUME BrokerConstants ==
    /\ Kinds \subseteq AllKinds
    /\ NoGeneration \notin Generations
    /\ NoRoom \notin Rooms
    /\ MaxActions \in Nat
    /\ MaxLifetime \in Nat
    /\ Horizon \in Nat

VARIABLES
    enabled,    \* _enabled: characters whose execution is on
    activeGen,  \* _active_generations
    retired,    \* WorldState's retired_generations
    actions,    \* _actions, in order of insertion
    issued,     \* how many actions were accepted
    now         \* _clock()

vars == <<enabled, activeGen, retired, actions, issued, now>>

Ids == 1..MaxActions
Time == 0..Horizon

PendingStatuses == {"confirmation_required", "queued"}
LaunchedStatuses == {"dispatched", "completed", "failed"}
RevokedStatuses == {"cancelled", "expired", "denied_stale_room"}
Completions == {"none", "succeeded", "sent_unverified", "failed"}

Action ==
    [char: Characters, gen: Generations, kind: Kinds,
     status: PendingStatuses \cup LaunchedStatuses \cup RevokedStatuses,
     confirm: BOOLEAN, notified: BOOLEAN, room: Rooms \cup {NoRoom},
     expiresAt: Nat, deadline: Nat,
     stop: BOOLEAN, return: BOOLEAN, completion: Completions]

\* An id that was not issued yet.
Unissued == [status |-> "unissued"]

TypeOK ==
    /\ enabled \subseteq Characters
    /\ activeGen \in [Characters -> Generations \cup {NoGeneration}]
    /\ retired \in [Characters -> SUBSET Generations]
    /\ issued \in 0..MaxActions
    /\ now \in Time
    /\ DOMAIN actions = Ids
    /\ \A i \in Ids : IF i <= issued THEN actions[i] \in Action
                                     ELSE actions[i] = Unissued

-----------------------------------------------------------------------------
(* Helpers.                                                                *)

Issued == {i \in Ids : i <= issued}

IsPending(a) == a.status \in PendingStatuses
IsLaunched(a) == a.status \in LaunchedStatuses

\* controller_deadline is set: a launch whose controller LAB controls.
IsControlled(a) == a.kind \in {"controlled", "refuge"}

\* Kinds whose launch carries a stop marker that the bridge keeps reading.
IsStoppable(a) == a.kind \in {"test", "control", "controlled", "refuge", "travel"}

RoomAgrees(a, r) == a.room \in {NoRoom, r}

\* Mutants of Expire: the deadline itself still counts as in time; proposals
\* that wait for confirmation are forgotten.
ExpireLate(a) == IF IsPending(a) /\ now > a.expiresAt
                 THEN [a EXCEPT !.status = "expired"] ELSE a
ExpireQueuedOnly(a) == IF a.status = "queued" /\ now >= a.expiresAt
                       THEN [a EXCEPT !.status = "expired"] ELSE a

\* _expire_locked: pending work past its expiry is no longer deliverable.
Expire(a) == IF IsPending(a) /\ now >= a.expiresAt
             THEN [a EXCEPT !.status = "expired"] ELSE a

\* What a withdrawal does: work that was handed out is left to the bridge.
Withdraw(a) == IF IsPending(a) THEN [a EXCEPT !.status = "cancelled"] ELSE a

\* Mutants of Revoke: only launched work is looked at; only pending work is.
RevokeLaunchedOnly(a) ==
    IF IsStoppable(a) /\ IsLaunched(a) THEN [a EXCEPT !.stop = TRUE] ELSE a
RevokePendingOnly(a) == Withdraw(a)

\* What a kill switch and a generation change do to one action.
Revoke(a) ==
    IF IsStoppable(a) /\ IsLaunched(a) THEN [a EXCEPT !.stop = TRUE] ELSE Withdraw(a)

ExpiredActions == [i \in Ids |-> IF i <= issued THEN Expire(actions[i]) ELSE actions[i]]

\* The policy's confirmation flag for a kind; the manifest decides for its own.
Confirmations(k) ==
    IF k \in ManifestKinds THEN BOOLEAN ELSE {k # "inspection"}

-----------------------------------------------------------------------------
(* Session control.                                                        *)

\* admit_generation, called by publish_snapshot when WorldState accepted g.
AdmitGeneration(c, g) ==
    /\ g \notin retired[c]
    /\ activeGen' = [activeGen EXCEPT ![c] = g]
    /\ retired' = [retired EXCEPT ![c] =
                     IF activeGen[c] \in {g, NoGeneration} THEN @ ELSE @ \cup {activeGen[c]}]
    /\ actions' = [i \in Ids |->
                     IF /\ i <= issued
                        /\ actions[i].char = c
                        /\ actions[i].gen # g
                        /\ activeGen[c] \notin {g, NoGeneration}
                     THEN Revoke(actions[i]) ELSE actions[i]]
    /\ UNCHANGED <<enabled, issued, now>>

\* control(enabled = TRUE)
Enable(c, g) ==
    /\ g = activeGen[c]
    /\ enabled' = enabled \cup {c}
    /\ UNCHANGED <<activeGen, retired, actions, issued, now>>

\* control(enabled = FALSE), the kill switch
Disable(c, g) ==
    /\ g = activeGen[c]
    /\ enabled' = enabled \ {c}
    /\ actions' = [i \in Ids |-> IF i <= issued /\ actions[i].char = c
                                 THEN Revoke(actions[i]) ELSE actions[i]]
    /\ UNCHANGED <<activeGen, retired, issued, now>>

-----------------------------------------------------------------------------
(* The life of one action.                                                 *)

Proposal(c, k, confirm, r, life, d) ==
    [char |-> c, gen |-> activeGen[c], kind |-> k,
     status |-> IF confirm THEN "confirmation_required" ELSE "queued",
     confirm |-> confirm, notified |-> FALSE, room |-> r,
     expiresAt |-> now + life, deadline |-> d,
     stop |-> FALSE, return |-> FALSE, completion |-> "none"]

\* submit; only a controlled launch has a controller deadline (0: none).
Submit(c, k, confirm, r, life, d) ==
    /\ issued < MaxActions
    /\ now + life <= Horizon
    /\ activeGen[c] # NoGeneration
    /\ c \in enabled
    /\ confirm \in Confirmations(k)
    /\ IF k \in {"controlled", "refuge"} THEN d > now ELSE d = 0
    /\ issued' = issued + 1
    /\ actions' = [actions EXCEPT ![issued + 1] = Proposal(c, k, confirm, r, life, d)]
    /\ UNCHANGED <<enabled, activeGen, retired, now>>

\* get, and every request that is refused after its expiry pass.
Observe ==
    /\ actions' = ExpiredActions
    /\ UNCHANGED <<enabled, activeGen, retired, issued, now>>

\* Mutant of Approve: the room of the approval is compared but not kept.
ApproveWithoutBinding(i, g, r) ==
    /\ Expire(actions[i]).status = "confirmation_required"
    /\ g = activeGen[actions[i].char]
    /\ g = actions[i].gen
    /\ actions' = [ExpiredActions EXCEPT ![i].status =
                     IF RoomAgrees(actions[i], r) THEN "queued" ELSE "denied_stale_room"]
    /\ UNCHANGED <<enabled, activeGen, retired, issued, now>>

\* approve: consent binds the action to the room it was given in.
Approve(i, g, r) ==
    /\ Expire(actions[i]).status = "confirmation_required"
    /\ g = activeGen[actions[i].char]
    /\ g = actions[i].gen
    /\ actions' = [ExpiredActions EXCEPT ![i] =
                     IF RoomAgrees(actions[i], r)
                     THEN [@ EXCEPT !.room = r, !.status = "queued"]
                     ELSE [@ EXCEPT !.status = "denied_stale_room"]]
    /\ UNCHANGED <<enabled, activeGen, retired, issued, now>>

\* What _poll_locked meets on its way through the actions of one bridge.
Addressed(i, c, g) == actions[i].char = c /\ actions[i].gen = g
Stale(i, c, g, r) ==
    /\ Addressed(i, c, g)
    /\ Expire(actions[i]).status = "queued"
    /\ ~RoomAgrees(actions[i], r)
Deliverable(i, c, g, r) ==
    /\ Addressed(i, c, g)
    /\ \/ Expire(actions[i]).status = "confirmation_required" /\ ~actions[i].notified
       \/ Expire(actions[i]).status = "queued" /\ RoomAgrees(actions[i], r)

Deny(a) == [a EXCEPT !.status = "denied_stale_room"]
\* Mutant of Deliver: asking for confirmation counts as handing out.
DeliverUnconfirmed(a) == [a EXCEPT !.status = "dispatched"]

Deliver(a) == IF a.status = "queued" THEN [a EXCEPT !.status = "dispatched"]
                                     ELSE [a EXCEPT !.notified = TRUE]

\* poll, and each turn of poll_wait: stale actions before the first
\* deliverable one are denied, and that one is handed out.
PollDelivers(c, g, r, i) ==
    /\ g = activeGen[c]
    /\ c \in enabled
    /\ Deliverable(i, c, g, r)
    /\ \A j \in Issued : j < i => ~Deliverable(j, c, g, r)
    /\ actions' = [j \in Ids |->
                     IF j = i THEN Deliver(ExpiredActions[j])
                     ELSE IF j < i /\ Stale(j, c, g, r) THEN Deny(ExpiredActions[j])
                     ELSE ExpiredActions[j]]
    /\ UNCHANGED <<enabled, activeGen, retired, issued, now>>

PollFindsNothing(c, g, r) ==
    /\ g = activeGen[c]
    /\ c \in enabled
    /\ \A j \in Issued : ~Deliverable(j, c, g, r)
    /\ actions' = [j \in Ids |-> IF j <= issued /\ Stale(j, c, g, r)
                                 THEN Deny(ExpiredActions[j]) ELSE ExpiredActions[j]]
    /\ UNCHANGED <<enabled, activeGen, retired, issued, now>>

\* Mutant of RecordResult: the outcome is stored as the status.
RecordOutcomeAsStatus(i, g, outcome) ==
    /\ g = activeGen[actions[i].char]
    /\ g = actions[i].gen
    /\ actions[i].status = "dispatched"
    /\ actions' = [actions EXCEPT ![i].status = outcome, ![i].completion = outcome]
    /\ UNCHANGED <<enabled, activeGen, retired, issued, now>>

\* record_result
RecordResult(i, g, outcome) ==
    /\ g = activeGen[actions[i].char]
    /\ g = actions[i].gen
    /\ actions[i].status = "dispatched"
    /\ actions' = [actions EXCEPT
                     ![i].status = IF outcome = "failed" THEN "failed" ELSE "completed",
                     ![i].completion = outcome]
    /\ UNCHANGED <<enabled, activeGen, retired, issued, now>>

-----------------------------------------------------------------------------
(* What the operation that owns an action may do with it.                  *)

\* cancel: pending work is withdrawn, a dispatched supervised go2 is stopped.
Cancel(i) ==
    /\ actions' = [ExpiredActions EXCEPT ![i] =
                     IF @.kind = "travel" /\ @.status = "dispatched"
                     THEN [@ EXCEPT !.stop = TRUE] ELSE Withdraw(@)]
    /\ UNCHANGED <<enabled, activeGen, retired, issued, now>>

\* request_test_stop
RequestTestStop(i) ==
    /\ actions[i].kind = "test"
    /\ actions' = [ExpiredActions EXCEPT ![i] = Revoke(@)]
    /\ UNCHANGED <<enabled, activeGen, retired, issued, now>>

\* revoke_controller_control and revoke_controller_run mark even work that
\* was never delivered.
RevokeOwned(i) ==
    /\ actions[i].kind = "control" \/ IsControlled(actions[i])
    /\ actions' = [ExpiredActions EXCEPT ![i] = [Withdraw(@) EXCEPT !.stop = TRUE]]
    /\ UNCHANGED <<enabled, activeGen, retired, issued, now>>

\* request_controller_return: end the work, keep the approved way home.
MayReturn(i) ==
    /\ actions[i].kind = "refuge"
    /\ actions[i].gen = activeGen[actions[i].char]
    /\ ~actions[i].stop
    /\ actions[i].status \in {"dispatched", "completed"}
    /\ actions[i].char \in enabled
    /\ now < actions[i].deadline

RequestReturn(i) ==
    /\ MayReturn(i)
    /\ actions' = [ExpiredActions EXCEPT ![i].return = TRUE]
    /\ UNCHANGED <<enabled, activeGen, retired, issued, now>>

Tick ==
    /\ now < Horizon
    /\ now' = now + 1
    /\ UNCHANGED <<enabled, activeGen, retired, actions, issued>>

-----------------------------------------------------------------------------
Init ==
    /\ enabled = {}
    /\ activeGen = [c \in Characters |-> NoGeneration]
    /\ retired = [c \in Characters |-> {}]
    /\ actions = [i \in Ids |-> Unissued]
    /\ issued = 0
    /\ now = 0

Next ==
    \/ \E c \in Characters, g \in Generations :
         \/ AdmitGeneration(c, g)
         \/ Enable(c, g)
         \/ Disable(c, g)
         \/ \E r \in Rooms : \/ PollFindsNothing(c, g, r)
                             \/ \E i \in Issued : PollDelivers(c, g, r, i)
    \/ \E c \in Characters, k \in Kinds, confirm \in BOOLEAN, r \in Rooms \cup {NoRoom},
          life \in 1..MaxLifetime, d \in Time : Submit(c, k, confirm, r, life, d)
    \/ \E i \in Issued :
         \/ \E g \in Generations, r \in Rooms : Approve(i, g, r)
         \/ \E g \in Generations, o \in Completions \ {"none"} : RecordResult(i, g, o)
         \/ Cancel(i)
         \/ RequestTestStop(i)
         \/ RevokeOwned(i)
         \/ RequestReturn(i)
    \/ Observe
    \/ Tick

Spec == Init /\ [][Next]_vars

\* Time passes, and whoever waits for an action keeps reading it: the worker
\* loop of operations.py calls get until the action is terminal.
FairSpec == Spec /\ WF_vars(Tick) /\ WF_vars(Observe)

-----------------------------------------------------------------------------
(* Properties.                                                             *)

\* Work the broker may still deliver belongs to a character whose execution
\* is on and to the session that is active now: the kill switch, a reconnect
\* and a return to an earlier switch position leave nothing behind.
PendingAuthorized ==
    \A i \in Issued : IsPending(actions[i]) =>
        /\ actions[i].char \in enabled
        /\ actions[i].gen = activeGen[actions[i].char]

\* Withdrawing authority reaches what was already delivered: a launch with a
\* stop marker that still reads "go on" is one whose character is enabled and
\* whose session is the active one.
LaunchedStopsWithAuthority ==
    \A i \in Issued :
        IsStoppable(actions[i]) /\ IsLaunched(actions[i]) /\ ~actions[i].stop =>
            /\ actions[i].char \in enabled
            /\ actions[i].gen = activeGen[actions[i].char]

\* A stop marker and a place in the queue exclude each other: whoever asked
\* for the stop never sees the same action start afterwards.
StoppedNotDeliverable ==
    \A i \in Issued : actions[i].stop => ~IsPending(actions[i])

\* The permission to travel home is only ever given to a refuge launch that
\* was delivered, so it can never turn a withdrawn proposal into movement.
ReturnOnlyAfterLaunch ==
    \A i \in Issued : actions[i].return =>
        /\ actions[i].kind = "refuge"
        /\ IsLaunched(actions[i])

\* Confirmation is never skipped: an action that needs it and was queued or
\* delivered is bound to a room, the one the player consented in.
ConsentBindsRoom ==
    \A i \in Issued :
        actions[i].confirm /\ actions[i].status \in {"queued"} \cup LaunchedStatuses =>
            actions[i].room # NoRoom

\* Nothing of a session that WorldState retired can be delivered.
RetiredNotDeliverable ==
    \A i \in Issued : actions[i].gen \in retired[actions[i].char] => ~IsPending(actions[i])

\* What a step may never do with an action: take back a stop, take back a
\* result, give the permission to return after a stop, or hand out an action
\* that carries a stop, is past its expiry, or was stopped by its authority.
StopIsFinal ==
    [][\A i \in Issued :
         /\ actions[i].stop => actions'[i].stop
         /\ ~actions[i].return /\ actions'[i].return => ~actions[i].stop /\ ~actions'[i].stop
         /\ actions[i].status # "dispatched" /\ actions'[i].status = "dispatched" =>
              ~actions'[i].stop /\ now < actions[i].expiresAt]_vars

\* Every pending action is resolved: sent, denied, cancelled or expired.
PendingResolves ==
    \A i \in Ids : (i <= issued /\ actions[i].status \in PendingStatuses)
                     ~> (actions[i].status \notin PendingStatuses)

-----------------------------------------------------------------------------
(* The abstract lifecycle this broker implements.                          *)

PhaseOf(a) ==
    CASE a.status = "unissued" -> "absent"
      [] a.status = "confirmation_required" -> "awaiting"
      [] a.status = "queued" -> "ready"
      [] a.status = "dispatched" -> "sent"
      [] a.status \in {"completed", "failed"} -> "reported"
      [] OTHER -> "withdrawn"

Lifecycle == INSTANCE ActionLifecycle WITH
    phase <- [i \in Ids |-> PhaseOf(actions[i])],
    stopped <- [i \in Ids |-> i <= issued /\ actions[i].stop]

\* Every behaviour of the broker is one of ActionLifecycle: consent before a
\* confirmed action is sent, at most one delivery of an action and per step,
\* no delivery after a withdrawal or a stop, results only for sent work.
ImplementsLifecycle == Lifecycle!Spec
=============================================================================
