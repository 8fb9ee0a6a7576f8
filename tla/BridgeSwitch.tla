----------------------------- MODULE BridgeSwitch -----------------------------
(***************************************************************************)
(* The local action switch of one Lich bridge, src/lich/lab-bridge.lic.    *)
(* @actions_enabled is written without a lock by the game's command thread *)
(* (handle_command), by one worker thread for every set_actions, by the    *)
(* publisher when its generation is rejected and by execute_action when it *)
(* refuses a command.  The sidecar keeps its own copy of the switch in     *)
(* memory and loses it in a restart; the action loop registers it again.   *)
(*                                                                         *)
(* Request 0 is the set_actions(true) of the start of the script, which    *)
(* the action thread runs before its loop.                                 *)
(***************************************************************************)
EXTENDS Integers

CONSTANTS
    MaxCommands,   \* bound: `actions on` and `actions off` commands typed
    MaxRestarts,   \* bound: restarts of the sidecar
    MaxLost        \* bound: requests and answers that time out

ASSUME SwitchConstants ==
    /\ MaxCommands \in Nat
    /\ MaxRestarts \in Nat
    /\ MaxLost \in Nat

VARIABLES
    local,       \* @actions_enabled
    auto,        \* @auto_approve
    rejected,    \* @snapshot_generation_rejected
    requests,    \* the calls of set_actions, by number
    loop,        \* where the action thread stands
    due,         \* ACTION_REGISTRATION_INTERVAL passed since the last registration
    known,       \* the sidecar admitted this bridge's generation
    authorized,  \* the sidecar's _enabled holds this character
    restarts,    \* restarts so far
    lost,        \* requests and answers lost so far
    lastSwitch,  \* history: the last explicit decision about the switch
    raced,       \* history: an ON was outstanding when it was switched off
    delegated    \* history: the player's last word on automatic approval

bridge == <<local, auto, rejected, requests, loop, due>>
sidecar == <<known, authorized>>
budgets == <<restarts, lost>>
history == <<lastSwitch, raced, delegated>>
vars == <<bridge, sidecar, budgets, history>>

RequestIds == 0..MaxCommands
RequestStates == {"unused", "queued", "posted", "answered", "done"}
LoopStates == {"starting", "top", "reconciling", "registering", "registered", "polling", "executing", "stopped"}

SwitchTypeOK ==
    /\ local \in BOOLEAN /\ auto \in BOOLEAN /\ rejected \in BOOLEAN /\ due \in BOOLEAN
    /\ requests \in [RequestIds -> [want: BOOLEAN, at: RequestStates]]
    /\ loop \in LoopStates
    /\ known \in BOOLEAN /\ authorized \in BOOLEAN
    /\ authorized => known
    /\ restarts \in 0..MaxRestarts /\ lost \in 0..MaxLost
    /\ lastSwitch \in {"on", "off"} /\ raced \in BOOLEAN /\ delegated \in BOOLEAN

\* A set_actions(TRUE) that may still engage the switch.
OnOutstanding ==
    \E q \in RequestIds : /\ requests[q].want
                          /\ requests[q].at \in {"queued", "posted", "answered"}

SwitchedOff == lastSwitch' = "off" /\ raced' = OnOutstanding

Ended(q) == [requests EXCEPT ![q].at = "done"]

-----------------------------------------------------------------------------
(* The command thread: handle_command.                                     *)

Enqueue(want) ==
    \E q \in RequestIds :
        /\ requests[q].at = "unused"
        /\ \A p \in RequestIds : p < q => requests[p].at # "unused"
        /\ requests' = [requests EXCEPT ![q] = [want |-> want, at |-> "queued"]]

\* `actions on` only queues a worker.
ActionsOn ==
    /\ Enqueue(TRUE)
    /\ lastSwitch' = "on"
    /\ raced' = FALSE
    /\ UNCHANGED <<local, auto, rejected, loop, due, sidecar, budgets, delegated>>

\* `actions off` takes effect at once and queues a worker as well.
ActionsOff ==
    /\ Enqueue(FALSE)
    /\ local' = FALSE
    /\ auto' = FALSE
    /\ SwitchedOff
    /\ delegated' = FALSE
    /\ UNCHANGED <<rejected, loop, due, sidecar, budgets>>

\* `approve auto` and `approve auto off`
ApproveAuto(on) ==
    /\ auto' = on
    /\ delegated' = on
    /\ UNCHANGED <<local, rejected, requests, loop, due, sidecar, budgets, lastSwitch, raced>>

-----------------------------------------------------------------------------
(* A worker: set_actions(want).                                            *)

\* A generation that was rejected is not registered again.
SetActionsRefused(q) ==
    /\ requests[q].at = "queued"
    /\ rejected
    /\ local' = FALSE
    /\ requests' = Ended(q)
    /\ UNCHANGED <<auto, rejected, loop, due, sidecar, budgets, history>>

\* The desired state is set locally before the sidecar is told.
SetActionsPosts(q) ==
    /\ requests[q].at = "queued"
    /\ ~rejected
    /\ local' = requests[q].want
    /\ auto' = (auto /\ requests[q].want)
    /\ requests' = [requests EXCEPT ![q].at = "posted"]
    /\ UNCHANGED <<rejected, loop, due, sidecar, budgets, history>>

\* ActionBroker.control: accepted for the active generation only.
ControlHandled(q) ==
    /\ requests[q].at = "posted"
    /\ known
    /\ authorized' = requests[q].want
    /\ requests' = [requests EXCEPT ![q].at = "answered"]
    /\ UNCHANGED <<local, auto, rejected, loop, due, known, budgets, history>>

ControlRefused(q) ==
    /\ requests[q].at = "posted"
    /\ ~known
    /\ requests' = Ended(q)
    /\ UNCHANGED <<local, auto, rejected, loop, due, sidecar, budgets, history>>

\* The request, or the answer to it, does not arrive in time.
ControlLost(q) ==
    /\ requests[q].at \in {"posted", "answered"}
    /\ lost < MaxLost
    /\ lost' = lost + 1
    /\ requests' = Ended(q)
    /\ UNCHANGED <<local, auto, rejected, loop, due, sidecar, restarts, history>>

\* The answer is adopted whatever was decided meanwhile.
ControlAdopted(q) ==
    /\ requests[q].at = "answered"
    /\ local' = requests[q].want
    /\ due' = (due /\ ~requests[q].want)
    /\ requests' = Ended(q)
    /\ UNCHANGED <<auto, rejected, loop, sidecar, budgets, history>>

-----------------------------------------------------------------------------
(* The action thread.                                                      *)

LoopStarts ==
    /\ loop = "starting"
    /\ requests[0].at = "done"
    /\ loop' = "top"
    /\ UNCHANGED <<local, auto, rejected, requests, due, sidecar, budgets, history>>

\* Mutant of LoopStops: only a bridge whose actions are off gives up.
LoopStopsWhenOff ==
    /\ loop = "top"
    /\ rejected
    /\ ~local
    /\ loop' = "stopped"
    /\ UNCHANGED <<local, auto, rejected, requests, due, sidecar, budgets, history>>

LoopStops ==
    /\ loop = "top"
    /\ rejected
    /\ loop' = "stopped"
    /\ UNCHANGED <<local, auto, rejected, requests, due, sidecar, budgets, history>>

RegistrationDue ==
    /\ ~due
    /\ due' = TRUE
    /\ UNCHANGED <<local, auto, rejected, requests, loop, sidecar, budgets, history>>

LoopGoesOn ==
    /\ loop = "top"
    /\ ~rejected
    /\ local
    /\ loop' = "reconciling"
    /\ UNCHANGED <<local, auto, rejected, requests, due, sidecar, budgets, history>>

\* Mutant of Reconcile: the interval is never found to have passed.
ReconcileNever ==
    /\ loop = "reconciling" /\ ~rejected
    /\ loop' = "polling"
    /\ UNCHANGED <<local, auto, rejected, requests, due, sidecar, budgets, history>>

\* reconcile_action_registration: the switch and the rejection are read anew,
\* and without a registration to make the loop goes on to its poll.
Reconcile ==
    /\ loop = "reconciling"
    /\ loop' = IF local /\ ~rejected /\ due THEN "registering" ELSE "polling"
    /\ due' = (due /\ (~local \/ rejected))
    /\ local' = (local /\ ~rejected)
    /\ UNCHANGED <<auto, rejected, requests, sidecar, budgets, history>>

RegistrationHandled ==
    /\ loop = "registering"
    /\ loop' = "registered"
    /\ authorized' = known
    /\ UNCHANGED <<local, auto, rejected, requests, due, known, budgets, history>>

RegistrationLost ==
    /\ loop = "registering"
    /\ lost < MaxLost
    /\ lost' = lost + 1
    /\ loop' = "polling"
    /\ UNCHANGED <<local, auto, rejected, requests, due, sidecar, restarts, history>>

\* Mutant of Registered: the answer engages the local switch.
RegisteredAdopted ==
    /\ loop = "registered"
    /\ loop' = "polling"
    /\ local' = authorized
    /\ UNCHANGED <<auto, rejected, requests, due, sidecar, budgets, history>>

\* The answer is ignored: only set_actions may engage the local switch.
Registered ==
    /\ loop = "registered"
    /\ loop' = "polling"
    /\ UNCHANGED <<local, auto, rejected, requests, due, sidecar, budgets, history>>

\* The long poll ends with nothing, with an error, or with work.
PollEnds ==
    /\ loop = "polling"
    /\ \/ loop' = "top"
       \/ loop' = "executing" /\ authorized
    /\ UNCHANGED <<local, auto, rejected, requests, due, sidecar, budgets, history>>

ExecutionEnds ==
    /\ loop = "executing"
    /\ loop' = "top"
    /\ UNCHANGED <<local, auto, rejected, requests, due, sidecar, budgets, history>>

\* execute_action refuses what its own allowlist does not know.
KillSwitch ==
    /\ loop = "executing"
    /\ local
    /\ loop' = "top"
    /\ local' = FALSE
    /\ SwitchedOff
    /\ UNCHANGED <<auto, rejected, requests, due, sidecar, budgets, delegated>>

-----------------------------------------------------------------------------
(* The publisher and the sidecar.                                          *)

\* publish_snapshot accepted: the broker admits the generation.
SnapshotAccepted ==
    /\ ~rejected
    /\ ~known
    /\ known' = TRUE
    /\ UNCHANGED <<bridge, authorized, budgets, history>>

\* publish_snapshot answered with 409: the sidecar serves a newer generation.
SnapshotRejected ==
    /\ ~rejected
    /\ rejected' = TRUE
    /\ local' = FALSE
    /\ SwitchedOff
    /\ known' = FALSE
    /\ authorized' = FALSE
    /\ UNCHANGED <<auto, requests, loop, due, budgets, delegated>>

\* The broker keeps authorization and generations in memory only.
SidecarRestarts ==
    /\ restarts < MaxRestarts
    /\ restarts' = restarts + 1
    /\ known' = FALSE
    /\ authorized' = FALSE
    /\ UNCHANGED <<bridge, lost, history>>

-----------------------------------------------------------------------------
Init ==
    /\ local = TRUE /\ auto = TRUE /\ rejected = FALSE
    /\ requests = [q \in RequestIds |->
                     [want |-> q = 0, at |-> IF q = 0 THEN "queued" ELSE "unused"]]
    /\ loop = "starting" /\ due = TRUE
    /\ known = FALSE /\ authorized = FALSE
    /\ restarts = 0 /\ lost = 0
    /\ lastSwitch = "on" /\ raced = FALSE /\ delegated = TRUE

Worker(q) ==
    \/ SetActionsRefused(q) \/ SetActionsPosts(q)
    \/ ControlHandled(q) \/ ControlRefused(q) \/ ControlAdopted(q)

ActionThread ==
    \/ LoopStarts \/ LoopStops \/ LoopGoesOn \/ Reconcile
    \/ RegistrationHandled \/ Registered \/ PollEnds \/ ExecutionEnds

Next ==
    \/ ActionsOn \/ ActionsOff
    \/ \E on \in BOOLEAN : ApproveAuto(on)
    \/ \E q \in RequestIds : Worker(q) \/ ControlLost(q)
    \/ ActionThread \/ RegistrationLost \/ RegistrationDue \/ KillSwitch
    \/ SnapshotAccepted \/ SnapshotRejected \/ SidecarRestarts

Spec == Init /\ [][Next]_vars

\* Threads are scheduled, calls time out, the clock runs and the publisher
\* sends a heartbeat; the player, losses and restarts promise nothing.
FairSpec ==
    /\ Spec
    /\ \A q \in RequestIds : WF_vars(Worker(q))
    /\ WF_vars(ActionThread)
    /\ WF_vars(RegistrationDue)
    /\ WF_vars(SnapshotAccepted)

-----------------------------------------------------------------------------
(* Properties.                                                             *)

\* Off is off: once the player, the local allowlist or a rejected generation
\* switched actions off with no ON under way, nothing but a new `on` switches
\* them on again: no answer to an older request, no registration of the
\* action loop, no restart of the sidecar.  Off also ends the standing
\* delegation, and on does not restore it: only `approve auto` does.
OffHolds ==
    /\ lastSwitch = "off" /\ ~raced => ~local
    /\ auto => delegated

\* While the local switch stays on, the sidecar is authorized again after
\* every restart, without the player doing anything.
RestartsAreReconciled ==
    <>[](local /\ ~rejected) => []<>authorized

\* A bridge whose generation was replaced stops polling for work, even when
\* a late answer switches its actions on again.
RejectedBridgeStops == rejected ~> (loop = "stopped")

\* What the comments of set_actions and reconcile_action_registration say of
\* the local switch: an OFF request remains off locally, and only an explicit
\* command engages the switch.
OffStaysOff == lastSwitch = "off" => ~local
=============================================================================
