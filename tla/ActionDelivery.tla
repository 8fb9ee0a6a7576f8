---------------------------- MODULE ActionDelivery ----------------------------
(***************************************************************************)
(* The action loop of one Lich bridge (src/lich/lab-bridge.lic) against    *)
(* the ActionBroker of the sidecar: long polls, approvals, the execution   *)
(* of a sequence of commands and its report, over requests whose answers   *)
(* may be lost, while the character walks and the player uses the switch.  *)
(*                                                                         *)
(* The room is read when a request is built, not when the sidecar handles  *)
(* it.  What the bridge holds of an action is its payload; the fields the  *)
(* bridge reads (room, expiry) no longer change once it was handed out, so *)
(* they are read from actions[held].  A check and the send that follows it *)
(* are one step.  Every action is a sequence of Length commands.           *)
(***************************************************************************)
EXTENDS ActionBroker

CONSTANTS
    Char, Gen,    \* the character and the session generation of this bridge
    Length,       \* commands of a sequence
    MaxMoves,     \* bound: times the character walks into another room
    MaxLost       \* bound: answers and reports that are lost

ASSUME DeliveryConstants ==
    /\ Char \in Characters
    /\ Gen \in Generations
    /\ Length \in Nat \ {0}
    /\ MaxMoves \in Nat
    /\ MaxLost \in Nat

VARIABLES
    room,       \* where the character is
    local,      \* @actions_enabled
    phase,      \* what the action thread does
    pollRoom,   \* the room in the poll that waits
    held,       \* the action the action thread works on
    outcome,    \* the outcome it is about to report
    approvals,  \* requests to approve that the sidecar has not handled
    noticed,    \* @pending_approval_id
    sent,       \* per action: how many commands went to the game
    sentIn,     \* history, per action: the rooms they were sent in
    moves,      \* moves so far
    lost        \* answers lost so far

loop == <<phase, pollRoom, held, outcome>>
effects == <<sent, sentIn>>
approving == <<approvals, noticed>>
bridge == <<room, local, loop, approving, effects, moves, lost>>
dvars == <<vars, bridge>>

None == 0
Executing == {"ordered", "running", "reporting"}
Phases == {"idle", "waiting", "asked", "approving"} \cup Executing
Approval == [id: Ids, room: Rooms, auto: BOOLEAN]

DeliveryTypeOK ==
    /\ TypeOK
    /\ room \in Rooms /\ local \in BOOLEAN
    /\ phase \in Phases /\ pollRoom \in Rooms
    /\ held \in Ids \cup {None}
    /\ phase \in {"asked", "approving"} \cup Executing <=> held # None
    /\ outcome \in Completions
    /\ approvals \subseteq Approval /\ noticed \in Ids \cup {None}
    /\ sent \in [Ids -> 0..Length] /\ sentIn \in [Ids -> SUBSET Rooms]
    /\ moves \in 0..MaxMoves /\ lost \in 0..MaxLost

-----------------------------------------------------------------------------
(* The world around the bridge.                                            *)

Walk ==
    /\ moves < MaxMoves
    /\ moves' = moves + 1
    /\ room' \in Rooms \ {room}
    /\ UNCHANGED <<vars, local, loop, approving, effects, lost>>

\* The switch, with the notice to the sidecar handled or not (see BridgeSwitch).
SwitchLocal(on) ==
    /\ local' = on
    /\ noticed' = IF on THEN noticed ELSE None
    /\ UNCHANGED <<vars, room, loop, approvals, effects, moves, lost>>

\* What the rest of the sidecar does with the broker meanwhile.
BrokerStep ==
    /\ \/ \E g \in Generations : AdmitGeneration(Char, g) \/ Enable(Char, g) \/ Disable(Char, g)
       \/ \E k \in Kinds, confirm \in BOOLEAN, r \in Rooms \cup {NoRoom}, life \in 1..MaxLifetime :
            Submit(Char, k, confirm, r, life, 0)
       \/ \E i \in Issued : Cancel(i)
       \/ Tick
    /\ UNCHANGED bridge

-----------------------------------------------------------------------------
(* action_loop: the poll.                                                  *)

SendPoll ==
    /\ phase = "idle"
    /\ local
    /\ phase' = "waiting"
    /\ pollRoom' = room
    /\ UNCHANGED <<vars, room, local, held, outcome, approving, effects, moves, lost>>

PollAnswered ==
    /\ phase = "waiting"
    /\ \E i \in Issued :
         /\ PollDelivers(Char, Gen, pollRoom, i)
         /\ held' = i
         /\ phase' = IF actions[i].status = "queued" THEN "ordered" ELSE "asked"
    /\ UNCHANGED <<room, local, pollRoom, outcome, approving, effects, moves, lost>>

\* A turn of the long poll, its timeout, and a poll the broker refuses.
PollContinues ==
    /\ phase = "waiting"
    /\ PollFindsNothing(Char, Gen, pollRoom)
    /\ UNCHANGED bridge

PollEnds ==
    /\ phase = "waiting"
    /\ IF Gen = activeGen[Char] /\ Char \in enabled
       THEN PollFindsNothing(Char, Gen, pollRoom) ELSE Observe
    /\ phase' = "idle"
    /\ UNCHANGED <<room, local, pollRoom, held, outcome, approving, effects, moves, lost>>

\* The sidecar answered, the bridge does not see it.
AnswerLost ==
    /\ phase \in {"asked", "ordered"}
    /\ lost < MaxLost
    /\ lost' = lost + 1
    /\ phase' = "idle"
    /\ held' = None
    /\ UNCHANGED <<vars, room, local, pollRoom, outcome, approving, effects, moves>>

-----------------------------------------------------------------------------
(* Approval.                                                               *)

\* The player is shown the action; with automatic approval the loop approves
\* at once and waits for the answer.
Notice(auto) ==
    /\ phase = "asked"
    /\ noticed' = held
    /\ IF auto
       THEN /\ approvals' = approvals \cup {[id |-> held, room |-> room, auto |-> TRUE]}
            /\ phase' = "approving"
            /\ held' = held
       ELSE /\ phase' = "idle"
            /\ held' = None
            /\ UNCHANGED approvals
    /\ UNCHANGED <<vars, room, local, pollRoom, outcome, effects, moves, lost>>

\* `approve`: a worker builds its request from the room of that moment.
PlayerApproves ==
    /\ noticed # None
    /\ approvals' = approvals \cup {[id |-> noticed, room |-> room, auto |-> FALSE]}
    /\ UNCHANGED <<vars, room, local, loop, noticed, effects, moves, lost>>

ApprovalDone(a) ==
    /\ approvals' = approvals \ {a}
    /\ IF a.auto THEN phase' = "idle" /\ held' = None ELSE UNCHANGED <<phase, held>>
    /\ UNCHANGED <<room, local, pollRoom, outcome, effects, moves>>

ApprovalHandled(a) ==
    /\ Approve(a.id, Gen, a.room)
    /\ noticed' = IF noticed = a.id /\ actions'[a.id].status = "queued" THEN None ELSE noticed
    /\ ApprovalDone(a)
    /\ UNCHANGED lost

\* Refused: not awaiting confirmation any more, or another session is active.
ApprovalRefused(a) ==
    /\ ~(/\ Expire(actions[a.id]).status = "confirmation_required"
         /\ Gen = activeGen[Char] /\ Gen = actions[a.id].gen)
    /\ Observe
    /\ ApprovalDone(a)
    /\ UNCHANGED <<noticed, lost>>

\* The answer to an approval is lost after the sidecar acted on it.
ApprovalAnswerLost(a) ==
    /\ lost < MaxLost
    /\ lost' = lost + 1
    /\ Approve(a.id, Gen, a.room)
    /\ ApprovalDone(a)
    /\ UNCHANGED noticed

-----------------------------------------------------------------------------
(* execute_action and execute_action_sequence.                             *)

\* Mutant of MayRun: the room is left to the broker's check.
MayRunAnywhere ==
    /\ local
    /\ now < actions[held].expiresAt

\* Every step of a sequence checks again what the first one checked.
MayRun ==
    /\ local
    /\ now < actions[held].expiresAt
    /\ RoomAgrees(actions[held], room)

\* Mutant of SendCommand: every command reports.
SendReportsEarly ==
    /\ phase \in {"ordered", "running"}
    /\ IF local /\ now < actions[held].expiresAt /\ RoomAgrees(actions[held], room)
       THEN /\ sent' = [sent EXCEPT ![held] = @ + 1]
            /\ sentIn' = [sentIn EXCEPT ![held] = @ \cup {room}]
            /\ phase' = "reporting"
            /\ outcome' = "sent_unverified"
       ELSE /\ phase' = "reporting"
            /\ outcome' = "failed"
            /\ UNCHANGED effects
    /\ UNCHANGED <<vars, room, local, pollRoom, held, approving, moves, lost>>

\* One command, or the end of the sequence by a failed check.
SendCommand ==
    /\ phase \in {"ordered", "running"}
    /\ IF MayRun
       THEN /\ sent' = [sent EXCEPT ![held] = @ + 1]
            /\ sentIn' = [sentIn EXCEPT ![held] = @ \cup {room}]
            /\ phase' = IF sent[held] + 1 = Length THEN "reporting" ELSE "running"
            /\ outcome' = IF sent[held] + 1 = Length THEN "sent_unverified" ELSE outcome
       ELSE /\ phase' = "reporting"
            /\ outcome' = "failed"
            /\ UNCHANGED effects
    /\ UNCHANGED <<vars, room, local, pollRoom, held, approving, moves, lost>>

\* The game refuses a command, or the snapshot after the last one is not
\* published: the exception handler reports a failure of what was sent.
RunFails ==
    /\ \/ phase = "running"
       \/ phase = "reporting" /\ outcome = "sent_unverified"
    /\ phase' = "reporting"
    /\ outcome' = "failed"
    /\ UNCHANGED <<vars, room, local, pollRoom, held, approving, effects, moves, lost>>

\* report_action: a report the sidecar refuses, or that is lost, is logged
\* and never repeated.
Reported ==
    /\ phase' = "idle"
    /\ held' = None
    /\ outcome' = "none"
    /\ UNCHANGED <<room, local, pollRoom, approving, effects, moves>>

\* Mutant of Report: a bridge that was switched off does not report.
ReportUnlessOff ==
    /\ phase = "reporting"
    /\ IF local /\ Gen = activeGen[Char] /\ actions[held].status = "dispatched"
       THEN RecordResult(held, Gen, outcome) ELSE UNCHANGED vars
    /\ Reported
    /\ UNCHANGED lost

Report ==
    /\ phase = "reporting"
    /\ IF Gen = activeGen[Char] /\ Gen = actions[held].gen /\ actions[held].status = "dispatched"
       THEN RecordResult(held, Gen, outcome) ELSE UNCHANGED vars
    /\ Reported
    /\ UNCHANGED lost

ReportLost ==
    /\ phase = "reporting"
    /\ lost < MaxLost
    /\ lost' = lost + 1
    /\ Reported
    /\ UNCHANGED vars

-----------------------------------------------------------------------------
DeliveryInit ==
    /\ Init
    /\ room \in Rooms /\ local = TRUE
    /\ phase = "idle" /\ pollRoom = room /\ held = None /\ outcome = "none"
    /\ approvals = {} /\ noticed = None
    /\ sent = [i \in Ids |-> 0] /\ sentIn = [i \in Ids |-> {}]
    /\ moves = 0 /\ lost = 0

Handles(a) == ApprovalHandled(a) \/ ApprovalRefused(a)

ActionThread ==
    \/ PollAnswered \/ PollEnds
    \/ \E auto \in BOOLEAN : Notice(auto)
    \/ SendCommand \/ Report

DeliveryNext ==
    \/ Walk \/ \E on \in BOOLEAN : SwitchLocal(on)
    \/ BrokerStep
    \/ SendPoll \/ ActionThread \/ PollContinues \/ AnswerLost \/ RunFails \/ ReportLost
    \/ PlayerApproves
    \/ \E a \in approvals : Handles(a) \/ ApprovalAnswerLost(a)

DeliverySpec == DeliveryInit /\ [][DeliveryNext]_dvars

-----------------------------------------------------------------------------
(* Properties.                                                             *)

\* Every command of a confirmed sequence goes to the game in the room of the
\* consent, however the character walks between consent, delivery and steps.
SentWhereConsented ==
    \A i \in Issued :
        sent[i] > 0 /\ actions[i].confirm => sentIn[i] = {actions[i].room}

\* "completed" means that all commands were sent: lost answers and a failure
\* half way never read as success.
CompletionIsTruthful ==
    \A i \in Issued : actions[i].status = "completed" => sent[i] = Length

\* Between the game and the broker an action has one holder, however answers
\* are lost and polls repeated: no command goes to the game twice, and none
\* while the broker holds the action; what the action thread works on is
\* dispatched and nobody else records its result; and what is dispatched is in
\* the hands of the thread until its result is recorded, unless an answer was
\* lost or the session was replaced.
OneHolder ==
    /\ \A i \in Issued :
         /\ sent[i] <= Length
         /\ actions[i].status \in PendingStatuses \cup RevokedStatuses => sent[i] = 0
    /\ phase \in Executing => actions[held].status = "dispatched"
    /\ lost = 0 /\ activeGen[Char] = Gen =>
         \A i \in Issued : actions[i].status = "dispatched" => held = i /\ phase \in Executing
=============================================================================
