-------------------------- MODULE CapabilityHandlers --------------------------
(***************************************************************************)
(* What the handlers of CapabilityRunner (operations.py) take for evidence.*)
(* OperationRunner has their threads, locks and stops; here the handlers   *)
(* read snapshots of a game that goes on, launch native work through an    *)
(* action and decide, from later snapshots and reports, what happened.     *)
(* One character; its operations follow one another, and operation o       *)
(* launches action o.                                                      *)
(*                                                                         *)
(* The game: a room ("refuge" is the registered room of the controllers),  *)
(* whether all is well (alive, not stunned, no wounds, no creatures), what *)
(* the hands hold, who owns the lanes, the script status receipts, corpses *)
(* and character records.  The native side (lich/lab-bridge.lic) keeps an  *)
(* outing that did not come home; sidecar and bridge may both restart.     *)
(***************************************************************************)
EXTENDS Naturals, Sequences

CONSTANTS
    Plans,          \* bound: the sequences of capabilities clients ask for
    MaxOperations,  \* bound: operations of a behaviour
    MaxChanges,     \* bound: what happens in the game by itself
    MaxCrashes      \* bound: reconnects and restarts

AllCapabilities == {"travel.go2", "character.recon", "hunt.prepare", "room.loot",
    "session.recover_controller", "session.command", "controller", "test", "outing"}

ASSUME HandlerConstants ==
    /\ Plans \subseteq Seq(AllCapabilities)
    /\ MaxOperations \in Nat /\ MaxChanges \in Nat /\ MaxCrashes \in Nat

VARIABLES
    game,      \* what is true in the game
    snap,      \* the snapshot the sidecar has
    news,      \* whether it was published after a launch's base, or a handoff
    op,        \* the operations
    action,    \* their actions in the broker
    reports,   \* the controller results the sidecar received
    handoff,   \* _refuge_pending of the character
    native,    \* the outing the bridge retains: unsafe_handoff
    receipts,  \* controller_recovery events: the outing and the session
    changes, crashes,  \* counters of the bounds
    shown,     \* history: the operations whose promise the game has once kept
    left,      \* history: the outings that left the refuge
    excused    \* history: the outings that nobody has to remember any more

vars == <<game, snap, news, op, action, reports, handoff, native, receipts, changes, crashes,
          shown, left, excused>>

Ops == 1..MaxOperations
Nobody == 0
Game == [session: 1..(MaxCrashes + 1), room: {"refuge", "field"}, well: BOOLEAN,
         hands: {"own", "other"}, owner: 0..MaxOperations, done: SUBSET Ops,
         corpses: BOOLEAN, captured: 0..MaxOperations]
NoSnapshot == [session |-> 0]
NoOuting == [op |-> 0, hands |-> "unknown"]
Points == {"none", "start", "admitted", "launch", "wait", "verify", "succeeded", "ended"}

HandlersTypeOK ==
    /\ game \in Game
    /\ snap = NoSnapshot \/ snap \in Game
    /\ news \subseteq {"operation", "handoff"}
    /\ \A o \in Ops : op[o].at \in Points
    /\ action \in [Ops -> {"none", "pending", "dispatched", "completed", "failed", "revoked"}]
    /\ reports \subseteq [op: Ops, ok: BOOLEAN, started: BOOLEAN, returned: BOOLEAN]
    /\ handoff.op \in 0..MaxOperations /\ native.op \in 0..MaxOperations
    /\ receipts \subseteq (Ops \X (1..(MaxCrashes + 1)))
    /\ shown \subseteq Ops /\ left \subseteq Ops /\ excused \subseteq Ops

-----------------------------------------------------------------------------
(* What a snapshot must show.  A field that is not known shows nothing and *)
(* fails the operation, like a foreign owner of a lane: see Fail.          *)

Fresh == snap # NoSnapshot
Current(o) == Fresh /\ snap.session = op[o].session

\* _validate_travel_state
TravelReady(s) == s.well /\ s.owner = Nobody

Hunts(s) == s.owner \in Ops /\ op[s.owner].capability = "hunt.prepare"

\* _validate_hunt_readiness: bigshot itself may already own the lanes.
HuntReady(s) == s.well /\ s.hands = "own" /\ (s.owner = Nobody \/ Hunts(s))

\* _validate_room_loot_start
LootReady(s) == s.well /\ s.corpses /\ s.owner = Nobody

\* _validate_controller_start of a controller that begins anywhere
ControllerReady(s) == s.well /\ s.owner = Nobody

\* _validate_controller_start of an outing, _validate_test_state
RefugeReady(s) == ControllerReady(s) /\ s.room = "refuge"

IsController(o) == op[o].capability \in {"controller", "test", "outing"}
HoldsHandoff == handoff # NoOuting

\* The snapshot shows the hands of the open outing's launch.
OutingHands(s) == s.hands = handoff.base.hands

\* What the handlers look at before they submit anything.
ReadyFor(o, s) ==
    CASE op[o].capability = "travel.go2" -> TravelReady(s)
      [] op[o].capability = "hunt.prepare" -> HuntReady(s)
      [] op[o].capability = "room.loot" -> LootReady(s)
      [] op[o].capability = "controller" -> ControllerReady(s)
      [] op[o].capability \in {"test", "outing"} -> RefugeReady(s)
      [] op[o].capability = "session.recover_controller" ->
           IF HoldsHandoff
           THEN op[o].target = handoff.op /\ RefugeReady(s) /\ OutingHands(s)
           ELSE ControllerReady(s)
      [] OTHER -> TRUE

\* _resolve_prior_refuge: a later snapshot of the same session shows the end
\* of the outing, or in another session the receipt of a recovery does.
MayResolve(s) ==
    /\ RefugeReady(s) /\ OutingHands(s)
    /\ IF s.session = handoff.base.session THEN "handoff" \in news
       ELSE <<handoff.op, s.session>> \in receipts

Unresolved(o) == HoldsHandoff /\ ~MayResolve(snap)

-----------------------------------------------------------------------------
(* The handlers.                                                           *)

Unused == [at |-> "none"]
Busy == \E o \in Ops : op[o].at \in {"start", "admitted", "launch", "wait", "verify"}
At(o, point) == op' = [op EXCEPT ![o].at = point]

\* An operation that ends keeps its capability and its verdict.
Ends(o, verdict) ==
    op' = [op EXCEPT ![o].at = verdict, ![o].base = NoSnapshot]

outside == <<game, snap, native, receipts, changes, crashes, shown, left, excused>>

\* perform or start; a recovery names the action of an earlier operation.
Request(o, k) ==
    /\ op[o] = Unused /\ ~Busy
    /\ Fresh
    /\ \E plan \in Plans :
         /\ o <= Len(plan) /\ plan[o] = k
         /\ \A p \in 1..(o - 1) : op[p] # Unused /\ op[p].capability = plan[p]
    /\ \E target \in IF k = "session.recover_controller" THEN 1..(o - 1) ELSE {0} :
         op' = [op EXCEPT ![o] = [at |-> "start", capability |-> k, session |-> snap.session,
                                  base |-> NoSnapshot, target |-> target]]
    /\ UNCHANGED <<outside, news, action, reports, handoff>>

\* Mutant of Start: an outing still open is taken for resolved.
StartUnresolved(o) ==
    /\ op[o].at = "start"
    /\ Current(o) /\ ReadyFor(o, snap)
    /\ op' = [op EXCEPT ![o].at = "admitted", ![o].base = snap]
    /\ news' = news \ {"operation"}
    /\ handoff' = IF IsController(o) THEN NoOuting ELSE handoff
    /\ UNCHANGED <<outside, action, reports>>

\* The first snapshot is judged.  A controller resolves an open outing first,
\* a travel when the session changed; else it may lead to the refuge only
\* (here the only destination).
Start(o) ==
    /\ op[o].at = "start"
    /\ Current(o) /\ ReadyFor(o, snap)
    /\ LET resolving == \/ IsController(o)
                        \/ /\ op[o].capability = "travel.go2"
                           /\ HoldsHandoff /\ handoff.base.session # snap.session
       IN /\ resolving => ~Unresolved(o)
          /\ handoff' = IF resolving THEN NoOuting ELSE handoff
    /\ op' = [op EXCEPT ![o].at = "admitted", ![o].base = snap]
    /\ news' = news \ {"operation"}
    /\ UNCHANGED <<outside, action, reports>>

\* Hunts, loots and controllers read and judge once more before the launch;
\* the first snapshot's hands or corpses must still be there.
ReadAgain(o) ==
    /\ op[o].at = "admitted"
    /\ IF op[o].capability \in {"hunt.prepare", "room.loot"} \/ IsController(o)
       THEN /\ Current(o) /\ ReadyFor(o, snap)
            /\ op[o].capability = "outing" => snap.hands = op[o].base.hands
            /\ op' = [op EXCEPT ![o].at = "launch", ![o].base = snap]
            /\ news' = news \ {"operation"}
       ELSE At(o, "launch") /\ UNCHANGED news
    /\ UNCHANGED <<outside, action, reports, handoff>>

\* _run_broker_step submits; the launch of an outing opens a handoff.
Launch(o) ==
    /\ op[o].at = "launch"
    /\ op[o].session = game.session
    /\ action' = [action EXCEPT ![o] = "pending"]
    /\ At(o, "wait")
    /\ IF op[o].capability = "outing"
       THEN /\ handoff' = [op |-> o, base |-> op[o].base]
            /\ news' = news \ {"handoff"}
       ELSE UNCHANGED <<handoff, news>>
    /\ UNCHANGED <<outside, reports>>

\* The wait ends well when the action is completed.
StepCompletes(o) ==
    /\ op[o].at = "wait"
    /\ action[o] = "completed"
    /\ At(o, "verify")
    /\ UNCHANGED <<outside, news, action, reports, handoff>>

\* A failed acknowledgement can follow a report that is already there.
StepFailsWithReport(o) ==
    /\ op[o].at = "wait"
    /\ action[o] \in {"dispatched", "completed", "failed"}
    /\ op[o].capability = "outing"
    /\ \E r \in reports : r.op = o
    /\ At(o, "verify")
    /\ UNCHANGED <<outside, news, action, reports, handoff>>

ReportOf(o) == {r \in reports : r.op = o}

\* A verified end of the outing that is open closes the handoff.
CloseHandoff(o) == handoff' = IF handoff.op = o THEN NoOuting ELSE handoff

\* Mutant of EndShows: any completion in the script status will do.
EndShowsAny(o, e) ==
    LET base == op[o].base
        k == op[o].capability IN
    CASE k = "travel.go2" -> TravelReady(e) /\ e.room = "refuge" /\ e.hands = base.hands
                             /\ e.done # {}
      [] k = "character.recon" -> e.room = base.room /\ e.captured # 0
      [] k = "hunt.prepare" -> HuntReady(e) /\ Hunts(e)
      [] k = "room.loot" -> e.well /\ ~e.corpses /\ e.done # {}
      [] k = "session.command" -> e.done # {}
      [] k = "session.recover_controller" -> RefugeReady(e)
      [] k = "controller" -> e.owner = Nobody
      [] k = "test" -> RefugeReady(e)
      [] k = "outing" -> RefugeReady(e) /\ e.hands = base.hands

\* The end state of each handler: released owners, the exact completion, the
\* room, the equipment and what was to be gathered or removed.
EndShows(o, e) ==
    LET base == op[o].base
        k == op[o].capability IN
    CASE k = "travel.go2" -> TravelReady(e) /\ e.room = "refuge" /\ e.hands = base.hands
                             /\ o \in e.done
      [] k = "character.recon" -> e.room = base.room /\ e.captured = o
      [] k = "hunt.prepare" -> HuntReady(e) /\ Hunts(e)
      [] k = "room.loot" -> e.well /\ ~e.corpses /\ o \in e.done
      [] k = "session.command" -> o \in e.done
      [] k = "session.recover_controller" -> RefugeReady(e)
      [] k = "controller" -> e.owner = Nobody
      [] k = "test" -> RefugeReady(e)
      [] k = "outing" -> RefugeReady(e) /\ e.hands = base.hands

\* The receipt of the recovery names the outing that is open and this session.
RecoveryShown(o, e) ==
    \E r \in receipts :
        /\ r[2] = e.session
        /\ r[1] = op[o].target
        /\ HoldsHandoff => r[1] = handoff.op /\ OutingHands(e)

\* The report of an outing carries the native proof of its return, or says
\* that the preflight refused it before anything began.
ProvenReturn(o) == \E r \in ReportOf(o) : r.started /\ r.returned
PreflightRefused(o) == action[o] = "failed" /\ \E r \in ReportOf(o) : ~r.started
Succeeded(o) == \E r \in ReportOf(o) : r.ok

\* Verification reads a snapshot that is newer than the launch's base.
PostState(o) == op[o].at = "verify" /\ Current(o) /\ "operation" \in news

\* The end of a handler without controller and without recovery.  A travel
\* that succeeds has resolved what an outing left open.
VerifyEnd(o) ==
    /\ PostState(o)
    /\ ~IsController(o) /\ op[o].capability # "session.recover_controller"
    /\ EndShows(o, snap)
    /\ IF op[o].capability = "travel.go2" /\ HoldsHandoff
       THEN MayResolve(snap) /\ handoff' = NoOuting
       ELSE UNCHANGED handoff
    /\ Ends(o, "succeeded")
    /\ UNCHANGED <<outside, news, action, reports>>

\* The end of a recovery closes the handoff it was for.
VerifyRecovery(o) ==
    /\ PostState(o)
    /\ op[o].capability = "session.recover_controller"
    /\ EndShows(o, snap) /\ RecoveryShown(o, snap)
    /\ handoff' = NoOuting
    /\ Ends(o, "succeeded")
    /\ UNCHANGED <<outside, news, action, reports>>

\* The end of a controller that is no outing, with its own good report.
VerifyController(o) ==
    /\ PostState(o)
    /\ op[o].capability \in {"controller", "test"}
    /\ Succeeded(o) /\ EndShows(o, snap)
    /\ Ends(o, "succeeded")
    /\ UNCHANGED <<outside, news, action, reports, handoff>>

\* _complete_refuge_controller: the handoff is closed by the proof of the
\* return, whether or not the work of the outing succeeded.
VerifyOuting(o) ==
    /\ PostState(o)
    /\ op[o].capability = "outing"
    /\ EndShows(o, snap)
    /\ PreflightRefused(o) \/ ProvenReturn(o)
    /\ CloseHandoff(o)
    /\ Ends(o, IF Succeeded(o) /\ action[o] = "completed" THEN "succeeded" ELSE "ended")
    /\ UNCHANGED <<outside, news, action, reports>>

\* A check fails, the deadline passes or a stop arrives, at any point; what
\* is still pending of an outing, a test, a travel or a recon is withdrawn.
Fail(o) ==
    /\ op[o].at \in {"start", "admitted", "launch", "wait", "verify"}
    /\ Ends(o, "ended")
    /\ action' = [action EXCEPT ![o] =
                    IF @ = "pending" /\ op[o].capability \notin
                         {"hunt.prepare", "room.loot", "session.command", "session.recover_controller"}
                    THEN "revoked" ELSE @]
    /\ UNCHANGED <<outside, news, reports, handoff>>

-----------------------------------------------------------------------------
(* The bridge, the scripts it runs, and the game.                          *)

inside == <<op, news, handoff, excused>>

AtRefuge(g) == g.room = "refuge" /\ g.well /\ g.owner = Nobody

\* Promises kept at this moment.  An outing has come home when its run is
\* over and its hands are restored; a travel has arrived, a loot has cleared
\* the room, when their script is done.
Kept(g, n) ==
    {o \in Ops : n.op = o /\ AtRefuge(g) /\ g.hands = n.hands}
    \cup {o \in g.done : /\ op[o].capability = "travel.go2" => AtRefuge(g)
                         /\ op[o].capability = "room.loot" => ~g.corpses}
    \cup ({g.captured} \cap Ops)

\* controlled_refuge_restored?
Restored == AtRefuge(game) /\ game.hands = native.hands

\* Mutant of MayDepart: the bridge forgets the outing that did not return.
MayDepartAnyway == AtRefuge(game)

\* unresolved_controlled_handoff? refuses a launch while an outing is unsafe.
MayDepart == AtRefuge(game) /\ (native = NoOuting \/ Restored)

Deliverable(o) == action[o] = "pending" /\ op[o].session = game.session

\* The action is sent: a script begins and owns its lanes.
BeginScript(o) ==
    /\ Deliverable(o)
    /\ op[o].capability \in {"travel.go2", "hunt.prepare", "room.loot", "controller", "test"}
    /\ game.owner = Nobody
    /\ game' = [game EXCEPT !.owner = o]
    /\ action' = [action EXCEPT ![o] = "dispatched"]
    /\ UNCHANGED <<inside, snap, reports, native, receipts, changes, crashes, shown, left>>

BeginOuting(o) ==
    /\ Deliverable(o)
    /\ op[o].capability = "outing"
    /\ MayDepart
    /\ game' = [game EXCEPT !.owner = o]
    /\ native' = [op |-> o, hands |-> game.hands]
    /\ action' = [action EXCEPT ![o] = "dispatched"]
    /\ left' = left \cup {o}
    /\ UNCHANGED <<inside, snap, reports, receipts, changes, crashes, shown>>

\* The native preflight refuses, and reports that nothing was started.
RefuseLaunch(o) ==
    /\ Deliverable(o)
    /\ action' = [action EXCEPT ![o] = "failed"]
    /\ reports' = IF op[o].capability = "outing"
                  THEN reports \cup {[op |-> o, ok |-> FALSE, started |-> FALSE, returned |-> FALSE]}
                  ELSE reports
    /\ UNCHANGED <<inside, game, snap, native, receipts, changes, crashes, shown, left>>

\* Commands are sent at once.  INFO and SKILLS are answered.
SendCommand(o) ==
    /\ Deliverable(o)
    /\ op[o].capability \in {"session.command", "character.recon"}
    /\ game' = CASE op[o].capability = "session.command" -> [game EXCEPT !.done = @ \cup {o}]
                 [] op[o].capability = "character.recon" -> [game EXCEPT !.captured = o]
    /\ action' = [action EXCEPT ![o] = "dispatched"]
    /\ shown' = shown \cup Kept(game', native)
    /\ UNCHANGED <<inside, snap, reports, native, receipts, changes, crashes, left>>

\* recover_controlled_handoff_locked: only the run the bridge retains, with
\* its equipment in hand at its refuge.
Recover(o) ==
    /\ Deliverable(o)
    /\ op[o].capability = "session.recover_controller"
    /\ native # NoOuting /\ native.op = op[o].target /\ Restored
    /\ receipts' = receipts \cup {<<native.op, game.session>>}
    /\ native' = NoOuting
    /\ action' = [action EXCEPT ![o] = "dispatched"]
    /\ UNCHANGED <<inside, game, snap, reports, changes, crashes, shown, left>>

\* The result of a command: sent, or failed.
Acknowledge(o) ==
    /\ action[o] = "dispatched"
    /\ \E outcome \in {"completed", "failed"} : action' = [action EXCEPT ![o] = outcome]
    /\ UNCHANGED <<inside, game, snap, reports, native, receipts, changes, crashes, shown, left>>

\* A running script moves the character, an outing handles its equipment.
ScriptActs(o) ==
    /\ game.owner = o
    /\ \/ \E r \in {"refuge", "field"} : game' = [game EXCEPT !.room = r]
       \/ /\ op[o].capability = "outing"
          /\ \E h \in {"own", "other"} : game' = [game EXCEPT !.hands = h]
    /\ shown' = shown \cup Kept(game', native)
    /\ UNCHANGED <<inside, snap, action, reports, native, receipts, changes, crashes, left>>

\* A script ends.  go2 and ELoot leave their receipt, controllers a report
\* which may get lost; an outing is retained unless its return is proven
\* and its report was accepted.
ScriptEnds(o) ==
    /\ game.owner = o
    /\ \E finished, accepted \in BOOLEAN, corpses \in {FALSE, game.corpses} :
         LET over == [game EXCEPT !.owner = Nobody,
                                  !.done = IF finished /\ ~IsController(o) THEN @ \cup {o} ELSE @,
                                  !.corpses = IF op[o].capability = "room.loot" THEN corpses ELSE @]
             returned == op[o].capability = "outing" /\ native.op = o
                         /\ AtRefuge(over) /\ over.hands = native.hands
             told == accepted /\ op[o].session = game.session IN
         /\ (accepted => IsController(o)) /\ (corpses # game.corpses => op[o].capability = "room.loot")
         /\ game' = over
         /\ shown' = shown \cup Kept(over, native)
         /\ reports' = IF told
                       THEN reports \cup {[op |-> o, ok |-> finished, started |-> TRUE,
                                           returned |-> returned]}
                       ELSE reports
         /\ native' = IF native.op = o /\ returned /\ told THEN NoOuting ELSE native
    /\ UNCHANGED <<inside, snap, action, receipts, changes, crashes, left>>

\* The player, the game and other scripts change what they like.
GameGoesOn ==
    /\ changes < MaxChanges
    /\ changes' = changes + 1
    /\ \/ \E r \in {"refuge", "field"} : game' = [game EXCEPT !.room = r]
       \/ \E h \in {"own", "other"} : game' = [game EXCEPT !.hands = h]
       \/ game' = [game EXCEPT !.well = ~@]
       \/ game' = [game EXCEPT !.corpses = ~@]
       \/ \E o \in Ops : /\ op[o].at \in {"admitted", "launch", "wait", "verify"}
                         /\ game' = [game EXCEPT !.captured = o]
    /\ shown' = shown \cup Kept(game', native)
    /\ UNCHANGED <<inside, snap, action, reports, native, receipts, crashes, left>>

\* A snapshot is published.  The exclusion of an outing may end with one of
\* its session that shows the refuge, its equipment and no owner.
Publish ==
    /\ snap' = game
    /\ news' = {"operation", "handoff"}
    /\ excused' = excused \cup {o \in Ops : /\ handoff.op = o
                                           /\ game.session = handoff.base.session
                                           /\ AtRefuge(game) /\ OutingHands(game)}
    /\ UNCHANGED <<game, op, handoff, action, reports, native, receipts, changes, crashes, shown, left>>

\* The session is replaced while Lich goes on.
Reconnect ==
    /\ crashes < MaxCrashes
    /\ crashes' = crashes + 1
    /\ game' = [game EXCEPT !.session = @ + 1, !.done = {}]
    /\ UNCHANGED <<inside, snap, action, reports, native, receipts, changes, shown, left>>

\* Lich restarts: its scripts are gone, and what the bridge retained.  An
\* outing that the sidecar does not remember either is forgotten.
LichRestarts ==
    /\ crashes < MaxCrashes
    /\ crashes' = crashes + 1
    /\ game' = [game EXCEPT !.session = @ + 1, !.done = {}, !.owner = Nobody]
    /\ native' = NoOuting
    /\ shown' = shown \cup Kept(game', native)
    /\ excused' = excused \cup (({native.op} \cap Ops) \ {handoff.op})
    /\ UNCHANGED <<op, news, handoff, snap, action, reports, receipts, changes, left>>

\* The sidecar restarts: operations, actions, reports and the handoff are gone.
SidecarRestarts ==
    /\ crashes < MaxCrashes
    /\ crashes' = crashes + 1
    /\ op' = [o \in Ops |-> IF op[o].at \in {"none", "succeeded"} THEN op[o]
                              ELSE [op[o] EXCEPT !.at = "ended", !.base = NoSnapshot]]
    /\ action' = [o \in Ops |-> IF action[o] \in {"none", "completed"} THEN action[o] ELSE "failed"]
    /\ handoff' = NoOuting
    /\ reports' = {} /\ receipts' = {}
    /\ snap' = NoSnapshot /\ news' = {}
    /\ excused' = excused \cup (({handoff.op} \cap Ops) \ {native.op})
    /\ UNCHANGED <<game, native, changes, shown, left>>

-----------------------------------------------------------------------------
Init ==
    /\ game = [session |-> 1, room |-> "refuge", well |-> TRUE, hands |-> "own", owner |-> Nobody,
               done |-> {}, corpses |-> TRUE, captured |-> 0]
    /\ snap = NoSnapshot /\ news = {}
    /\ op = [o \in Ops |-> Unused]
    /\ action = [o \in Ops |-> "none"]
    /\ reports = {} /\ receipts = {}
    /\ shown = {} /\ left = {} /\ excused = {}
    /\ handoff = NoOuting /\ native = NoOuting
    /\ changes = 0 /\ crashes = 0

Handler(o) ==
    \/ Start(o) \/ ReadAgain(o) \/ Launch(o) \/ StepCompletes(o) \/ StepFailsWithReport(o)
    \/ VerifyEnd(o) \/ VerifyRecovery(o) \/ VerifyController(o) \/ VerifyOuting(o) \/ Fail(o)

Bridge(o) ==
    \/ BeginScript(o) \/ BeginOuting(o) \/ RefuseLaunch(o) \/ SendCommand(o) \/ Recover(o)
    \/ Acknowledge(o) \/ ScriptActs(o) \/ ScriptEnds(o)

Next ==
    \/ \E o \in Ops, k \in AllCapabilities : Request(o, k)
    \/ \E o \in Ops : Handler(o) \/ Bridge(o)
    \/ GameGoesOn \/ Publish
    \/ Reconnect \/ LichRestarts \/ SidecarRestarts

Spec == Init /\ [][Next]_vars

-----------------------------------------------------------------------------
(* Properties.                                                             *)

\* A success is never taken from an earlier run, from the state before the
\* launch or from a report alone: the game has once kept what the operation
\* promises, by this very operation's action.
SuccessIsWitnessed ==
    \A o \in Ops :
        op[o].at = "succeeded"
        /\ op[o].capability \in {"travel.go2", "room.loot", "character.recon", "session.command", "outing"}
        => o \in shown

\* No outing leaves the refuge before the ones before it have been home with
\* their equipment, whoever was restarted since, unless such an outing is
\* excused: the sidecar was sent a snapshot of its session with refuge, hands
\* and no owner after its launch was submitted ("a later same-session
\* observation", Controller-Controls.md), or bridge and sidecar both restarted
\* before it was home.
OutingsComeHomeFirst ==
    [][\A o \in Ops : BeginOuting(o) => left \subseteq shown \cup excused]_vars
=============================================================================
