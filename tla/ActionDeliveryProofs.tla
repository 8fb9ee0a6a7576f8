------------------------ MODULE ActionDeliveryProofs ------------------------
(***************************************************************************)
(* Proofs about ActionDelivery, for any number of actions, rooms,          *)
(* generations and commands per sequence, and any number of walks and of   *)
(* lost answers.                                                           *)
(*                                                                         *)
(* LedgerOK relates what went to the game to the status of the action at   *)
(* the broker; SessionOK and HolderOK say who may still have a dispatched  *)
(* action in hand; ThreadOK is what the action thread knows of the action  *)
(* it holds.  Kept says what every step of the broker but the hand-out and *)
(* the report leaves alone: launched work keeps its status and its room.   *)
(***************************************************************************)
EXTENDS ActionDelivery, ActionBrokerProofs

LedgerOK(i) ==
    /\ ~IsLaunched(actions[i]) => sent[i] = 0
    /\ sent[i] = 0 => sentIn[i] = {}
    /\ sent[i] > 0 /\ actions[i].confirm => sentIn[i] = {actions[i].room}
    /\ actions[i].status = "completed" => sent[i] = Length

\* Only this bridge is handed work of this character, in its own session.
SessionOK(i) ==
    actions[i].status = "dispatched" =>
        /\ actions[i].char = Char /\ actions[i].gen = Gen
        /\ Gen = activeGen[Char] \/ Gen \in retired[Char]

HolderOK(i) ==
    lost = 0 /\ activeGen[Char] = Gen /\ actions[i].status = "dispatched" =>
        held = i /\ phase \in Executing

UnissuedOK == \A i \in Ids : ~(i <= issued) => sent[i] = 0 /\ sentIn[i] = {}

ThreadOK ==
    /\ held # None => held <= issued
    /\ phase \in Executing => actions[held].status = "dispatched"
    /\ phase = "ordered" => sent[held] = 0
    /\ phase = "running" => sent[held] < Length
    /\ phase = "reporting" => outcome \in {"sent_unverified", "failed"}
    /\ phase = "reporting" /\ outcome = "sent_unverified" => sent[held] = Length

\* Of an approval the loop itself asked for it waits for the answer.
ApprovalsOK ==
    /\ \A a \in approvals : a.id <= issued /\ (a.auto => phase = "approving")
    /\ \A a \in approvals : \A b \in approvals : a.auto /\ b.auto => a = b
    /\ noticed # None => noticed <= issued

BridgeTypeOK ==
    /\ room \in Rooms /\ local \in BOOLEAN
    /\ phase \in Phases /\ pollRoom \in Rooms
    /\ held \in Ids \cup {None}
    /\ phase \in {"asked", "approving"} \cup Executing <=> held # None
    /\ outcome \in Completions
    /\ approvals \subseteq Approval /\ noticed \in Ids \cup {None}
    /\ sent \in [Ids -> 0..Length] /\ sentIn \in [Ids -> SUBSET Rooms]
    /\ moves \in 0..MaxMoves /\ lost \in 0..MaxLost

ActionOK(i) == LedgerOK(i) /\ SessionOK(i) /\ HolderOK(i)

DeliveryInv ==
    /\ Inv
    /\ BridgeTypeOK
    /\ \A i \in Ids : i <= issued => ActionOK(i)
    /\ UnissuedOK
    /\ ThreadOK
    /\ ApprovalsOK

-----------------------------------------------------------------------------
(* What the broker leaves alone.                                            *)

Kept(a, b) ==
    /\ b.char = a.char /\ b.gen = a.gen /\ b.confirm = a.confirm
    /\ IsLaunched(a) => b.status = a.status /\ b.room = a.room
    /\ ~IsLaunched(a) => ~IsLaunched(b)

\* What has changed neither its status nor its identity is kept.
LEMMA SameKept ==
    ASSUME NEW a, NEW b, b.char = a.char, b.gen = a.gen, b.confirm = a.confirm,
           b.status = a.status, b.room = a.room
    PROVE  Kept(a, b)
BY DEF Kept, IsLaunched

\* What was not launched and is not now.
LEMMA UnlaunchedKept ==
    ASSUME NEW a, NEW b, b.char = a.char, b.gen = a.gen, b.confirm = a.confirm,
           ~IsLaunched(a), ~IsLaunched(b)
    PROVE  Kept(a, b)
BY DEF Kept

\* A change of a status, of a marker or of the room alone.
LEMMA FieldKept ==
    ASSUME NEW a \in Action
    PROVE  /\ ~IsLaunched(a) => \A s \in PendingStatuses \cup RevokedStatuses :
                Kept(a, [a EXCEPT !.status = s])
           /\ ~IsLaunched(a) => \A r \in Rooms : Kept(a, [a EXCEPT !.room = r, !.status = "queued"])
           /\ Kept(a, [a EXCEPT !.stop = TRUE])
           /\ Kept(a, [a EXCEPT !.notified = TRUE])
<1>1. ASSUME ~IsLaunched(a), NEW s \in PendingStatuses \cup RevokedStatuses
      PROVE  Kept(a, [a EXCEPT !.status = s])
  <2>. DEFINE b == [a EXCEPT !.status = s]
  <2>1. b.status = s /\ b.char = a.char /\ b.gen = a.gen /\ b.confirm = a.confirm
    BY DEF Action
  <2>2. ~IsLaunched(b)
    BY <2>1 DEF IsLaunched, LaunchedStatuses, PendingStatuses, RevokedStatuses
  <2>. QED
    BY <1>1, <2>1, <2>2, UnlaunchedKept
<1>2. ASSUME ~IsLaunched(a), NEW r \in Rooms
      PROVE  Kept(a, [a EXCEPT !.room = r, !.status = "queued"])
  <2>. DEFINE b == [a EXCEPT !.room = r, !.status = "queued"]
  <2>1. b.status = "queued" /\ b.char = a.char /\ b.gen = a.gen /\ b.confirm = a.confirm
    BY DEF Action
  <2>2. ~IsLaunched(b)
    BY <2>1 DEF IsLaunched, LaunchedStatuses
  <2>. QED
    BY <1>2, <2>1, <2>2, UnlaunchedKept
<1>3. Kept(a, [a EXCEPT !.stop = TRUE]) /\ Kept(a, [a EXCEPT !.notified = TRUE])
  BY SameKept DEF Action
<1>. QED
  BY <1>1, <1>2, <1>3

\* Keeping composes.
LEMMA KeptTrans ==
    ASSUME NEW a, NEW b, NEW d, Kept(a, b), Kept(b, d)
    PROVE  Kept(a, d)
BY DEF Kept, IsLaunched

\* The helpers of the broker: expiry, withdrawal and revocation take back
\* pending work, and mark launched work at most.
LEMMA HelpersKept ==
    ASSUME NEW a \in Action
    PROVE  Kept(a, a) /\ Kept(a, Expire(a)) /\ Kept(a, Withdraw(a)) /\ Kept(a, Revoke(a))
<1>1. IsPending(a) => ~IsLaunched(a)
  BY DEF IsPending, IsLaunched, PendingStatuses, LaunchedStatuses
<1>2. Kept(a, a)
  BY SameKept
<1>3. Kept(a, Expire(a))
  BY <1>1, <1>2, FieldKept DEF Expire, RevokedStatuses
<1>4. Kept(a, Withdraw(a))
  BY <1>1, <1>2, FieldKept DEF Withdraw, RevokedStatuses
<1>5. Kept(a, Revoke(a))
  BY <1>4, FieldKept DEF Revoke
<1>. QED
  BY <1>2, <1>3, <1>4, <1>5

\* Expired work and what it was.
LEMMA ExpiredKept ==
    ASSUME Inv
    PROVE  \A i \in Ids : i <= issued =>
             /\ ExpiredActions[i] = Expire(actions[i]) /\ ExpiredActions[i] \in Action
             /\ Kept(actions[i], ExpiredActions[i])
             /\ ExpiredActions[i].status \in PendingStatuses =>
                  ExpiredActions[i] = actions[i] /\ ~IsLaunched(actions[i])
<1>. SUFFICES ASSUME NEW i \in Ids, i <= issued
              PROVE  /\ ExpiredActions[i] = Expire(actions[i]) /\ ExpiredActions[i] \in Action
                     /\ Kept(actions[i], ExpiredActions[i])
                     /\ ExpiredActions[i].status \in PendingStatuses =>
                          ExpiredActions[i] = actions[i] /\ ~IsLaunched(actions[i])
  OBVIOUS
<1>1. actions[i] \in Action /\ ExpiredActions[i] = Expire(actions[i]) /\ ExpiredActions[i] \in Action
  BY ExpiredWeakens DEF Inv, ActionsOK
<1>2. Kept(actions[i], ExpiredActions[i])
  BY <1>1, HelpersKept
<1>3. Expire(actions[i]).status \in PendingStatuses => Expire(actions[i]) = actions[i]
  BY <1>1, ExpireCases DEF PendingStatuses
<1>4. actions[i].status \in PendingStatuses => ~IsLaunched(actions[i])
  BY DEF IsLaunched, PendingStatuses, LaunchedStatuses
<1>. QED
  BY <1>1, <1>2, <1>3, <1>4

-----------------------------------------------------------------------------
(* The steps of the broker that hand out and close nothing.                 *)

\* No launch begins or ends, and no session that ended comes back.
Quiet ==
    /\ issued' \in {issued, issued + 1} /\ issued' \in 0..MaxActions
    /\ \A i \in Ids : i <= issued => Kept(actions[i], actions'[i])
    /\ \A i \in Ids : ~(i <= issued) /\ i <= issued' => ~IsLaunched(actions'[i])
    /\ retired[Char] \subseteq retired'[Char]
    /\ activeGen'[Char] # activeGen[Char] =>
         activeGen[Char] = NoGeneration \/ activeGen[Char] \in retired'[Char]

SameSessions == UNCHANGED <<activeGen, retired, issued>>

\* Without a change of sessions it is the actions that matter.
LEMMA ActionsQuiet ==
    ASSUME Inv, SameSessions,
           \A i \in Ids : i <= issued => Kept(actions[i], actions'[i])
    PROVE  Quiet
BY DEF Inv, ScalarsOK, SameSessions, Quiet

\* The expiry pass, and a poll that hands out nothing.
LEMMA PassQuiet ==
    ASSUME Inv, NEW r \in Rooms, Observe \/ PollFindsNothing(Char, Gen, r)
    PROVE  Quiet
<1>1. SameSessions
  BY DEF Observe, PollFindsNothing, SameSessions
<1>2. ASSUME NEW i \in Ids, i <= issued
      PROVE  Kept(actions[i], actions'[i])
  <2>1. CASE Observe
    BY <1>2, <2>1, ExpiredKept DEF Observe
  <2>2. CASE PollFindsNothing(Char, Gen, r)
    <3>1. actions'[i] = IF Stale(i, Char, Gen, r) THEN Deny(ExpiredActions[i])
                                                  ELSE ExpiredActions[i]
      BY <1>2, <2>2 DEF PollFindsNothing
    <3>2. Stale(i, Char, Gen, r) => Kept(actions[i], Deny(ExpiredActions[i]))
      BY <1>2, ExpiredKept, FieldKept DEF Stale, Deny, PendingStatuses, RevokedStatuses
    <3>. QED
      BY <1>2, <3>1, <3>2, ExpiredKept
  <2>. QED
    BY <2>1, <2>2
<1>. QED
  BY <1>1, <1>2, ActionsQuiet

\* Consent, or its refusal for another room.
LEMMA ApproveQuiet ==
    ASSUME Inv, NEW i \in Ids, i <= issued, NEW r \in Rooms, Approve(i, Gen, r)
    PROVE  Quiet
<1>1. SameSessions /\ ExpiredActions[i] = actions[i] /\ ~IsLaunched(actions[i])
  BY ExpiredKept DEF Approve, SameSessions, PendingStatuses
<1>2. actions' = [ExpiredActions EXCEPT ![i] =
                     IF RoomAgrees(actions[i], r)
                     THEN [ExpiredActions[i] EXCEPT !.room = r, !.status = "queued"]
                     ELSE [ExpiredActions[i] EXCEPT !.status = "denied_stale_room"]]
  BY DEF Approve
<1>3. Kept(actions[i], actions'[i])
  <2>1. actions[i] \in Action /\ DOMAIN ExpiredActions = Ids
    BY ExpiredWeakens DEF Inv, ActionsOK
  <2>2. Kept(actions[i], [actions[i] EXCEPT !.room = r, !.status = "queued"])
    BY <1>1, <2>1, FieldKept
  <2>3. Kept(actions[i], [actions[i] EXCEPT !.status = "denied_stale_room"])
    BY <1>1, <2>1, FieldKept DEF RevokedStatuses
  <2>. QED
    BY <1>1, <1>2, <2>1, <2>2, <2>3
<1>4. ASSUME NEW j \in Ids, j <= issued, j # i
      PROVE  Kept(actions[j], actions'[j])
  BY <1>2, <1>4, ExpiredKept DEF ExpiredActions
<1>. QED
  BY <1>1, <1>3, <1>4, ActionsQuiet

\* What the rest of the sidecar does meanwhile.
LEMMA BrokerQuiet ==
    ASSUME Inv, BrokerStep
    PROVE  Quiet
<1>1. ASSUME NEW g \in Generations, AdmitGeneration(Char, g)
      PROVE  Quiet
  <2>1. ASSUME NEW i \in Ids, i <= issued PROVE Kept(actions[i], actions'[i])
    BY <1>1, <2>1, HelpersKept DEF AdmitGeneration, Inv, ActionsOK
  <2>2. /\ issued' = issued
        /\ activeGen'[Char] = g
        /\ retired'[Char] = IF activeGen[Char] \in {g, NoGeneration} THEN retired[Char]
                            ELSE retired[Char] \cup {activeGen[Char]}
    BY <1>1, DeliveryConstants DEF AdmitGeneration, Inv, ScalarsOK
  <2>. QED
    BY <2>1, <2>2 DEF Quiet, Inv, ScalarsOK
<1>2. ASSUME NEW g \in Generations, Enable(Char, g) \/ Disable(Char, g)
      PROVE  Quiet
  <2>1. ASSUME NEW i \in Ids, i <= issued PROVE Kept(actions[i], actions'[i])
    BY <1>2, <2>1, HelpersKept DEF Enable, Disable, Inv, ActionsOK
  <2>. QED
    BY <1>2, <2>1, ActionsQuiet DEF Enable, Disable, SameSessions
<1>3. ASSUME NEW k \in Kinds, NEW confirm \in BOOLEAN, NEW r \in Rooms \cup {NoRoom},
             NEW life \in 1..MaxLifetime, Submit(Char, k, confirm, r, life, 0)
      PROVE  Quiet
  <2>1. /\ issued' = issued + 1 /\ issued + 1 \in Ids /\ issued' \in 0..MaxActions
        /\ issued \in Nat
        /\ UNCHANGED <<activeGen, retired>>
        /\ actions' = [actions EXCEPT ![issued + 1] = Proposal(Char, k, confirm, r, life, 0)]
    BY <1>3, BrokerConstants DEF Submit, Inv, ScalarsOK, Ids
  <2>2. ~IsLaunched(Proposal(Char, k, confirm, r, life, 0))
    BY DEF Proposal, IsLaunched, LaunchedStatuses
  <2>3. \A i \in Ids : i <= issued => i # issued + 1 /\ actions'[i] = actions[i]
    BY <2>1 DEF Ids
  <2>4. \A i \in Ids : i <= issued => Kept(actions[i], actions'[i])
    BY <2>3, HelpersKept DEF Inv, ActionsOK
  <2>5. \A i \in Ids : ~(i <= issued) /\ i <= issued' => i = issued + 1
    BY <2>1 DEF Ids
  <2>6. actions'[issued + 1] = Proposal(Char, k, confirm, r, life, 0)
    BY <2>1 DEF Inv, ActionsOK
  <2>. QED
    BY <2>1, <2>2, <2>4, <2>5, <2>6 DEF Quiet
<1>4. ASSUME NEW i \in Issued, Cancel(i)
      PROVE  Quiet
  <2>. DEFINE e == ExpiredActions[i]
  <2>1. actions' = [ExpiredActions EXCEPT ![i] =
                      IF e.kind = "travel" /\ e.status = "dispatched"
                      THEN [e EXCEPT !.stop = TRUE] ELSE Withdraw(e)]
    BY <1>4 DEF Cancel
  <2>2. /\ i \in Ids /\ i <= issued /\ e \in Action /\ Kept(actions[i], e)
        /\ DOMAIN ExpiredActions = Ids
    BY ExpiredKept, ExpiredWeakens DEF Issued
  <2>3. Kept(e, [e EXCEPT !.stop = TRUE]) /\ Kept(e, Withdraw(e))
    BY <2>2, FieldKept, HelpersKept
  <2>4. Kept(actions[i], actions'[i])
    <3>1. Kept(e, actions'[i])
      BY <2>1, <2>2, <2>3
    <3>. QED
      BY <2>2, <3>1, KeptTrans
  <2>5. ASSUME NEW j \in Ids, j <= issued, j # i
        PROVE  Kept(actions[j], actions'[j])
    BY <2>1, <2>5, <2>2, ExpiredKept
  <2>. QED
    BY <1>4, <2>4, <2>5, ActionsQuiet DEF Cancel, SameSessions
<1>5. CASE Tick
  <2>1. \A i \in Ids : i <= issued => Kept(actions[i], actions'[i])
    BY <1>5, HelpersKept DEF Tick, Inv, ActionsOK
  <2>. QED
    BY <1>5, <2>1, ActionsQuiet DEF Tick, SameSessions
<1>. QED
  BY <1>1, <1>2, <1>3, <1>4, <1>5 DEF BrokerStep

\* A step of the bridge alone.
LEMMA StillQuiet ==
    ASSUME Inv, UNCHANGED vars
    PROVE  Quiet
<1>1. \A i \in Ids : i <= issued => Kept(actions[i], actions'[i])
  BY HelpersKept DEF vars, Inv, ActionsOK
<1>. QED
  BY <1>1, ActionsQuiet DEF vars, SameSessions

-----------------------------------------------------------------------------
(* Steps in which nothing goes to the game and no launch begins or ends.    *)

\* A quiet step keeps the invariant unless the action thread lets go of what
\* it holds while no answer was lost and the session is still this bridge's.
LEMMA QuietInv ==
    ASSUME DeliveryInv, Inv', Quiet, BridgeTypeOK', ApprovalsOK', UNCHANGED effects,
           lost' = 0 => lost = 0,
           phase \in Executing /\ lost' = 0 /\ activeGen'[Char] = Gen =>
               phase' \in Executing /\ held' = held,
           phase' \in Executing =>
               /\ phase \in Executing /\ held' = held
               /\ \/ UNCHANGED <<phase, outcome>>
                  \/ phase' = "reporting" /\ outcome' = "failed",
           held' # None => held' <= issued'
    PROVE  DeliveryInv'
<1>1. /\ Inv /\ BridgeTypeOK /\ ThreadOK /\ UnissuedOK
      /\ issued \in Int /\ issued' \in {issued, issued + 1}
      /\ \A i \in Ids : i \in Int
  BY DEF DeliveryInv, Quiet, Inv, ScalarsOK, Ids
<1>2. ASSUME NEW i \in Ids, i <= issued'
      PROVE  ActionOK(i)'
  <2>1. CASE i <= issued
    <3>1. /\ ActionOK(i) /\ Kept(actions[i], actions'[i])
          /\ sent'[i] = sent[i] /\ sentIn'[i] = sentIn[i]
          /\ sent[i] \in Int /\ ~(0 > 0)
      BY <2>1, <1>1 DEF DeliveryInv, Quiet, effects, BridgeTypeOK
    <3>2. LedgerOK(i)'
      <4>1. actions'[i].status = "completed" => actions[i].status = "completed"
        BY <3>1 DEF Kept, IsLaunched, LaunchedStatuses
      <4>2. sent[i] > 0 => IsLaunched(actions[i])
        BY <3>1 DEF ActionOK, LedgerOK
      <4>3. IsLaunched(actions[i]) => IsLaunched(actions'[i])
        BY <3>1 DEF Kept, IsLaunched
      <4>. QED
        BY <3>1, <4>1, <4>2, <4>3 DEF ActionOK, LedgerOK, Kept
    <3>3. actions'[i].status = "dispatched" => actions[i].status = "dispatched"
      BY <3>1 DEF Kept, IsLaunched, LaunchedStatuses
    <3>4. SessionOK(i)'
      <4>1. Gen # NoGeneration
        BY DeliveryConstants, BrokerConstants
      <4>. QED
        BY <3>1, <3>3, <4>1 DEF ActionOK, SessionOK, Kept, Quiet
    <3>5. HolderOK(i)'
      <4>. SUFFICES ASSUME lost' = 0, activeGen'[Char] = Gen, actions'[i].status = "dispatched"
                    PROVE  held' = i /\ phase' \in Executing
        BY DEF HolderOK
      <4>1. actions[i].status = "dispatched" /\ (Gen = activeGen[Char] \/ Gen \in retired[Char])
        BY <3>1, <3>3 DEF ActionOK, SessionOK
      <4>2. Gen \notin retired'[Char] /\ retired[Char] \subseteq retired'[Char]
        BY DeliveryConstants DEF Inv, Quiet
      <4>3. held = i /\ phase \in Executing
        BY <3>1, <4>1, <4>2 DEF ActionOK, HolderOK
      <4>. QED
        BY <4>3
    <3>. QED
      BY <3>2, <3>4, <3>5 DEF ActionOK
  <2>2. CASE ~(i <= issued)
    <3>1. ~IsLaunched(actions'[i]) /\ sent'[i] = 0 /\ sentIn'[i] = {}
      BY <1>1, <1>2, <2>2 DEF Quiet, UnissuedOK, effects
    <3>. QED
      BY <3>1 DEF ActionOK, LedgerOK, SessionOK, HolderOK, IsLaunched, LaunchedStatuses
  <2>. QED
    BY <2>1, <2>2
<1>3. UnissuedOK'
  BY <1>1 DEF UnissuedOK, effects
<1>4. ThreadOK'
  <2>1. CASE phase' \in Executing
    <3>1. phase \in Executing /\ held' = held /\ held \in Ids /\ held <= issued
      BY <1>1, <2>1 DEF BridgeTypeOK, ThreadOK
    <3>2. Kept(actions[held], actions'[held]) /\ actions[held].status = "dispatched"
      BY <1>1, <3>1 DEF Quiet, ThreadOK
    <3>3. actions'[held].status = "dispatched"
      BY <3>2 DEF Kept, IsLaunched, LaunchedStatuses
    <3>. QED
      BY <1>1, <3>1, <3>3 DEF ThreadOK, effects, Executing
  <2>2. CASE phase' \notin Executing
    BY <2>2 DEF ThreadOK, Executing
  <2>. QED
    BY <2>1, <2>2
<1>. QED
  BY <1>2, <1>3, <1>4 DEF DeliveryInv

\* Steps after which the thread, the outcome and the approvals are the same.
LEMMA FrameInv ==
    ASSUME DeliveryInv, Inv', Quiet, UNCHANGED <<loop, approvals, effects, lost>>,
           room' \in Rooms, local' \in BOOLEAN, moves' \in 0..MaxMoves,
           noticed' \in {noticed, None}
    PROVE  DeliveryInv'
<1>1. /\ BridgeTypeOK /\ ThreadOK /\ ApprovalsOK
      /\ issued \in Int /\ issued' \in {issued, issued + 1} /\ \A i \in Ids : i \in Int
  BY DEF DeliveryInv, Quiet, Inv, ScalarsOK, Ids
<1>2. BridgeTypeOK'
  BY <1>1 DEF BridgeTypeOK, loop, effects
<1>3. ApprovalsOK'
  <2>1. \A x \in Ids : x <= issued => x <= issued'
    BY <1>1
  <2>2. \A a \in approvals : a.id \in Ids
    BY <1>1 DEF BridgeTypeOK, Approval
  <2>3. noticed' # None => noticed' \in Ids /\ noticed' <= issued
    BY <1>1 DEF ApprovalsOK, BridgeTypeOK
  <2>. QED
    BY <1>1, <2>1, <2>2, <2>3 DEF ApprovalsOK, loop
<1>4. held' # None => held' <= issued'
  BY <1>1 DEF ThreadOK, BridgeTypeOK, loop
<1>. QED
  BY <1>2, <1>3, <1>4, QuietInv DEF loop

\* The character walks, the player uses the switch, the broker goes on, and a
\* turn of the long poll finds nothing.
LEMMA AroundInv ==
    ASSUME DeliveryInv, Inv',
           \/ Walk \/ \E on \in BOOLEAN : SwitchLocal(on)
           \/ BrokerStep \/ PollContinues
    PROVE  DeliveryInv'
<1>1. Inv /\ BridgeTypeOK
  BY DEF DeliveryInv
<1>2. CASE Walk
  BY <1>1, <1>2, StillQuiet, FrameInv, DeliveryConstants DEF Walk, approving, BridgeTypeOK
<1>3. ASSUME NEW on \in BOOLEAN, SwitchLocal(on) PROVE DeliveryInv'
  BY <1>1, <1>3, StillQuiet, FrameInv DEF SwitchLocal, BridgeTypeOK
<1>4. CASE BrokerStep
  <2>1. Quiet /\ UNCHANGED bridge
    BY <1>1, <1>4, BrokerQuiet DEF BrokerStep
  <2>. QED
    BY <1>1, <2>1, FrameInv DEF bridge, approving, BridgeTypeOK
<1>5. CASE PollContinues
  <2>1. Quiet /\ UNCHANGED bridge
    BY <1>1, <1>5, PassQuiet DEF PollContinues, BridgeTypeOK
  <2>. QED
    BY <1>1, <2>1, FrameInv DEF bridge, approving, BridgeTypeOK
<1>. QED
  BY <1>2, <1>3, <1>4, <1>5

-----------------------------------------------------------------------------
(* The poll and the approval.                                               *)

\* The thread goes to its poll, comes back with nothing, or does not see what
\* the sidecar handed out.
LEMMA PollInv ==
    ASSUME DeliveryInv, Inv', SendPoll \/ PollEnds \/ AnswerLost
    PROVE  DeliveryInv'
<1>1. Inv /\ BridgeTypeOK /\ ThreadOK /\ ApprovalsOK
  BY DEF DeliveryInv
<1>2. Quiet /\ issued' = issued
  <2>1. CASE SendPoll \/ AnswerLost
    BY <1>1, <2>1, StillQuiet DEF SendPoll, AnswerLost, vars
  <2>2. CASE PollEnds
    BY <1>1, <2>2, PassQuiet DEF PollEnds, Observe, PollFindsNothing, BridgeTypeOK
  <2>. QED
    BY <2>1, <2>2
<1>3. /\ phase \in {"idle", "waiting", "asked", "ordered"}
      /\ phase' \in {"idle", "waiting"} /\ held' = None /\ pollRoom' \in Rooms
      /\ UNCHANGED <<room, local, outcome, approving, effects, moves>>
      /\ lost' \in 0..MaxLost /\ (lost' = 0 => lost = 0)
      /\ phase \in Executing => lost' # 0
  <2>1. CASE SendPoll
    BY <1>1, <2>1 DEF SendPoll, BridgeTypeOK, Executing
  <2>2. CASE PollEnds
    BY <1>1, <2>2 DEF PollEnds, BridgeTypeOK, Executing
  <2>3. CASE AnswerLost
    <3>1. lost \in 0..MaxLost /\ MaxLost \in Nat /\ lost < MaxLost /\ lost' = lost + 1
      BY <1>1, <2>3, DeliveryConstants DEF AnswerLost, BridgeTypeOK
    <3>2. lost' \in 0..MaxLost /\ lost' # 0
      BY <3>1
    <3>. QED
      BY <1>1, <2>3, <3>2 DEF AnswerLost, BridgeTypeOK
  <2>. QED
    BY <2>1, <2>2, <2>3
<1>4. phase' \notin Executing /\ phase' \notin {"asked", "approving"}
  BY <1>3 DEF Executing
<1>5. BridgeTypeOK'
  BY <1>1, <1>3, <1>4 DEF BridgeTypeOK, Phases, approving, effects
<1>6. ApprovalsOK'
  <2>1. \A a \in approvals : ~a.auto
    BY <1>1, <1>3 DEF ApprovalsOK, BridgeTypeOK, Approval
  <2>. QED
    BY <1>1, <1>2, <1>3, <2>1 DEF ApprovalsOK, approving
<1>. QED
  BY <1>2, <1>3, <1>4, <1>5, <1>6, QuietInv

\* The player is shown an action; the loop may approve at once.
LEMMA NoticeInv ==
    ASSUME DeliveryInv, Inv', NEW auto \in BOOLEAN, Notice(auto)
    PROVE  DeliveryInv'
<1>1. Inv /\ BridgeTypeOK /\ ThreadOK /\ ApprovalsOK
  BY DEF DeliveryInv
<1>2. Quiet /\ issued' = issued
  BY <1>1, StillQuiet DEF Notice, vars
<1>3. /\ phase = "asked" /\ noticed' = held /\ held \in Ids /\ held # None /\ held <= issued
      /\ UNCHANGED <<room, local, pollRoom, outcome, effects, moves, lost>>
      /\ \A a \in approvals : ~a.auto
  BY <1>1 DEF Notice, BridgeTypeOK, ThreadOK, ApprovalsOK, Approval
<1>4. CASE auto
  <2>. DEFINE new == [id |-> held, room |-> room, auto |-> TRUE]
  <2>1. /\ approvals' = approvals \cup {new}
        /\ phase' = "approving" /\ held' = held
    BY <1>4 DEF Notice
  <2>2. new \in Approval /\ new.id = held /\ new.auto
    BY <1>1, <1>3 DEF BridgeTypeOK, Approval
  <2>. HIDE DEF new
  <2>3. BridgeTypeOK'
    BY <1>1, <1>3, <2>1, <2>2 DEF BridgeTypeOK, Phases, effects
  <2>4. ApprovalsOK'
    BY <1>1, <1>2, <1>3, <2>1, <2>2 DEF ApprovalsOK
  <2>5. phase \notin Executing /\ phase' \notin Executing
    BY <1>3, <2>1 DEF Executing
  <2>. QED
    BY <1>2, <1>3, <2>1, <2>3, <2>4, <2>5, QuietInv
<1>5. CASE ~auto
  <2>1. phase' = "idle" /\ held' = None /\ approvals' = approvals
    BY <1>5 DEF Notice
  <2>2. phase \notin Executing /\ phase' \notin Executing /\ phase' \notin {"asked", "approving"}
    BY <1>3, <2>1 DEF Executing
  <2>3. BridgeTypeOK'
    BY <1>1, <1>3, <2>1, <2>2 DEF BridgeTypeOK, Phases, effects
  <2>4. ApprovalsOK'
    BY <1>1, <1>2, <1>3, <2>1 DEF ApprovalsOK
  <2>. QED
    BY <1>2, <1>3, <2>1, <2>2, <2>3, <2>4, QuietInv
<1>. QED
  BY <1>4, <1>5

\* The player approves what was shown.
LEMMA PlayerApprovesInv ==
    ASSUME DeliveryInv, Inv', PlayerApproves
    PROVE  DeliveryInv'
<1>1. Inv /\ BridgeTypeOK /\ ThreadOK /\ ApprovalsOK
  BY DEF DeliveryInv
<1>2. Quiet /\ issued' = issued
  BY <1>1, StillQuiet DEF PlayerApproves, vars
<1>. DEFINE new == [id |-> noticed, room |-> room, auto |-> FALSE]
<1>3. /\ approvals' = approvals \cup {new}
      /\ noticed \in Ids /\ noticed <= issued
      /\ UNCHANGED <<room, local, loop, noticed, effects, moves, lost>>
  BY <1>1 DEF PlayerApproves, BridgeTypeOK, ApprovalsOK
<1>4. new \in Approval /\ new.id = noticed /\ ~new.auto
  BY <1>1, <1>3 DEF BridgeTypeOK, Approval
<1>. HIDE DEF new
<1>5. BridgeTypeOK'
  BY <1>1, <1>3, <1>4 DEF BridgeTypeOK, loop, effects
<1>6. ApprovalsOK'
  BY <1>1, <1>2, <1>3, <1>4 DEF ApprovalsOK, loop
<1>. QED
  BY <1>1, <1>2, <1>3, <1>5, <1>6, QuietInv DEF loop, ThreadOK

\* The sidecar handles an approval, refuses it, or its answer is lost: it is
\* gone, and the loop goes on if it waited for it.
LEMMA ApprovalInv ==
    ASSUME DeliveryInv, Inv', NEW a \in approvals, Handles(a) \/ ApprovalAnswerLost(a)
    PROVE  DeliveryInv'
<1>1. Inv /\ BridgeTypeOK /\ ThreadOK /\ ApprovalsOK
  BY DEF DeliveryInv
<1>2. /\ a.id \in Ids /\ a.id <= issued /\ a.room \in Rooms /\ a.auto \in BOOLEAN
      /\ a.auto => phase = "approving"
      /\ \A b \in approvals : b.auto /\ a.auto => a = b
  BY <1>1 DEF BridgeTypeOK, ApprovalsOK, Approval
<1>3. Quiet /\ issued' = issued
  <2>1. CASE Approve(a.id, Gen, a.room)
    BY <1>1, <1>2, <2>1, ApproveQuiet DEF Approve
  <2>2. CASE Observe
    BY <1>1, <1>2, <2>2, PassQuiet DEF Observe
  <2>. QED
    BY <2>1, <2>2 DEF Handles, ApprovalHandled, ApprovalRefused, ApprovalAnswerLost
<1>4. /\ approvals' = approvals \ {a}
      /\ IF a.auto THEN phase' = "idle" /\ held' = None ELSE UNCHANGED <<phase, held>>
      /\ UNCHANGED <<room, local, pollRoom, outcome, effects, moves>>
      /\ noticed' \in {noticed, None}
  BY DEF Handles, ApprovalHandled, ApprovalRefused, ApprovalAnswerLost, ApprovalDone
<1>5. lost' \in 0..MaxLost /\ (lost' = 0 => lost = 0)
  <2>1. lost \in 0..MaxLost /\ MaxLost \in Nat
    BY <1>1, DeliveryConstants DEF BridgeTypeOK
  <2>2. lost' = lost \/ (lost < MaxLost /\ lost' = lost + 1)
    BY DEF Handles, ApprovalHandled, ApprovalRefused, ApprovalAnswerLost
  <2>. QED
    BY <2>1, <2>2
<1>6. BridgeTypeOK'
  <2>1. phase' = "idle" => phase' \notin {"asked", "approving"} \cup Executing
    BY DEF Executing
  <2>2. /\ phase' \in Phases /\ held' \in Ids \cup {None}
        /\ phase' \in {"asked", "approving"} \cup Executing <=> held' # None
    BY <1>1, <1>4, <2>1 DEF BridgeTypeOK, Phases
  <2>. QED
    BY <1>1, <1>4, <1>5, <2>2 DEF BridgeTypeOK, effects
<1>7. ApprovalsOK'
  <2>1. \A b \in approvals' : b \in approvals /\ (b.auto => ~a.auto)
    BY <1>2, <1>4
  <2>. QED
    BY <1>1, <1>3, <1>4, <2>1 DEF ApprovalsOK
<1>8. /\ phase \in Executing => UNCHANGED <<phase, held>>
      /\ phase' \in Executing => UNCHANGED <<phase, held>>
  BY <1>2, <1>4 DEF Executing
<1>9. held' # None => held' <= issued'
  BY <1>1, <1>3, <1>4 DEF ThreadOK
<1>. QED
  BY <1>3, <1>4, <1>5, <1>6, <1>7, <1>8, <1>9, QuietInv

-----------------------------------------------------------------------------
(* The hand-out, the commands and the report.                               *)

\* A report that fails, or is lost: nothing more goes to the game.
LEMMA FailureInv ==
    ASSUME DeliveryInv, Inv', RunFails \/ ReportLost
    PROVE  DeliveryInv'
<1>1. Inv /\ BridgeTypeOK /\ ThreadOK /\ ApprovalsOK
  BY DEF DeliveryInv
<1>2. Quiet /\ issued' = issued
  BY <1>1, StillQuiet DEF RunFails, ReportLost, vars
<1>3. CASE RunFails
  <2>1. /\ phase \in {"running", "reporting"} /\ phase' = "reporting" /\ outcome' = "failed"
        /\ UNCHANGED <<room, local, pollRoom, held, approving, effects, moves, lost>>
    BY <1>3 DEF RunFails
  <2>2. BridgeTypeOK'
    BY <1>1, <2>1 DEF BridgeTypeOK, Phases, Executing, Completions, approving, effects
  <2>3. ApprovalsOK'
    BY <1>1, <1>2, <2>1 DEF ApprovalsOK, approving, BridgeTypeOK, Approval
  <2>. QED
    BY <1>1, <1>2, <2>1, <2>2, <2>3, QuietInv DEF Executing, ThreadOK
<1>4. CASE ReportLost
  <2>1. /\ phase = "reporting" /\ phase' = "idle" /\ held' = None /\ outcome' = "none"
        /\ UNCHANGED <<room, local, pollRoom, approving, effects, moves>>
        /\ lost < MaxLost /\ lost' = lost + 1
    BY <1>4 DEF ReportLost, Reported
  <2>2. lost' \in 0..MaxLost /\ lost' # 0
    <3>1. lost \in 0..MaxLost /\ MaxLost \in Nat
      BY <1>1, DeliveryConstants DEF BridgeTypeOK
    <3>. QED
      BY <2>1, <3>1
  <2>3. phase' \notin {"asked", "approving"} \cup Executing
    BY <2>1 DEF Executing
  <2>4. BridgeTypeOK'
    BY <1>1, <2>1, <2>2, <2>3 DEF BridgeTypeOK, Phases, Completions, approving, effects
  <2>5. ApprovalsOK'
    BY <1>1, <1>2, <2>1 DEF ApprovalsOK, approving, BridgeTypeOK, Approval
  <2>. QED
    BY <1>2, <2>1, <2>2, <2>3, <2>4, <2>5, QuietInv
<1>. QED
  BY <1>3, <1>4

\* The broker hands out an action of this bridge: it had sent nothing of it.
LEMMA PollAnsweredInv ==
    ASSUME DeliveryInv, Inv', PollAnswered
    PROVE  DeliveryInv'
<1>1. Inv /\ BridgeTypeOK /\ ThreadOK /\ ApprovalsOK /\ UnissuedOK
  BY DEF DeliveryInv
<1>2. PICK i \in Issued : /\ PollDelivers(Char, Gen, pollRoom, i)
                          /\ held' = i
                          /\ phase' = IF actions[i].status = "queued" THEN "ordered" ELSE "asked"
  BY DEF PollAnswered
<1>3. /\ phase = "waiting" /\ held = None /\ i \in Ids /\ i <= issued /\ i # None
      /\ UNCHANGED <<room, local, pollRoom, outcome, approving, effects, moves, lost>>
      /\ UNCHANGED <<activeGen, retired, issued>> /\ Gen = activeGen[Char]
  BY <1>1, <1>2 DEF PollAnswered, PollDelivers, Issued, Ids, None, BridgeTypeOK, Executing
<1>4. /\ actions[i] \in Action /\ ExpiredActions[i] = actions[i] /\ ~IsLaunched(actions[i])
      /\ actions[i].status \in PendingStatuses
      /\ actions[i].char = Char /\ actions[i].gen = Gen
  BY <1>1, <1>2, <1>3, ExpiredKept DEF PollDelivers, Deliverable, Addressed, Inv, ActionsOK,
     PendingStatuses
<1>5. actions'[i] = Deliver(actions[i])
  BY <1>2, <1>3, <1>4 DEF PollDelivers
<1>6. /\ actions'[i].char = Char /\ actions'[i].gen = Gen
      /\ actions[i].status = "queued" => actions'[i].status = "dispatched"
      /\ actions[i].status # "queued" => ~IsLaunched(actions'[i])
  <2>1. CASE actions[i].status = "queued"
    BY <1>4, <1>5, <2>1 DEF Deliver, Action
  <2>2. CASE actions[i].status # "queued"
    <3>1. actions'[i] = [actions[i] EXCEPT !.notified = TRUE]
      BY <1>5, <2>2 DEF Deliver
    <3>2. Kept(actions[i], actions'[i])
      BY <1>4, <3>1, FieldKept
    <3>. QED
      BY <1>4, <2>2, <3>2 DEF Kept
  <2>. QED
    BY <2>1, <2>2
<1>7. ASSUME NEW j \in Ids, j <= issued, j # i
      PROVE  Kept(actions[j], actions'[j])
  <2>1. \/ actions'[j] = ExpiredActions[j]
        \/ Stale(j, Char, Gen, pollRoom) /\ actions'[j] = Deny(ExpiredActions[j])
    BY <1>2, <1>7 DEF PollDelivers
  <2>2. Stale(j, Char, Gen, pollRoom) => Kept(actions[j], Deny(ExpiredActions[j]))
    BY <1>1, <1>7, ExpiredKept, FieldKept DEF Stale, Deny, PendingStatuses, RevokedStatuses
  <2>. QED
    BY <1>1, <1>7, <2>1, <2>2, ExpiredKept
<1>8. ASSUME NEW j \in Ids, j <= issued
      PROVE  ActionOK(j)'
  <2>1. ActionOK(j) /\ sent'[j] = sent[j] /\ sentIn'[j] = sentIn[j] /\ sent[j] \in Int
    BY <1>1, <1>3, <1>8 DEF DeliveryInv, effects, BridgeTypeOK
  <2>2. CASE j = i
    <3>1. sent[i] = 0 /\ sentIn[i] = {} /\ Length # 0
      BY <1>4, <2>1, <2>2, DeliveryConstants DEF ActionOK, LedgerOK
    <3>2. actions'[i].status # "completed"
      BY <1>4, <1>6 DEF IsLaunched, LaunchedStatuses
    <3>3. actions'[i].status = "dispatched" => phase' = "ordered"
      BY <1>2, <1>6 DEF IsLaunched, LaunchedStatuses
    <3>. QED
      BY <1>2, <1>3, <1>6, <2>1, <2>2, <3>1, <3>2, <3>3
         DEF ActionOK, LedgerOK, SessionOK, HolderOK, Executing
  <2>3. CASE j # i
    <3>1. Kept(actions[j], actions'[j])
      BY <1>7, <1>8, <2>3
    <3>2. /\ actions'[j].status = "completed" => actions[j].status = "completed"
          /\ actions'[j].status = "dispatched" => actions[j].status = "dispatched"
          /\ IsLaunched(actions'[j]) <=> IsLaunched(actions[j])
      BY <3>1 DEF Kept, IsLaunched, LaunchedStatuses
    <3>3. LedgerOK(j)'
      BY <2>1, <3>1, <3>2 DEF ActionOK, LedgerOK, Kept
    <3>4. SessionOK(j)'
      BY <1>3, <2>1, <3>1, <3>2 DEF ActionOK, SessionOK, Kept
    <3>5. HolderOK(j)'
      BY <1>3, <2>1, <3>2 DEF ActionOK, HolderOK, Executing
    <3>. QED
      BY <3>3, <3>4, <3>5 DEF ActionOK
  <2>. QED
    BY <2>2, <2>3
<1>9. BridgeTypeOK'
  BY <1>1, <1>2, <1>3 DEF BridgeTypeOK, Phases, Executing, approving, effects
<1>10. ThreadOK'
  <2>1. phase' = "ordered" => actions'[i].status = "dispatched" /\ sent'[i] = 0
    <3>1. sent[i] = 0
      BY <1>3, <1>4 DEF DeliveryInv, ActionOK, LedgerOK
    <3>. QED
      BY <1>2, <1>3, <1>6, <3>1 DEF effects
  <2>. QED
    BY <1>2, <1>3, <2>1 DEF ThreadOK, Executing
<1>11. ApprovalsOK' /\ UnissuedOK'
  BY <1>1, <1>3 DEF ApprovalsOK, UnissuedOK, approving, effects, BridgeTypeOK, Approval
<1>. QED
  BY <1>3, <1>8, <1>9, <1>10, <1>11 DEF DeliveryInv

\* A command goes to the game in the room the check just read, or the
\* sequence ends: only the held action's ledger is written.
LEMMA SendCommandInv ==
    ASSUME DeliveryInv, Inv', SendCommand
    PROVE  DeliveryInv'
<1>1. Inv /\ BridgeTypeOK /\ ThreadOK /\ ApprovalsOK /\ UnissuedOK
  BY DEF DeliveryInv
<1>2. /\ phase \in {"ordered", "running"} /\ phase \in Executing /\ held \in Ids /\ held <= issued
      /\ actions[held].status = "dispatched" /\ actions[held] \in Action
      /\ UNCHANGED <<vars, room, local, pollRoom, held, approving, moves, lost>>
  BY <1>1 DEF SendCommand, Executing, BridgeTypeOK, ThreadOK, Inv, ActionsOK
<1>3. CASE ~MayRun
  <2>1. phase' = "reporting" /\ outcome' = "failed" /\ UNCHANGED effects
    BY <1>3 DEF SendCommand
  <2>2. BridgeTypeOK'
    BY <1>1, <1>2, <2>1 DEF BridgeTypeOK, Phases, Executing, Completions, approving, effects
  <2>3. ApprovalsOK'
    BY <1>1, <1>2, <2>1 DEF ApprovalsOK, approving, BridgeTypeOK, Approval, vars
  <2>4. Quiet
    BY <1>1, <1>2, StillQuiet
  <2>5. held' # None => held' <= issued'
    BY <1>2 DEF vars
  <2>. QED
    BY <1>2, <2>1, <2>2, <2>3, <2>4, <2>5, QuietInv DEF Executing
<1>4. CASE MayRun
  <2>1. /\ sent' = [sent EXCEPT ![held] = @ + 1]
        /\ sentIn' = [sentIn EXCEPT ![held] = @ \cup {room}]
        /\ phase' = IF sent[held] + 1 = Length THEN "reporting" ELSE "running"
        /\ outcome' = IF sent[held] + 1 = Length THEN "sent_unverified" ELSE outcome
    BY <1>4 DEF SendCommand
  <2>2. sent[held] \in 0..Length /\ sent[held] < Length /\ Length \in Nat
    BY <1>1, <1>2, DeliveryConstants DEF BridgeTypeOK, ThreadOK
  <2>3. /\ sent'[held] = sent[held] + 1 /\ sentIn'[held] = sentIn[held] \cup {room}
        /\ \A j \in Ids : j # held => sent'[j] = sent[j] /\ sentIn'[j] = sentIn[j]
    BY <1>1, <1>2, <2>1 DEF BridgeTypeOK
  <2>4. BridgeTypeOK'
    <3>1. sent[held] + 1 \in 0..Length
      BY <2>2
    <3>2. sent' \in [Ids -> 0..Length] /\ sentIn' \in [Ids -> SUBSET Rooms]
      BY <1>1, <1>2, <2>1, <3>1 DEF BridgeTypeOK
    <3>3. phase' \in Executing /\ phase' \in Phases /\ outcome' \in Completions
      BY <1>1, <2>1 DEF BridgeTypeOK, Executing, Phases, Completions
    <3>. QED
      BY <1>1, <1>2, <3>2, <3>3 DEF BridgeTypeOK, approving
  <2>5. ThreadOK'
    <3>1. /\ phase' # "ordered"
          /\ phase' = "running" => sent'[held] < Length
          /\ phase' = "reporting" => outcome' = "sent_unverified" /\ sent'[held] = Length
      BY <2>1, <2>2, <2>3
    <3>. QED
      BY <1>2, <3>1 DEF ThreadOK, vars
  <2>6. ApprovalsOK'
    BY <1>1, <1>2 DEF ApprovalsOK, approving, BridgeTypeOK, Approval, vars, Executing
  <2>7. UnissuedOK'
    BY <1>1, <1>2, <2>3 DEF UnissuedOK, vars
  <2>8. ASSUME NEW j \in Ids, j <= issued
        PROVE  ActionOK(j)'
    <3>1. ActionOK(j) /\ UNCHANGED <<actions, activeGen, retired, lost, held>>
      BY <1>2, <2>8 DEF DeliveryInv, vars
    <3>2. phase' \in Executing
      BY <2>1 DEF Executing
    <3>3. SessionOK(j)' /\ HolderOK(j)'
      BY <1>2, <3>1, <3>2 DEF ActionOK, SessionOK, HolderOK
    <3>4. CASE j # held
      BY <2>3, <3>1, <3>3, <3>4 DEF ActionOK, LedgerOK
    <3>5. CASE j = held
      <4>1. IsLaunched(actions[j]) /\ actions[j].status # "completed" /\ sent'[j] # 0
        BY <1>2, <2>2, <2>3, <3>5 DEF IsLaunched, LaunchedStatuses
      <4>2. actions[j].confirm => sentIn'[j] = {actions[j].room}
        <5>. SUFFICES ASSUME actions[j].confirm PROVE sentIn'[j] = {actions[j].room}
          OBVIOUS
        <5>1. actions[j].room = room
          <6>1. actions[j].room # NoRoom
            BY <1>1, <1>2, <3>5, <4>1 DEF Inv, ActionsOK, Consistent, IsLaunched
          <6>. QED
            BY <1>4, <3>5, <6>1 DEF MayRun, RoomAgrees
        <5>2. sentIn[j] \in {{}, {actions[j].room}}
          BY <2>2, <3>1, <3>5 DEF ActionOK, LedgerOK
        <5>. QED
          BY <2>3, <3>5, <5>1, <5>2
      <4>. QED
        BY <3>1, <3>3, <4>1, <4>2 DEF ActionOK, LedgerOK
    <3>. QED
      BY <3>4, <3>5
  <2>. QED
    BY <1>2, <2>4, <2>5, <2>6, <2>7, <2>8 DEF DeliveryInv, vars
<1>. QED
  BY <1>3, <1>4

\* The report: "completed" is recorded of a sequence that was sent whole.
LEMMA ReportInv ==
    ASSUME DeliveryInv, Inv', Report
    PROVE  DeliveryInv'
<1>1. Inv /\ BridgeTypeOK /\ ThreadOK /\ ApprovalsOK /\ UnissuedOK
  BY DEF DeliveryInv
<1>2. /\ phase = "reporting" /\ held \in Ids /\ held <= issued
      /\ actions[held] \in Action /\ actions[held].status = "dispatched"
      /\ actions[held].char = Char /\ actions[held].gen = Gen
      /\ outcome \in {"sent_unverified", "failed"}
      /\ outcome = "sent_unverified" => sent[held] = Length
      /\ ActionOK(held)
  <2>1. phase = "reporting" /\ held \in Ids /\ held <= issued
    BY <1>1 DEF Report, BridgeTypeOK, ThreadOK, Executing
  <2>. QED
    BY <1>1, <2>1 DEF DeliveryInv, ActionOK, SessionOK, ThreadOK, Executing, Inv, ActionsOK
<1>3. /\ phase' = "idle" /\ held' = None /\ outcome' = "none"
      /\ UNCHANGED <<room, local, pollRoom, approving, effects, moves, lost>>
  BY DEF Report, Reported
<1>4. phase' \notin {"asked", "approving"} \cup Executing
  BY <1>3 DEF Executing
<1>5. BridgeTypeOK'
  BY <1>1, <1>3, <1>4 DEF BridgeTypeOK, Phases, Completions, approving, effects
<1>6. UNCHANGED <<activeGen, retired, issued>>
  BY DEF Report, RecordResult, vars
<1>7. ApprovalsOK' /\ UnissuedOK'
  BY <1>1, <1>2, <1>3, <1>6 DEF ApprovalsOK, approving, BridgeTypeOK, Approval, UnissuedOK, effects
<1>8. CASE Gen = activeGen[Char]
  <2>. DEFINE b == [actions[held] EXCEPT !.status = IF outcome = "failed" THEN "failed"
                                                    ELSE "completed",
                                         !.completion = outcome]
  <2>1. actions' = [actions EXCEPT ![held] = b]
    <3>1. RecordResult(held, Gen, outcome)
      BY <1>2, <1>8 DEF Report
    <3>. QED
      BY <1>2, <3>1 DEF RecordResult, Action
  <2>2. /\ actions'[held] = b
        /\ \A j \in Ids : j # held => actions'[j] = actions[j]
    BY <1>1, <1>2, <2>1 DEF Inv, ActionsOK
  <2>3. /\ b.confirm = actions[held].confirm /\ b.room = actions[held].room
        /\ b.status \in {"failed", "completed"} /\ (b.status = "completed" => outcome # "failed")
    BY <1>2 DEF Action
  <2>. HIDE DEF b
  <2>4. ASSUME NEW j \in Ids, j <= issued
        PROVE  ActionOK(j)'
    <3>1. ActionOK(j) /\ sent'[j] = sent[j] /\ sentIn'[j] = sentIn[j]
      BY <1>3, <2>4 DEF DeliveryInv, effects
    <3>2. CASE j = held
      <4>1. IsLaunched(b) /\ b.status # "dispatched"
        BY <2>3 DEF IsLaunched, LaunchedStatuses
      <4>. QED
        BY <1>2, <2>2, <2>3, <3>1, <3>2, <4>1 DEF ActionOK, LedgerOK, SessionOK, HolderOK
    <3>3. CASE j # held
      <4>1. lost = 0 => actions[j].status # "dispatched"
        BY <1>8, <3>1, <3>3 DEF ActionOK, HolderOK
      <4>. QED
        BY <1>3, <1>6, <2>2, <3>1, <3>3, <4>1 DEF ActionOK, LedgerOK, SessionOK, HolderOK
    <3>. QED
      BY <3>2, <3>3
  <2>5. ThreadOK'
    BY <1>3, <1>4 DEF ThreadOK, Executing
  <2>. QED
    BY <1>5, <1>6, <1>7, <2>4, <2>5 DEF DeliveryInv
<1>9. CASE Gen # activeGen[Char]
  <2>1. UNCHANGED vars
    BY <1>9 DEF Report
  <2>2. Quiet
    BY <1>1, <2>1, StillQuiet
  <2>3. activeGen'[Char] # Gen
    BY <1>9, <2>1 DEF vars
  <2>. QED
    BY <1>3, <1>4, <1>5, <1>7, <2>2, <2>3, QuietInv
<1>. QED
  BY <1>8, <1>9

-----------------------------------------------------------------------------
(* Theorems.                                                                *)

\* The broker's own invariant: this bridge uses it through its own steps.
LEMMA BrokerInv ==
    ASSUME DeliveryInv, [DeliveryNext]_dvars
    PROVE  Inv'
<1>1. Inv /\ BridgeTypeOK /\ ThreadOK /\ ApprovalsOK /\ Char \in Characters /\ Gen \in Generations
  BY DeliveryConstants DEF DeliveryInv
<1>2. ASSUME BrokerStep PROVE Next
  <2>1. ASSUME NEW k \in Kinds, NEW confirm \in BOOLEAN, NEW r \in Rooms \cup {NoRoom},
               NEW life \in 1..MaxLifetime, Submit(Char, k, confirm, r, life, 0)
        PROVE  Next
    BY <1>1, <2>1, BrokerConstants DEF Next, Time
  <2>. QED
    BY <1>1, <1>2, <2>1 DEF BrokerStep, Next
<1>3. PollAnswered \/ PollContinues \/ PollEnds => Next
  BY <1>1 DEF PollAnswered, PollContinues, PollEnds, Next, BridgeTypeOK
<1>4. ASSUME NEW a \in approvals, Handles(a) \/ ApprovalAnswerLost(a) PROVE Next
  <2>1. a.id \in Issued /\ a.room \in Rooms
    BY <1>1 DEF BridgeTypeOK, ApprovalsOK, Approval, Issued
  <2>. QED
    BY <1>1, <1>4, <2>1 DEF Handles, ApprovalHandled, ApprovalRefused, ApprovalAnswerLost, Next
<1>5. ASSUME Report PROVE Next \/ UNCHANGED vars
  <2>1. held \in Issued /\ outcome \in Completions \ {"none"}
    <3>1. phase = "reporting" /\ held \in Ids /\ held <= issued
      BY <1>1, <1>5 DEF Report, BridgeTypeOK, ThreadOK, Executing
    <3>. QED
      BY <1>1, <3>1 DEF ThreadOK, Issued, Completions
  <2>. QED
    BY <1>1, <1>5, <2>1 DEF Report, Next
<1>6. \/ Walk \/ \E on \in BOOLEAN : SwitchLocal(on)
      \/ SendPoll \/ \E auto \in BOOLEAN : Notice(auto)
      \/ SendCommand \/ AnswerLost \/ RunFails \/ ReportLost \/ PlayerApproves
      \/ UNCHANGED dvars
      => UNCHANGED vars
  BY DEF Walk, SwitchLocal, SendPoll, Notice, SendCommand, AnswerLost, RunFails, ReportLost,
         PlayerApproves, dvars
<1>7. Next \/ UNCHANGED vars
  BY <1>2, <1>3, <1>4, <1>5, <1>6 DEF DeliveryNext, ActionThread
<1>. QED
  BY <1>1, <1>7, NextInv

\* Nothing was sent, nothing is held.
LEMMA DeliveryInitInv ==
    DeliveryInit => DeliveryInv
<1>. SUFFICES ASSUME DeliveryInit PROVE DeliveryInv
  OBVIOUS
<1>1. Inv /\ issued = 0 /\ \A i \in Ids : ~(i <= issued)
  BY InitInv DEF DeliveryInit, Init, Ids
<1>2. 0 \in 0..Length /\ 0 \in 0..MaxLost /\ 0 \in 0..MaxMoves
  BY DeliveryConstants
<1>3. BridgeTypeOK
  BY <1>2 DEF DeliveryInit, BridgeTypeOK, Phases, Executing, None, Completions
<1>4. ThreadOK /\ ApprovalsOK /\ UnissuedOK
  BY DEF DeliveryInit, ThreadOK, ApprovalsOK, UnissuedOK, Executing, None
<1>. QED
  BY <1>1, <1>3, <1>4 DEF DeliveryInv

\* Every step keeps the invariant.
LEMMA DeliveryNextInv ==
    DeliveryInv /\ [DeliveryNext]_dvars => DeliveryInv'
<1>. SUFFICES ASSUME DeliveryInv, [DeliveryNext]_dvars PROVE DeliveryInv'
  OBVIOUS
<1>1. Inv'
  BY BrokerInv
<1>2. CASE UNCHANGED dvars
  <2>1. Quiet
    BY <1>2, StillQuiet DEF dvars, DeliveryInv
  <2>. QED
    BY <1>1, <1>2, <2>1, FrameInv DEF dvars, bridge, approving, DeliveryInv, BridgeTypeOK
<1>3. CASE DeliveryNext
  BY <1>1, <1>3, AroundInv, PollInv, NoticeInv, PlayerApprovesInv, ApprovalInv, FailureInv,
     PollAnsweredInv, SendCommandInv, ReportInv DEF DeliveryNext, ActionThread
<1>. QED
  BY <1>2, <1>3

\* What went to the game, what the broker records of it and who has it in
\* hand, in every reachable state.
THEOREM DeliveryInvariance == DeliverySpec => []DeliveryInv
<1>1. DeliveryInit => DeliveryInv
  BY DeliveryInitInv
<1>2. DeliveryInv /\ [DeliveryNext]_dvars => DeliveryInv'
  BY DeliveryNextInv
<1>. QED
  BY <1>1, <1>2, PTL DEF DeliverySpec

\* However the character walks between consent, delivery and the steps of a
\* sequence, confirmed commands are sent where consent was given
\* (execute_action_sequence, approve and _poll_locked together).
THEOREM ConsentIsKept == DeliverySpec => []SentWhereConsented
<1>1. DeliveryInv => SentWhereConsented
  BY DEF DeliveryInv, ActionOK, LedgerOK, SentWhereConsented, Issued
<1>. QED
  BY <1>1, DeliveryInvariance, PTL

\* Whatever is lost or fails half way, "completed" says that all commands of
\* the sequence were sent.
THEOREM ReportsAreTrue == DeliverySpec => []CompletionIsTruthful
<1>1. DeliveryInv => CompletionIsTruthful
  BY DEF DeliveryInv, ActionOK, LedgerOK, CompletionIsTruthful, Issued
<1>. QED
  BY <1>1, DeliveryInvariance, PTL

\* Whatever is lost and polled again, an action is held by the broker or by
\* one thread of the bridge, and nothing is sent twice.
THEOREM HolderIsUnique == DeliverySpec => []OneHolder
<1>1. DeliveryInv => OneHolder
  <2>. SUFFICES ASSUME DeliveryInv PROVE OneHolder
    OBVIOUS
  <2>1. ASSUME NEW i \in Issued
        PROVE  /\ sent[i] <= Length
               /\ actions[i].status \in PendingStatuses \cup RevokedStatuses => sent[i] = 0
    <3>1. i \in Ids /\ ActionOK(i) /\ sent[i] \in 0..Length
      BY DEF DeliveryInv, BridgeTypeOK, Issued
    <3>2. actions[i].status \in PendingStatuses \cup RevokedStatuses => ~IsLaunched(actions[i])
      BY DEF PendingStatuses, RevokedStatuses, LaunchedStatuses, IsLaunched
    <3>. QED
      BY <3>1, <3>2 DEF ActionOK, LedgerOK
  <2>2. phase \in Executing => actions[held].status = "dispatched"
    BY DEF DeliveryInv, ThreadOK
  <2>3. lost = 0 /\ activeGen[Char] = Gen =>
          \A i \in Issued : actions[i].status = "dispatched" => held = i /\ phase \in Executing
    BY DEF DeliveryInv, ActionOK, HolderOK, Issued
  <2>. QED
    BY <2>1, <2>2, <2>3 DEF OneHolder
<1>. QED
  BY <1>1, DeliveryInvariance, PTL
=============================================================================
