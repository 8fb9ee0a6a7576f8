-------------------------- MODULE BridgeSwitchProofs --------------------------
(***************************************************************************)
(* Proofs about BridgeSwitch, for any number of commands, restarts and     *)
(* losses.  That an OFF holds is not inductive: a request that would       *)
(* switch on again may still be on its way, and NobodySwitchesOn says that *)
(* none is, but for the race the property leaves out.                      *)
(***************************************************************************)
EXTENDS BridgeSwitch, TLAPS

\* Off is off as long as no worker is left that could switch on again.
NobodySwitchesOn == lastSwitch = "off" /\ ~raced => ~local /\ ~OnOutstanding

SwitchInv ==
    /\ SwitchTypeOK
    /\ NobodySwitchesOn
    /\ auto => delegated

LEMMA SwitchInitially == Init => SwitchInv
<1> SUFFICES ASSUME Init
             PROVE  SwitchInv
  OBVIOUS
<1>1. requests \in [RequestIds -> [want: BOOLEAN, at: RequestStates]]
  BY DEF Init, RequestStates
<1>2. restarts \in 0..MaxRestarts /\ lost \in 0..MaxLost
  BY SwitchConstants DEF Init
<1> QED  BY <1>1, <1>2 DEF Init, SwitchInv, SwitchTypeOK, NobodySwitchesOn, LoopStates

\* A request that goes on keeps what it wants.
LEMMA RequestGoesOn ==
    ASSUME SwitchInv, NEW q \in RequestIds, NEW where \in RequestStates,
           requests' = [requests EXCEPT ![q].at = where],
           where = "done" \/ requests[q].at \in {"queued", "posted", "answered"}
    PROVE  /\ requests' \in [RequestIds -> [want: BOOLEAN, at: RequestStates]]
           /\ OnOutstanding' => OnOutstanding
<1>1. requests \in [RequestIds -> [want: BOOLEAN, at: RequestStates]]
  BY DEF SwitchInv, SwitchTypeOK
<1>2. /\ requests' \in [RequestIds -> [want: BOOLEAN, at: RequestStates]]
      /\ requests'[q].want = requests[q].want /\ requests'[q].at = where
      /\ \A p \in RequestIds \ {q} : requests'[p] = requests[p]
  BY <1>1
<1>3. OnOutstanding' => OnOutstanding
  BY <1>2 DEF OnOutstanding
<1> QED  BY <1>2, <1>3

\* A new request is outstanding only when it wants the switch on.
LEMMA RequestIsMade ==
    ASSUME SwitchInv, NEW want \in BOOLEAN, Enqueue(want)
    PROVE  /\ requests' \in [RequestIds -> [want: BOOLEAN, at: RequestStates]]
           /\ OnOutstanding' => want \/ OnOutstanding
<1>1. PICK q \in RequestIds : requests' = [requests EXCEPT ![q] = [want |-> want, at |-> "queued"]]
  BY DEF Enqueue
<1>2. requests \in [RequestIds -> [want: BOOLEAN, at: RequestStates]]
  BY DEF SwitchInv, SwitchTypeOK
<1>3. /\ requests' \in [RequestIds -> [want: BOOLEAN, at: RequestStates]]
      /\ requests'[q].want = want
      /\ \A p \in RequestIds \ {q} : requests'[p] = requests[p]
  BY <1>1, <1>2 DEF RequestStates
<1> QED  BY <1>3 DEF OnOutstanding

\* handle_command
LEMMA CommandsKept ==
    ASSUME SwitchInv,
           ActionsOn \/ ActionsOff \/ \E on \in BOOLEAN : ApproveAuto(on)
    PROVE  SwitchInv'
<1>1. CASE ActionsOn
  BY <1>1, RequestIsMade
     DEF ActionsOn, sidecar, budgets, SwitchInv, SwitchTypeOK, NobodySwitchesOn
<1>2. CASE ActionsOff
  <2>1. /\ requests' \in [RequestIds -> [want: BOOLEAN, at: RequestStates]]
        /\ OnOutstanding' => OnOutstanding
    BY <1>2, RequestIsMade DEF ActionsOff
  <2>2. OnOutstanding \in BOOLEAN
    BY DEF OnOutstanding
  <2> QED  BY <1>2, <2>1, <2>2
           DEF ActionsOff, SwitchedOff, sidecar, budgets, SwitchInv, SwitchTypeOK, NobodySwitchesOn
<1>3. CASE \E on \in BOOLEAN : ApproveAuto(on)
  BY <1>3 DEF ApproveAuto, sidecar, budgets, SwitchInv, SwitchTypeOK, NobodySwitchesOn, OnOutstanding
<1> QED  BY <1>1, <1>2, <1>3

\* set_actions: whoever switches on was outstanding.
LEMMA WorkerKept ==
    ASSUME SwitchInv, NEW q \in RequestIds, Worker(q) \/ ControlLost(q)
    PROVE  SwitchInv'
<1>1. {"done", "posted", "answered"} \subseteq RequestStates
  BY DEF RequestStates
<1>2. CASE SetActionsRefused(q)
  <2>1. /\ requests' \in [RequestIds -> [want: BOOLEAN, at: RequestStates]]
        /\ OnOutstanding' => OnOutstanding
    BY <1>1, <1>2, RequestGoesOn DEF SetActionsRefused, Ended
  <2> QED  BY <1>2, <2>1 DEF SetActionsRefused, sidecar, budgets, history, SwitchInv, SwitchTypeOK, NobodySwitchesOn
<1>3. CASE SetActionsPosts(q)
  <2>1. /\ requests' \in [RequestIds -> [want: BOOLEAN, at: RequestStates]]
        /\ OnOutstanding' => OnOutstanding
    BY <1>1, <1>3, RequestGoesOn DEF SetActionsPosts
  <2>2. requests[q].want \in BOOLEAN /\ (requests[q].want => OnOutstanding)
    BY <1>3 DEF SetActionsPosts, OnOutstanding, SwitchInv, SwitchTypeOK
  <2> QED  BY <1>3, <2>1, <2>2 DEF SetActionsPosts, sidecar, budgets, history, SwitchInv, SwitchTypeOK, NobodySwitchesOn
<1>4. CASE ControlHandled(q)
  <2>1. /\ requests' \in [RequestIds -> [want: BOOLEAN, at: RequestStates]]
        /\ OnOutstanding' => OnOutstanding
    BY <1>1, <1>4, RequestGoesOn DEF ControlHandled
  <2>2. requests[q].want \in BOOLEAN
    BY DEF SwitchInv, SwitchTypeOK
  <2> QED  BY <1>4, <2>1, <2>2 DEF ControlHandled, budgets, history, SwitchInv, SwitchTypeOK, NobodySwitchesOn
<1>5. CASE ControlRefused(q)
  <2>1. /\ requests' \in [RequestIds -> [want: BOOLEAN, at: RequestStates]]
        /\ OnOutstanding' => OnOutstanding
    BY <1>1, <1>5, RequestGoesOn DEF ControlRefused, Ended
  <2> QED  BY <1>5, <2>1 DEF ControlRefused, sidecar, budgets, history, SwitchInv, SwitchTypeOK, NobodySwitchesOn
<1>6. CASE ControlAdopted(q)
  <2>1. /\ requests' \in [RequestIds -> [want: BOOLEAN, at: RequestStates]]
        /\ OnOutstanding' => OnOutstanding
    BY <1>1, <1>6, RequestGoesOn DEF ControlAdopted, Ended
  <2>2. requests[q].want \in BOOLEAN /\ (requests[q].want => OnOutstanding)
    BY <1>6 DEF ControlAdopted, OnOutstanding, SwitchInv, SwitchTypeOK
  <2> QED  BY <1>6, <2>1, <2>2 DEF ControlAdopted, sidecar, budgets, history, SwitchInv, SwitchTypeOK, NobodySwitchesOn
<1>7. CASE ControlLost(q)
  <2>1. /\ requests' \in [RequestIds -> [want: BOOLEAN, at: RequestStates]]
        /\ OnOutstanding' => OnOutstanding
    BY <1>1, <1>7, RequestGoesOn DEF ControlLost, Ended
  <2>2. lost' \in 0..MaxLost
    BY <1>7, SwitchConstants DEF ControlLost, SwitchInv, SwitchTypeOK
  <2> QED  BY <1>7, <2>1, <2>2 DEF ControlLost, sidecar, history, SwitchInv, SwitchTypeOK, NobodySwitchesOn
<1> QED  BY <1>2, <1>3, <1>4, <1>5, <1>6, <1>7 DEF Worker

\* The action loop only ever switches off.
LEMMA LoopKept ==
    ASSUME SwitchInv, ActionThread \/ RegistrationLost \/ RegistrationDue \/ KillSwitch
    PROVE  SwitchInv'
<1>1. requests' = requests /\ (OnOutstanding' <=> OnOutstanding) /\ OnOutstanding \in BOOLEAN
  BY DEF ActionThread, LoopStarts, LoopStops, LoopGoesOn, Reconcile, RegistrationHandled, Registered,
     PollEnds, ExecutionEnds, RegistrationLost, RegistrationDue, KillSwitch, OnOutstanding
<1>2. CASE ActionThread
  <2>1. SwitchTypeOK' /\ (local' => local) /\ auto' = auto
        /\ lastSwitch' = lastSwitch /\ raced' = raced /\ delegated' = delegated
    <3>1. CASE Reconcile
      <4>1. due' \in BOOLEAN /\ local' \in BOOLEAN /\ (local' => local) /\ loop' \in LoopStates
        BY <3>1 DEF Reconcile, LoopStates
      <4> QED  BY <1>1, <3>1, <4>1 DEF Reconcile, sidecar, budgets, history, SwitchInv, SwitchTypeOK
    <3>2. CASE RegistrationHandled
      BY <1>1, <3>2 DEF RegistrationHandled, budgets, history, SwitchInv, SwitchTypeOK, LoopStates
    <3>3. CASE LoopStarts \/ LoopStops \/ LoopGoesOn \/ Registered \/ PollEnds \/ ExecutionEnds
      BY <1>1, <3>3 DEF LoopStarts, LoopStops, LoopGoesOn, Registered, PollEnds, ExecutionEnds,
         sidecar, budgets, history, SwitchInv, SwitchTypeOK, LoopStates
    <3> QED  BY <1>2, <3>1, <3>2, <3>3 DEF ActionThread
  <2> QED  BY <1>1, <2>1 DEF SwitchInv, NobodySwitchesOn
<1>3. CASE RegistrationLost
  <2>1. lost' \in 0..MaxLost
    BY <1>3, SwitchConstants DEF RegistrationLost, SwitchInv, SwitchTypeOK
  <2> QED  BY <1>1, <1>3, <2>1 DEF RegistrationLost, sidecar, history, SwitchInv, SwitchTypeOK, NobodySwitchesOn, LoopStates
<1>4. CASE RegistrationDue
  BY <1>1, <1>4 DEF RegistrationDue, sidecar, budgets, history, SwitchInv, SwitchTypeOK, NobodySwitchesOn
<1>5. CASE KillSwitch
  <2>1. SwitchTypeOK'
    BY <1>1, <1>5 DEF KillSwitch, SwitchedOff, sidecar, budgets, SwitchInv, SwitchTypeOK, LoopStates
  <2>2. ~local' /\ raced' = OnOutstanding /\ auto' = auto /\ delegated' = delegated
    BY <1>5 DEF KillSwitch, SwitchedOff
  <2> QED  BY <1>1, <2>1, <2>2 DEF SwitchInv, NobodySwitchesOn
<1> QED  BY <1>2, <1>3, <1>4, <1>5

LEMMA SidecarKept ==
    ASSUME SwitchInv, SnapshotAccepted \/ SnapshotRejected \/ SidecarRestarts
    PROVE  SwitchInv'
<1>1. requests' = requests /\ (OnOutstanding' <=> OnOutstanding) /\ OnOutstanding \in BOOLEAN
  BY DEF SnapshotAccepted, SnapshotRejected, SidecarRestarts, bridge, OnOutstanding
<1>2. restarts' \in 0..MaxRestarts
  BY SwitchConstants DEF SnapshotAccepted, SnapshotRejected, SidecarRestarts, budgets, SwitchInv, SwitchTypeOK
<1>3. CASE SnapshotAccepted \/ SidecarRestarts
  <2>1. SwitchTypeOK'
    BY <1>1, <1>2, <1>3 DEF SnapshotAccepted, SidecarRestarts, bridge, budgets, history, SwitchInv, SwitchTypeOK
  <2>2. local' = local /\ auto' = auto /\ lastSwitch' = lastSwitch /\ raced' = raced /\ delegated' = delegated
    BY <1>3 DEF SnapshotAccepted, SidecarRestarts, bridge, history
  <2> QED  BY <1>1, <2>1, <2>2 DEF SwitchInv, NobodySwitchesOn
<1>4. CASE SnapshotRejected
  <2>1. SwitchTypeOK'
    BY <1>1, <1>2, <1>4 DEF SnapshotRejected, SwitchedOff, budgets, SwitchInv, SwitchTypeOK
  <2>2. ~local' /\ raced' = OnOutstanding /\ auto' = auto /\ delegated' = delegated
    BY <1>4 DEF SnapshotRejected, SwitchedOff
  <2> QED  BY <1>1, <2>1, <2>2 DEF SwitchInv, NobodySwitchesOn
<1> QED  BY <1>3, <1>4

THEOREM SwitchInvariance == Spec => []SwitchInv
<1>1. ASSUME SwitchInv, [Next]_vars
      PROVE  SwitchInv'
  <2>1. CASE Next
    BY <1>1, <2>1, CommandsKept, WorkerKept, LoopKept, SidecarKept DEF Next
  <2>2. CASE UNCHANGED vars
    BY <1>1, <2>2 DEF vars, bridge, sidecar, budgets, history, SwitchInv, SwitchTypeOK, NobodySwitchesOn,
       OnOutstanding
  <2> QED  BY <1>1, <2>1, <2>2
<1> QED  BY <1>1, SwitchInitially, PTL DEF Spec

(***************************************************************************)
(* lab-bridge.lic: once actions were switched off with no ON under way,    *)
(* only a new `on` switches them on, and only `approve auto` restores the  *)
(* standing delegation, through every order of workers, answers, losses,   *)
(* registrations and restarts of the sidecar.                              *)
(***************************************************************************)
THEOREM OffIsOff == Spec => []OffHolds
<1>1. SwitchInv => OffHolds
  BY DEF SwitchInv, NobodySwitchesOn, OffHolds
<1> QED  BY <1>1, SwitchInvariance, PTL
=============================================================================
