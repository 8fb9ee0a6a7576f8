------------------------ MODULE OperationRunnerProofs ------------------------
(***************************************************************************)
(* Proofs about OperationRunner, for any number of characters, operations, *)
(* actions, controls and kinds of capability.                              *)
(*                                                                         *)
(* An operation's record, its action at the broker and the client that     *)
(* stops it are three parties that never look at each other in one lock.   *)
(* PointsOK says what the record itself shows at each point of the worker, *)
(* SettledOK what has happened to the action by then, and StopperOK what a *)
(* returned interrupt has achieved.  Later says what every step of the     *)
(* broker preserves of an action, so that what is settled stays settled.   *)
(***************************************************************************)
EXTENDS OperationRunner, ActionBrokerProofs, FiniteSetTheorems

Before == {"start", "admit", "check", "begin", "submit"}
InStep == {"associate", "recheck", "look", "read", "finally", "drain", "verify", "finish"}
Aborting == {"drain", "stop test", "end", "revoke"}
AfterFinally == {"verify", "finish", "stop test", "end", "revoke", "done"}

WithControls == {"controlled", "refuge"}
WithFinally == {"recon", "travel"}

PointsOK(x) ==
    /\ x.pc # "idle"
    /\ x.status \in Terminal <=> x.pc \in {"revoke", "done"}
    /\ x.pc \in Aborting => x.abort # ""
    /\ x.pc = "revoke" => x.status # "succeeded"
    /\ x.pc \in Before => x.action = 0
    /\ x.pc \in InStep => x.action # 0
    /\ x.pc = "recheck" => x.kind \in WithFinally \cup {"test"}
    /\ x.pc = "look" => x.kind = "recon"
    /\ x.pc = "finally" => x.kind \in WithFinally
    /\ x.pc = "drain" => x.kind \in {"test", "refuge"}
    /\ x.owned => x.action # 0 /\ x.kind # "plain" /\ x.pc \notin {"associate", "done"}
    /\ x.action # 0 /\ x.kind \in WithFinally /\ ~x.owned => x.pc \in {"associate"} \cup AfterFinally
    /\ x.action # 0 /\ x.kind \in WithControls \cup {"test"} /\ ~x.owned =>
         x.pc \in {"associate", "done"}
    /\ x.controls # {} => x.owned /\ x.kind \in WithControls
    /\ x.status = "succeeded" /\ x.kind \notin {"recon", "plain"} => ~x.interrupted /\ ~x.graceful

\* The action is one of the n issued and the operation's own, and so are its
\* controls.
LinkOK(x, a, n) ==
    /\ x.action # 0 => x.action \in Ids /\ x.action <= n /\ a.kind = CommandKind(x.kind)
    /\ \A i \in x.controls : i <= n

Stopped(a) == ~IsPending(a) /\ (IsLaunched(a) => a.stop)

\* What the worker has made of the action a when it stands at its point.
SettledOK(x, a) ==
    x.action # 0 =>
        /\ x.kind \in WithFinally /\ x.pc \in AfterFinally =>
             /\ ~IsPending(a)
             /\ x.kind = "travel" /\ a.status = "dispatched" => a.stop
        /\ x.kind \in WithControls \cup {"test"} =>
             /\ x.pc \in {"verify", "finish"} \/ x.status = "succeeded" => ~IsPending(a)
             /\ x.pc = "done" /\ x.status # "succeeded" => Stopped(a)
        /\ x.kind = "test" /\ x.pc \in {"end", "revoke"} => Stopped(a)

\* What a client that calls interrupt has made of it.
StopperOK(x, s, a) ==
    /\ s = "idle" => ~x.interrupted
    /\ s = "calling" => x.action # 0 /\ x.kind \in WithFinally \cup {"test"}
    /\ s = "returned" /\ x.interrupted /\ x.action # 0 /\ x.kind # "plain"
       /\ x.pc \notin {"associate", "recheck", "finally"} => ~IsPending(a)

OpOK(o) ==
    IF op[o] = NoOperation THEN stopper[o] = "idle"
    ELSE /\ op[o] \in Operation
         /\ PointsOK(op[o])
         /\ LinkOK(op[o], OwnAction(o), issued)
         /\ SettledOK(op[o], OwnAction(o))
         /\ StopperOK(op[o], stopper[o], OwnAction(o))

ControlsOK ==
    \A i \in Ids : /\ i <= issued /\ actions[i].kind = "control"
                   /\ IsPending(actions[i]) /\ ~(now >= actions[i].expiresAt)
                   => \E o \in Created : i \in op[o].controls

\* The history remembers every operation that goes on, one per character.
KnownOK ==
    /\ known \subseteq Created /\ IsFiniteSet(known) /\ Cardinality(known) <= HistoryLimit
    /\ \A o \in Created : ~Ended(o) => o \in known
    /\ \A o \in Created, p \in Created : ~Ended(o) /\ ~Ended(p) /\ op[o].char = op[p].char => o = p

RunnerInv ==
    /\ Inv
    /\ op = [o \in Ops |-> op[o]]
    /\ stopper \in [Ops -> {"idle", "marked", "calling", "returned"}]
    /\ handoff \in [Characters -> {0} \cup Ops]
    /\ \A o \in Ops : OpOK(o)
    /\ ControlsOK
    /\ KnownOK

-----------------------------------------------------------------------------
(* What every step of the broker preserves of an action.                    *)

Later(a, b) ==
    /\ b.kind = a.kind /\ b.expiresAt = a.expiresAt
    /\ a.stop => b.stop
    /\ ~IsPending(a) => /\ ~IsPending(b)
                        /\ IsLaunched(b) => IsLaunched(a)
                        /\ b.status = "dispatched" => a.status = "dispatched"

\* What keeps its status, and what was pending.
LEMMA SameLater ==
    ASSUME NEW a, NEW b, b.kind = a.kind, b.expiresAt = a.expiresAt, a.stop => b.stop,
           b.status = a.status \/ IsPending(a)
    PROVE  Later(a, b)
BY DEF Later, IsPending, IsLaunched

\* Steps follow one another.
LEMMA LaterTrans ==
    ASSUME NEW a, NEW b, NEW d, Later(a, b), Later(b, d)
    PROVE  Later(a, d)
BY DEF Later

\* A change of single fields.
LEMMA FieldLater ==
    ASSUME NEW a \in Action
    PROVE  /\ Later(a, a)
           /\ Later(a, [a EXCEPT !.stop = TRUE])
           /\ Later(a, [a EXCEPT !.return = TRUE])
           /\ Later(a, [a EXCEPT !.notified = TRUE])
           /\ IsPending(a) => \A s \in PendingStatuses \cup LaunchedStatuses \cup RevokedStatuses :
                Later(a, [a EXCEPT !.status = s])
           /\ IsPending(a) => \A r \in Rooms : Later(a, [a EXCEPT !.room = r, !.status = "queued"])
           /\ a.status = "dispatched" => \A s \in {"failed", "completed"}, o \in Completions :
                Later(a, [a EXCEPT !.status = s, !.completion = o])
<1>1. Later(a, a)
  BY SameLater
<1>2. Later(a, [a EXCEPT !.stop = TRUE])
  <2>. DEFINE b == [a EXCEPT !.stop = TRUE]
  <2>1. b.kind = a.kind /\ b.expiresAt = a.expiresAt /\ b.stop /\ b.status = a.status
    BY DEF Action
  <2>. QED
    BY <2>1, SameLater
<1>3. Later(a, [a EXCEPT !.return = TRUE]) /\ Later(a, [a EXCEPT !.notified = TRUE])
  <2>. DEFINE b == [a EXCEPT !.return = TRUE]
              d == [a EXCEPT !.notified = TRUE]
  <2>1. b.kind = a.kind /\ b.expiresAt = a.expiresAt /\ b.stop = a.stop /\ b.status = a.status
    BY DEF Action
  <2>2. d.kind = a.kind /\ d.expiresAt = a.expiresAt /\ d.stop = a.stop /\ d.status = a.status
    BY DEF Action
  <2>. QED
    BY <2>1, <2>2, SameLater
<1>4. ASSUME IsPending(a), NEW s \in PendingStatuses \cup LaunchedStatuses \cup RevokedStatuses
      PROVE  Later(a, [a EXCEPT !.status = s])
  <2>. DEFINE b == [a EXCEPT !.status = s]
  <2>1. b.kind = a.kind /\ b.expiresAt = a.expiresAt /\ b.stop = a.stop
    BY DEF Action
  <2>. QED
    BY <1>4, <2>1, SameLater
<1>5. ASSUME IsPending(a), NEW r \in Rooms
      PROVE  Later(a, [a EXCEPT !.room = r, !.status = "queued"])
  <2>. DEFINE b == [a EXCEPT !.room = r, !.status = "queued"]
  <2>1. b.kind = a.kind /\ b.expiresAt = a.expiresAt /\ b.stop = a.stop
    BY DEF Action
  <2>. QED
    BY <1>5, <2>1, SameLater
<1>6. ASSUME a.status = "dispatched", NEW s \in {"failed", "completed"}, NEW o \in Completions
      PROVE  Later(a, [a EXCEPT !.status = s, !.completion = o])
  <2>. DEFINE b == [a EXCEPT !.status = s, !.completion = o]
  <2>1. b.kind = a.kind /\ b.expiresAt = a.expiresAt /\ b.stop = a.stop /\ b.status = s
    BY DEF Action
  <2>2. IsLaunched(a) /\ ~IsPending(b) /\ b.status # "dispatched"
    BY <1>6, <2>1 DEF IsLaunched, IsPending, LaunchedStatuses, PendingStatuses
  <2>. QED
    BY <2>1, <2>2 DEF Later
<1>. QED
  BY <1>1, <1>2, <1>3, <1>4, <1>5, <1>6

\* The helpers of the broker.
LEMMA HelperLater ==
    ASSUME NEW a \in Action
    PROVE  /\ Later(a, Expire(a)) /\ Later(a, Withdraw(a)) /\ Later(a, Revoke(a))
           /\ IsPending(a) => Later(a, Deliver(a)) /\ Later(a, Deny(a))
<1>1. Later(a, Expire(a)) /\ Later(a, Withdraw(a))
  BY FieldLater DEF Expire, Withdraw, RevokedStatuses
<1>2. Later(a, Revoke(a))
  BY <1>1, FieldLater DEF Revoke
<1>3. IsPending(a) => Later(a, Deliver(a)) /\ Later(a, Deny(a))
  BY FieldLater DEF Deliver, Deny, LaunchedStatuses, RevokedStatuses
<1>. QED
  BY <1>1, <1>2, <1>3

\* A withdrawal leaves nothing deliverable, a revocation stops the rest.
LEMMA WithdrawnStopped ==
    ASSUME NEW a \in Action
    PROVE  /\ Withdraw(a) \in Action /\ ~IsPending(Withdraw(a))
           /\ Withdraw(a).status = "dispatched" => a.status = "dispatched"
           /\ Stopped([Withdraw(a) EXCEPT !.stop = TRUE])
           /\ Later(a, [Withdraw(a) EXCEPT !.stop = TRUE])
           /\ IsStoppable(a) => Stopped(Revoke(a))
<1>. DEFINE w == Withdraw(a)
            b == [w EXCEPT !.stop = TRUE]
<1>1. /\ w \in Action /\ ~IsPending(w)
      /\ IsLaunched(w) => w = a
  BY DEF Withdraw, Action, IsPending, IsLaunched, PendingStatuses, LaunchedStatuses, RevokedStatuses
<1>2. b.stop /\ b.status = w.status
  BY <1>1 DEF Action
<1>3. Stopped(b)
  BY <1>1, <1>2 DEF Stopped, IsPending
<1>4. Later(a, b)
  BY <1>1, HelperLater, FieldLater, LaterTrans
<1>5. IsStoppable(a) => Stopped(Revoke(a))
  <2>1. CASE IsLaunched(a)
    <3>. DEFINE c == [a EXCEPT !.stop = TRUE]
    <3>1. c.stop /\ c.status = a.status
      BY DEF Action
    <3>2. ~IsPending(c)
      BY <2>1, <3>1 DEF IsPending, IsLaunched, PendingStatuses, LaunchedStatuses
    <3>. QED
      BY <2>1, <3>1, <3>2 DEF Stopped, Revoke
  <2>2. CASE ~IsLaunched(a)
    BY <1>1, <2>2 DEF Stopped, Revoke
  <2>. QED
    BY <2>1, <2>2
<1>6. w.status = "dispatched" => a.status = "dispatched"
  BY <1>1 DEF IsLaunched, LaunchedStatuses
<1>. QED
  BY <1>1, <1>3, <1>4, <1>5, <1>6

-----------------------------------------------------------------------------
(* The steps of the broker that an operation's threads see.                 *)

BrokerLater ==
    /\ issued \in Nat /\ issued' \in {issued, issued + 1}
    /\ now \in Nat /\ now' \in {now, now + 1}
    /\ \A i \in Ids : i <= issued =>
         actions[i] \in Action /\ actions'[i] \in Action /\ Later(actions[i], actions'[i])

\* A step that offers nothing.
SameIssued == issued' = issued

\* What it takes to see a method that changes actions pointwise.
LEMMA PointwiseLater ==
    ASSUME Inv, Inv', SameIssued, now' \in {now, now + 1},
           \A i \in Ids : i <= issued => Later(actions[i], actions'[i])
    PROVE  BrokerLater
<1>1. issued \in Nat /\ now \in Nat
  BY BrokerConstants DEF Inv, ScalarsOK, Time
<1>2. \A i \in Ids : i <= issued => actions[i] \in Action /\ actions'[i] \in Action
  BY DEF Inv, ActionsOK, SameIssued
<1>. QED
  BY <1>1, <1>2 DEF BrokerLater, SameIssued

\* The expiry pass in front of every method.
LEMMA PassLater ==
    ASSUME Inv
    PROVE  /\ DOMAIN ExpiredActions = Ids
           /\ \A i \in Ids : i <= issued =>
                /\ actions[i] \in Action /\ ExpiredActions[i] \in Action
                /\ Consistent(actions[i]) /\ Consistent(ExpiredActions[i])
                /\ ExpiredActions[i] = Expire(actions[i])
                /\ Later(actions[i], ExpiredActions[i])
           /\ \A i \in Ids : ~(i <= issued) => ExpiredActions[i] = actions[i]
<1>1. \A i \in Ids : i <= issued => actions[i] \in Action /\ Consistent(actions[i])
  BY DEF Inv, ActionsOK
<1>. QED
  BY <1>1, ExpiredWeakens, HelperLater

\* A step that leaves the broker alone, and a read.
LEMMA StillLater ==
    ASSUME Inv, UNCHANGED vars \/ Observe
    PROVE  Inv' /\ BrokerLater /\ SameIssued
<1>1. Inv' /\ SameIssued /\ now' \in {now, now + 1}
  <2>1. CASE UNCHANGED vars
    BY <2>1, NextInv DEF vars, SameIssued
  <2>2. CASE Observe
    BY <2>2, ObserveInv DEF Observe, SameIssued
  <2>. QED
    BY <2>1, <2>2
<1>2. \A i \in Ids : i <= issued => Later(actions[i], actions'[i])
  BY PassLater, FieldLater DEF vars, Observe
<1>. QED
  BY <1>1, <1>2, PointwiseLater

\* An operation's own proposal is pending and of the kind asked for.
LEMMA SubmitLater ==
    ASSUME Inv, NEW c \in Characters, NEW k \in Kinds, NEW confirm \in BOOLEAN,
           NEW r \in Rooms, NEW life \in Nat, NEW d \in Nat, Submit(c, k, confirm, r, life, d)
    PROVE  /\ Inv' /\ BrokerLater /\ issued' = issued + 1
           /\ issued + 1 \in Ids /\ actions'[issued + 1].kind = k
<1>1. Inv'
  BY SubmitInv
<1>2. /\ issued \in Nat /\ issued' = issued + 1 /\ issued + 1 \in Ids
      /\ now \in Nat /\ now' = now
      /\ actions' = [actions EXCEPT ![issued + 1] = Proposal(c, k, confirm, r, life, d)]
  BY BrokerConstants DEF Submit, Inv, ScalarsOK, Ids, Time
<1>3. ASSUME NEW i \in Ids, i <= issued
      PROVE  actions[i] \in Action /\ actions'[i] = actions[i]
  <2>1. i # issued + 1
    BY <1>2, <1>3 DEF Ids
  <2>. QED
    BY <1>2, <1>3, <2>1 DEF Inv, ActionsOK
<1>4. actions'[issued + 1].kind = k
  BY <1>2 DEF Proposal, Inv, ActionsOK
<1>. QED
  BY <1>1, <1>2, <1>3, <1>4, FieldLater DEF BrokerLater

\* A method that, after the expiry pass, changes one action.
LEMMA OneLater ==
    ASSUME Inv, Inv', SameIssued, UNCHANGED now, NEW i \in Ids, i <= issued, NEW b,
           Later(ExpiredActions[i], b),
           actions' = [ExpiredActions EXCEPT ![i] = b]
    PROVE  BrokerLater /\ actions'[i] = b
<1>1. actions'[i] = b /\ \A j \in Ids : j # i => actions'[j] = ExpiredActions[j]
  BY PassLater
<1>2. Later(actions[i], b)
  BY PassLater, LaterTrans
<1>. QED
  BY <1>1, <1>2, PassLater, PointwiseLater

\* cancel withdraws what waits, and stops a travel that is under way.
LEMMA CancelLater ==
    ASSUME Inv, NEW i \in Ids, i <= issued, Cancel(i)
    PROVE  /\ Inv' /\ BrokerLater /\ SameIssued /\ ~IsPending(actions'[i])
           /\ actions[i].kind = "travel" /\ actions'[i].status = "dispatched" => actions'[i].stop
<1>. DEFINE e == ExpiredActions[i]
            b == IF e.kind = "travel" /\ e.status = "dispatched"
                 THEN [e EXCEPT !.stop = TRUE] ELSE Withdraw(e)
<1>1. Inv' /\ SameIssued /\ UNCHANGED now /\ actions' = [ExpiredActions EXCEPT ![i] = b]
  BY CancelInv DEF Cancel, SameIssued
<1>2. e \in Action /\ Later(actions[i], e) /\ e.kind = actions[i].kind
  BY PassLater DEF Later
<1>3. /\ Later(e, b) /\ ~IsPending(b)
      /\ e.kind = "travel" /\ b.status = "dispatched" => b.stop
  <2>1. CASE e.kind = "travel" /\ e.status = "dispatched"
    <3>. DEFINE x == [e EXCEPT !.stop = TRUE]
    <3>1. x.stop /\ x.status = "dispatched" /\ b = x
      BY <1>2, <2>1 DEF Action
    <3>. QED
      BY <1>2, <3>1, FieldLater DEF IsPending, PendingStatuses
  <2>2. CASE ~(e.kind = "travel" /\ e.status = "dispatched")
    <3>1. b = Withdraw(e)
      BY <2>2
    <3>. QED
      BY <1>2, <2>2, <3>1, HelperLater, WithdrawnStopped
  <2>. QED
    BY <2>1, <2>2
<1>. HIDE DEF b
<1>. QED
  BY <1>1, <1>2, <1>3, OneLater

\* request_test_stop
LEMMA TestStopLater ==
    ASSUME Inv, NEW i \in Ids, i <= issued, RequestTestStop(i)
    PROVE  Inv' /\ BrokerLater /\ SameIssued /\ Stopped(actions'[i])
<1>. DEFINE e == ExpiredActions[i]
<1>1. Inv' /\ SameIssued /\ UNCHANGED now /\ actions' = [ExpiredActions EXCEPT ![i] = Revoke(e)]
  BY RequestTestStopInv DEF RequestTestStop, SameIssued
<1>2. e \in Action /\ e.kind = "test"
  BY PassLater DEF Later, RequestTestStop
<1>3. Later(e, Revoke(e)) /\ Stopped(Revoke(e))
  BY <1>2, HelperLater, WithdrawnStopped DEF IsStoppable
<1>. QED
  BY <1>1, <1>3, OneLater

\* revoke_controller_run
LEMMA RevokeOwnedLater ==
    ASSUME Inv, NEW i \in Ids, i <= issued, RevokeOwned(i)
    PROVE  Inv' /\ BrokerLater /\ SameIssued /\ Stopped(actions'[i])
<1>. DEFINE e == ExpiredActions[i]
            b == [Withdraw(e) EXCEPT !.stop = TRUE]
<1>1. Inv' /\ SameIssued /\ UNCHANGED now /\ actions' = [ExpiredActions EXCEPT ![i] = b]
  BY RevokeOwnedInv DEF RevokeOwned, SameIssued
<1>2. e \in Action
  BY PassLater
<1>3. Later(e, b) /\ Stopped(b)
  BY <1>2, WithdrawnStopped
<1>. QED
  BY <1>1, <1>3, OneLater

\* A method that changes every action on its own.
LEMMA EachLater ==
    ASSUME Inv, UNCHANGED <<enabled, activeGen, retired, issued, now>>, DOMAIN actions' = Ids,
           \A i \in Ids : i <= issued => /\ Weakens(actions[i], actions'[i])
                                         /\ Later(actions[i], actions'[i]),
           \A i \in Ids : ~(i <= issued) => actions'[i] = actions[i]
    PROVE  Inv' /\ BrokerLater /\ SameIssued
<1>1. Inv'
  BY QuietStep
<1>. QED
  BY <1>1, PointwiseLater DEF SameIssued

\* What the end of an operation does to its controls and to its launch.
LEMMA RevokedControlLater ==
    ASSUME NEW a \in Action, Consistent(a)
    PROVE  /\ Weakens(a, RevokedControl(a)) /\ Later(a, RevokedControl(a))
           /\ Stopped(RevokedControl(a))
<1>. DEFINE e == Expire(a)
            w == Withdraw(e)
<1>1. Weakens(a, e) /\ e \in Action /\ Consistent(e)
  BY ExpireWeakens DEF Weakens
<1>2. Weakens(e, w) /\ w \in Action /\ Consistent(w) /\ ~IsPending(w)
  BY <1>1, WithdrawWeakens, WithdrawnStopped DEF Weakens
<1>3. Weakens(w, RevokedControl(a))
  BY <1>2, StopWeakens DEF RevokedControl
<1>4. Later(a, e) /\ Later(e, RevokedControl(a)) /\ Stopped(RevokedControl(a))
  BY <1>1, HelperLater, WithdrawnStopped DEF RevokedControl
<1>. QED
  BY <1>1, <1>2, <1>3, <1>4, WeakensTrans, LaterTrans

\* _cancel_controller_controls reaches all it should.
LEMMA CancelControlsLater ==
    ASSUME Inv, NEW o \in Ops, NEW run \in BOOLEAN, CancelControls(o, run),
           op[o].controls \subseteq Ids, \A i \in op[o].controls : i <= issued,
           op[o].owned => op[o].action \in Ids /\ op[o].action <= issued
    PROVE  /\ Inv' /\ BrokerLater /\ SameIssued
           /\ HasControls(o) /\ op[o].owned =>
                /\ \A i \in op[o].controls : Stopped(actions'[i])
                /\ run => Stopped(actions'[op[o].action])
<1>. DEFINE hit == op[o].controls \cup (IF run THEN {op[o].action} ELSE {})
<1>1. CASE HasControls(o) /\ op[o].owned /\ hit # {}
  <2>1. /\ actions' = [i \in Ids |-> IF i \in hit THEN RevokedControl(actions[i])
                                     ELSE ExpiredActions[i]]
        /\ UNCHANGED <<enabled, activeGen, retired, issued, now>>
    BY <1>1 DEF CancelControls
  <2>2. \A i \in hit : i \in Ids /\ i <= issued
    BY <1>1
  <2>. HIDE DEF hit
  <2>3. ASSUME NEW i \in Ids, i <= issued
        PROVE  Weakens(actions[i], actions'[i]) /\ Later(actions[i], actions'[i])
    <3>1. actions[i] \in Action /\ Consistent(actions[i])
      BY <2>3 DEF Inv, ActionsOK
    <3>2. CASE i \in hit
      BY <2>1, <3>1, <3>2, RevokedControlLater
    <3>3. CASE i \notin hit
      BY <2>1, <2>3, <3>3, PassLater, ExpiredWeakens
    <3>. QED
      BY <3>2, <3>3
  <2>4. \A i \in Ids : ~(i <= issued) => actions'[i] = actions[i]
    BY <2>1, <2>2, PassLater
  <2>5. Inv' /\ BrokerLater /\ SameIssued
    BY <2>1, <2>3, <2>4, EachLater
  <2>6. \A i \in hit : Stopped(actions'[i])
    BY <2>1, <2>2, RevokedControlLater DEF Inv, ActionsOK
  <2>. QED
    BY <2>5, <2>6 DEF hit, OwnAction
<1>2. CASE ~(HasControls(o) /\ op[o].owned /\ hit # {})
  <2>1. UNCHANGED vars
    BY <1>2 DEF CancelControls, brokerVars
  <2>2. HasControls(o) /\ op[o].owned => op[o].controls = {} /\ ~run
    BY <1>2
  <2>. QED
    BY <2>1, <2>2, StillLater
<1>. QED
  BY <1>1, <1>2

\* The bridge and the player act on actions that were there before.
LEMMA OutsideLater ==
    ASSUME Inv, Outside
    PROVE  Inv' /\ BrokerLater /\ SameIssued
<1>1. Inv' /\ SameIssued /\ now' = now
  <2>1. Next
    BY DEF Outside, Next, Completions
  <2>2. UNCHANGED <<issued, now>>
    BY DEF Outside, AdmitGeneration, Enable, Disable, PollFindsNothing, PollDelivers, Approve,
           RecordResult
  <2>. QED
    BY <2>1, <2>2, NextInv DEF SameIssued
<1>2. ASSUME NEW i \in Ids, i <= issued
      PROVE  Later(actions[i], actions'[i])
  <2>1. actions[i] \in Action /\ Later(actions[i], actions[i])
    BY <1>2, FieldLater DEF Inv, ActionsOK
  <2>2. /\ ExpiredActions[i] \in Action /\ ExpiredActions[i] = Expire(actions[i])
        /\ Later(actions[i], ExpiredActions[i]) /\ DOMAIN ExpiredActions = Ids
    BY <1>2, PassLater
  <2>3. ASSUME NEW c \in Characters, NEW g \in Generations,
               AdmitGeneration(c, g) \/ Enable(c, g) \/ Disable(c, g)
        PROVE  Later(actions[i], actions'[i])
    <3>1. actions'[i] \in {actions[i], Revoke(actions[i])}
      BY <1>2, <2>3 DEF AdmitGeneration, Enable, Disable
    <3>. QED
      BY <2>1, <3>1, HelperLater
  <2>4. ASSUME NEW c \in Characters, NEW g \in Generations, NEW r \in Rooms,
               PollFindsNothing(c, g, r) \/ \E j \in Issued : PollDelivers(c, g, r, j)
        PROVE  Later(actions[i], actions'[i])
    <3>1. \/ actions'[i] \in {ExpiredActions[i], Deny(ExpiredActions[i])}
             /\ (actions'[i] = ExpiredActions[i] \/ IsPending(ExpiredActions[i]))
          \/ actions'[i] = Deliver(ExpiredActions[i]) /\ IsPending(ExpiredActions[i])
      BY <2>2, <2>4 DEF PollFindsNothing, PollDelivers, Stale, Deliverable, IsPending, PendingStatuses
    <3>. QED
      BY <2>2, <3>1, HelperLater, LaterTrans
  <2>5. ASSUME NEW j \in Issued, NEW g \in Generations, NEW r \in Rooms, Approve(j, g, r)
        PROVE  Later(actions[i], actions'[i])
    <3>1. j = i => IsPending(ExpiredActions[i])
      BY <2>2, <2>5 DEF Approve, IsPending, PendingStatuses
    <3>2. \/ actions'[i] = ExpiredActions[i]
          \/ j = i /\ actions'[i] = [ExpiredActions[i] EXCEPT !.room = r, !.status = "queued"]
          \/ j = i /\ actions'[i] = [ExpiredActions[i] EXCEPT !.status = "denied_stale_room"]
      BY <2>2, <2>5 DEF Approve, Issued
    <3>. DEFINE e == ExpiredActions[i]
    <3>3. IsPending(e) => /\ Later(e, [e EXCEPT !.room = r, !.status = "queued"])
                          /\ Later(e, [e EXCEPT !.status = "denied_stale_room"])
      <4>1. "denied_stale_room" \in PendingStatuses \cup LaunchedStatuses \cup RevokedStatuses
        BY DEF RevokedStatuses
      <4>. QED
        BY <2>2, <4>1, FieldLater
    <3>. QED
      BY <2>2, <3>1, <3>2, <3>3, LaterTrans
  <2>6. ASSUME NEW j \in Issued, NEW g \in Generations, NEW outcome \in {"succeeded", "failed"},
               RecordResult(j, g, outcome)
        PROVE  Later(actions[i], actions'[i])
    <3>. DEFINE s == IF outcome = "failed" THEN "failed" ELSE "completed"
    <3>1. s \in {"failed", "completed"} /\ outcome \in Completions
      BY DEF Completions
    <3>2. \/ actions'[i] = actions[i]
          \/ /\ actions'[i] = [actions[i] EXCEPT !.status = s, !.completion = outcome]
             /\ actions[i].status = "dispatched"
      <4>1. DOMAIN actions = Ids
        BY DEF Inv, ActionsOK
      <4>. QED
        BY <2>6, <4>1 DEF RecordResult, Issued
    <3>. HIDE DEF s
    <3>3. actions[i].status = "dispatched" =>
            Later(actions[i], [actions[i] EXCEPT !.status = s, !.completion = outcome])
      BY <2>1, <3>1, FieldLater
    <3>. QED
      BY <2>1, <3>2, <3>3
  <2>. QED
    BY <2>3, <2>4, <2>5, <2>6 DEF Outside
<1>. QED
  BY <1>1, <1>2, PointwiseLater

\* Time only lets pending work expire.
LEMMA ClockLater ==
    ASSUME Inv, Clock
    PROVE  Inv' /\ BrokerLater /\ SameIssued
<1>1. Inv' /\ SameIssued /\ now' \in {now, now + 1}
  BY TickInv DEF Clock, Tick, SameIssued
<1>2. \A i \in Ids : i <= issued => Later(actions[i], actions'[i])
  BY FieldLater DEF Clock, Tick, Inv, ActionsOK
<1>. QED
  BY <1>1, <1>2, PointwiseLater

-----------------------------------------------------------------------------
(* What a step of the broker leaves of the operations.                      *)

\* What was stopped or settled stays so.
LEMMA SettledLater ==
    ASSUME NEW x, NEW s, NEW a, NEW b, Later(a, b), NEW m \in Nat, NEW n \in {m, m + 1},
           x.controls \subseteq Ids
    PROVE  /\ Stopped(a) => Stopped(b)
           /\ SettledOK(x, a) => SettledOK(x, b)
           /\ StopperOK(x, s, a) => StopperOK(x, s, b)
           /\ LinkOK(x, a, m) => LinkOK(x, b, n)
<1>1. Stopped(a) => Stopped(b)
  BY DEF Later, Stopped
<1>2. SettledOK(x, a) => SettledOK(x, b)
  BY <1>1 DEF SettledOK, Later
<1>3. StopperOK(x, s, a) => StopperOK(x, s, b)
  BY DEF StopperOK, Later
<1>4. \A i \in Ids : i <= m => i <= n
  BY DEF Ids
<1>5. LinkOK(x, a, m) => LinkOK(x, b, n)
  BY <1>4 DEF LinkOK, Later
<1>. QED
  BY <1>1, <1>2, <1>3, <1>5

\* A created operation has a record, and its action is at the broker.
LEMMA CreatedRecord ==
    ASSUME RunnerInv, NEW o \in Ops
    PROVE  /\ o \in Created <=> op[o] # NoOperation
           /\ op[o].status = "none" <=> o \notin Created
           /\ o \in Created =>
                /\ op[o] \in Operation
                /\ PointsOK(op[o])
                /\ LinkOK(op[o], OwnAction(o), issued)
                /\ SettledOK(op[o], OwnAction(o))
                /\ StopperOK(op[o], stopper[o], OwnAction(o))
                /\ op[o].controls \subseteq Ids
                /\ op[o].action # 0 => op[o].action \in Ids /\ op[o].action <= issued
<1>1. OpOK(o)
  BY DEF RunnerInv
<1>2. \A x \in Operation : x.status # "none" /\ x.controls \subseteq Ids
  BY DEF Operation, Terminal
<1>3. NoOperation.status = "none"
  BY DEF NoOperation
<1>. QED
  BY <1>1, <1>2, <1>3 DEF OpOK, Created, LinkOK

\* An operation that takes no part in a step is as sound after it.
LEMMA OpKept ==
    ASSUME RunnerInv, BrokerLater, NEW o \in Ops, op'[o] = op[o], stopper'[o] = stopper[o]
    PROVE  OpOK(o)'
<1>1. CASE o \notin Created
  BY <1>1, CreatedRecord DEF OpOK, RunnerInv
<1>2. CASE o \in Created /\ op[o].action = 0
  <2>1. \A i \in op[o].controls : i <= issued /\ i \in Ids
    BY <1>2, CreatedRecord DEF LinkOK
  <2>2. \A i \in op[o].controls : i <= issued'
    BY <2>1 DEF BrokerLater, Ids
  <2>. QED
    BY <1>2, <2>2, CreatedRecord DEF OpOK, LinkOK, SettledOK, StopperOK
<1>3. CASE o \in Created /\ op[o].action # 0
  <2>. DEFINE a == OwnAction(o)
              b == actions'[op[o].action]
  <2>1. op[o] \in Operation /\ PointsOK(op[o]) /\ op[o].controls \subseteq Ids
    BY <1>3, CreatedRecord
  <2>2. LinkOK(op[o], a, issued) /\ SettledOK(op[o], a) /\ StopperOK(op[o], stopper[o], a)
    BY <1>3, CreatedRecord
  <2>3. Later(a, b) /\ issued \in Nat /\ issued' \in {issued, issued + 1}
    BY <1>3, CreatedRecord DEF BrokerLater, OwnAction
  <2>. HIDE DEF a, b
  <2>4. LinkOK(op[o], b, issued') /\ SettledOK(op[o], b) /\ StopperOK(op[o], stopper[o], b)
    BY <2>1, <2>2, <2>3, SettledLater
  <2>5. op[o] # NoOperation
    BY <1>3, CreatedRecord
  <2>. QED
    BY <2>1, <2>4, <2>5 DEF OpOK, OwnAction, b
<1>. QED
  BY <1>1, <1>2, <1>3

\* No operation moves: the broker does, or a client's thread.
LEMMA BrokerStepKept ==
    ASSUME RunnerInv, Inv', BrokerLater, UNCHANGED <<op, known, handoff>>,
           issued' = issued + 1 => actions'[issued + 1].kind # "control",
           stopper' \in [Ops -> {"idle", "marked", "calling", "returned"}],
           \A p \in Ops : stopper'[p] = stopper[p] \/ OpOK(p)'
    PROVE  RunnerInv'
<1>1. \A p \in Ops : OpOK(p)'
  BY OpKept
<1>2. ControlsOK'
  <2>1. ASSUME NEW i \in Ids, i <= issued', actions'[i].kind = "control",
               IsPending(actions'[i]), ~(now' >= actions'[i].expiresAt)
        PROVE  \E o \in Created : i \in op[o].controls
    <3>1. issued \in Nat /\ (i <= issued \/ i = issued + 1) /\ issued' \in {issued, issued + 1}
      BY <2>1 DEF BrokerLater, Ids
    <3>2. i <= issued
      BY <2>1, <3>1 DEF Ids
    <3>3. Later(actions[i], actions'[i]) /\ actions[i] \in Action
      BY <3>2 DEF BrokerLater
    <3>4. ~(now >= actions[i].expiresAt)
      BY <2>1, <3>3 DEF Later, BrokerLater, Action
    <3>. QED
      BY <2>1, <3>2, <3>3, <3>4 DEF Later, RunnerInv, ControlsOK
  <2>. QED
    BY <2>1 DEF ControlsOK, Created
<1>3. KnownOK'
  BY DEF RunnerInv, KnownOK, Created, Ended
<1>. QED
  BY <1>1, <1>2, <1>3 DEF RunnerInv

\* One operation moves; what it lets go of its controls is over.
LEMMA OpStepKept ==
    ASSUME RunnerInv, Inv', BrokerLater, NEW o \in Created,
           op' = [op EXCEPT ![o] = op'[o]], op'[o] # NoOperation, OpOK(o)',
           op'[o].char = op[o].char, Ended(o) => Ended(o)',
           stopper' = [stopper EXCEPT ![o] = stopper'[o]],
           stopper'[o] \in {"idle", "marked", "calling", "returned"},
           handoff' \in [Characters -> {0} \cup Ops], known' = known,
           \A i \in op[o].controls : \/ i \in op'[o].controls \/ ~IsPending(actions'[i])
                                     \/ now >= actions[i].expiresAt,
           issued' = issued + 1 =>
             actions'[issued + 1].kind # "control" \/ issued + 1 \in op'[o].controls
    PROVE  RunnerInv'
<1>0. o \in Ops
  BY DEF Created
<1>1. \A p \in Ops : p # o => op'[p] = op[p] /\ stopper'[p] = stopper[p]
  BY DEF RunnerInv
<1>2. \A p \in Ops : OpOK(p)'
  BY <1>1, OpKept
<1>3. op' = [p \in Ops |-> op'[p]] /\ stopper' \in [Ops -> {"idle", "marked", "calling", "returned"}]
  BY <1>0 DEF RunnerInv
<1>4. Created' = Created /\ \A p \in Created : p \in Ops
  <2>1. op'[o] \in Operation
    BY DEF OpOK
  <2>2. op'[o].status # "none"
    BY <2>1 DEF Operation, Terminal
  <2>. QED
    BY <1>1, <2>2 DEF Created
<1>5. ControlsOK'
  <2>1. ASSUME NEW i \in Ids, i <= issued', actions'[i].kind = "control",
               IsPending(actions'[i]), ~(now' >= actions'[i].expiresAt)
        PROVE  \E p \in Created : i \in op'[p].controls
    <3>1. issued \in Nat /\ (i <= issued \/ i = issued + 1) /\ issued' \in {issued, issued + 1}
      BY <2>1 DEF BrokerLater, Ids
    <3>2. CASE i <= issued
      <4>1. Later(actions[i], actions'[i]) /\ actions[i] \in Action
        BY <3>2 DEF BrokerLater
      <4>2. ~(now >= actions[i].expiresAt)
        BY <2>1, <4>1 DEF Later, BrokerLater, Action
      <4>3. PICK p \in Created : i \in op[p].controls
        BY <2>1, <3>2, <4>1, <4>2 DEF Later, RunnerInv, ControlsOK
      <4>. QED
        BY <1>1, <1>4, <2>1, <4>2, <4>3
    <3>3. CASE ~(i <= issued)
      <4>1. i = issued + 1 /\ issued' = issued + 1
        BY <2>1, <3>1, <3>3 DEF Ids
      <4>. QED
        BY <2>1, <4>1
    <3>. QED
      BY <3>2, <3>3
  <2>. QED
    BY <1>4, <2>1 DEF ControlsOK
<1>6. KnownOK'
  <2>1. \A p \in Created : op'[p].char = op[p].char /\ (Ended(p) => Ended(p)')
    BY <1>1, <1>4 DEF Ended
  <2>2. \A p \in Created : ~Ended(p)' => p \in known
    BY <2>1 DEF RunnerInv, KnownOK
  <2>3. \A p \in Created, q \in Created :
          ~Ended(p)' /\ ~Ended(q)' /\ op'[p].char = op'[q].char => p = q
    BY <2>1 DEF RunnerInv, KnownOK
  <2>. QED
    BY <1>4, <2>2, <2>3 DEF RunnerInv, KnownOK
<1>. QED
  BY <1>2, <1>3, <1>5, <1>6 DEF RunnerInv

-----------------------------------------------------------------------------
(* The worker moves to another point, with or without an abort.             *)

Worked(x, y) ==
    /\ y \in Operation
    /\ y.status \in Terminal <=> x.status \in Terminal
    /\ y.status = "succeeded" <=> x.status = "succeeded"
    /\ y.kind = x.kind /\ y.char = x.char /\ y.action = x.action
    /\ y.interrupted = x.interrupted /\ y.graceful = x.graceful
    /\ y.controls = x.controls

Aborts == {"failed", "timed_out", "interrupted"}

\* What a move writes.
LEMMA MoveFields ==
    ASSUME RunnerInv, NEW o \in Created, NEW p \in WorkerPoints, NEW s \in Aborts
    PROVE  /\ Goto(o, p) =>
                /\ op' = [op EXCEPT ![o] = op'[o]] /\ Worked(op[o], op'[o])
                /\ op'[o].owned = op[o].owned
                /\ op'[o].pc = p /\ op'[o].abort = op[o].abort
           /\ Raise(o, s) =>
                /\ op' = [op EXCEPT ![o] = op'[o]] /\ Worked(op[o], op'[o])
                /\ op'[o].owned = op[o].owned
                /\ op'[o].pc = "stop test" /\ op'[o].abort = s
           /\ RaiseInStep(o, s) =>
                /\ op' = [op EXCEPT ![o] = op'[o]] /\ Worked(op[o], op'[o])
                /\ op'[o].owned = op[o].owned
                /\ op'[o].pc = (CASE op[o].kind \in WithFinally -> "finally"
                                  [] op[o].kind \in {"test", "refuge"} -> "drain"
                                  [] OTHER -> "stop test")
                /\ op'[o].abort = s
<1>. DEFINE x == op[o]
            q == CASE op[o].kind \in WithFinally -> "finally"
                   [] op[o].kind \in {"test", "refuge"} -> "drain"
                   [] OTHER -> "stop test"
<1>1. x \in Operation /\ o \in Ops
  BY CreatedRecord DEF Created
<1>2. DOMAIN op = Ops
  BY DEF RunnerInv
<1>3. q \in WorkerPoints /\ "stop test" \in WorkerPoints
  BY DEF WorkerPoints, WithFinally
<1>4. ASSUME NEW v \in WorkerPoints
      PROVE  /\ Worked(x, [x EXCEPT !.pc = v]) /\ [x EXCEPT !.pc = v].pc = v
             /\ [x EXCEPT !.pc = v].abort = x.abort /\ [x EXCEPT !.pc = v].owned = x.owned
             /\ Worked(x, [x EXCEPT !.abort = s, !.pc = v])
             /\ [x EXCEPT !.abort = s, !.pc = v].owned = x.owned
             /\ [x EXCEPT !.abort = s, !.pc = v].pc = v
             /\ [x EXCEPT !.abort = s, !.pc = v].abort = s
  <2>. HIDE DEF x
  <2>. QED
    BY <1>1 DEF Worked, Operation, Aborts
<1>5. ASSUME Goto(o, p) PROVE op' = [op EXCEPT ![o] = op'[o]] /\ op'[o] = [x EXCEPT !.pc = p]
  BY <1>1, <1>2, <1>5 DEF Goto
<1>6. ASSUME Raise(o, s)
      PROVE  op' = [op EXCEPT ![o] = op'[o]] /\ op'[o] = [x EXCEPT !.abort = s, !.pc = "stop test"]
  BY <1>1, <1>2, <1>6 DEF Raise
<1>7. ASSUME RaiseInStep(o, s)
      PROVE  op' = [op EXCEPT ![o] = op'[o]] /\ op'[o] = [x EXCEPT !.abort = s, !.pc = q]
  <2>1. op' = [op EXCEPT ![o].abort = s, ![o].pc = q]
    BY <1>7 DEF RaiseInStep, WithFinally
  <2>. HIDE DEF q
  <2>. QED
    BY <1>1, <1>2, <2>1
<1>. HIDE DEF x, q
<1>8. Goto(o, p) => /\ op' = [op EXCEPT ![o] = op'[o]] /\ Worked(x, op'[o])
                    /\ op'[o].owned = x.owned /\ op'[o].pc = p /\ op'[o].abort = x.abort
  BY <1>4, <1>5
<1>9. Raise(o, s) => /\ op' = [op EXCEPT ![o] = op'[o]] /\ Worked(x, op'[o])
                     /\ op'[o].owned = x.owned /\ op'[o].pc = "stop test" /\ op'[o].abort = s
  BY <1>3, <1>4, <1>6
<1>10. RaiseInStep(o, s) => /\ op' = [op EXCEPT ![o] = op'[o]] /\ Worked(x, op'[o])
                            /\ op'[o].owned = x.owned /\ op'[o].pc = q /\ op'[o].abort = s
  BY <1>3, <1>4, <1>7
<1>. QED
  BY <1>8, <1>9, <1>10 DEF x, q

\* A step of a thread is sound when the new record shows what it should of
\* itself, of the action and of the client, and lets go of no live control.
LEMMA FreeKept ==
    ASSUME RunnerInv, Inv', BrokerLater, SameIssued, NEW o \in Created,
           op' = [op EXCEPT ![o] = op'[o]], op'[o] \in Operation,
           op'[o].char = op[o].char, op'[o].kind = op[o].kind, op'[o].action = op[o].action,
           op'[o].controls \subseteq op[o].controls,
           op[o].status \in Terminal => op'[o].status \in Terminal,
           stopper' = [stopper EXCEPT ![o] = stopper'[o]],
           stopper'[o] \in {"idle", "marked", "calling", "returned"},
           known' = known, handoff' \in [Characters -> {0} \cup Ops],
           PointsOK(op'[o]),
           SettledOK(op[o], actions'[op[o].action]) => SettledOK(op'[o], actions'[op[o].action]),
           /\ SettledOK(op[o], actions'[op[o].action])
           /\ StopperOK(op[o], stopper[o], actions'[op[o].action])
           => StopperOK(op'[o], stopper'[o], actions'[op[o].action]),
           \A i \in op[o].controls : i \in op'[o].controls \/ ~IsPending(actions'[i])
    PROVE  RunnerInv'
<1>. DEFINE x == op[o]
            y == op'[o]
            a == OwnAction(o)
            b == actions'[op[o].action]
            s == stopper[o]
            t == stopper'[o]
<1>0. o \in Ops
  BY DEF Created
<1>1. /\ LinkOK(x, a, issued) /\ SettledOK(x, a) /\ StopperOK(x, s, a)
      /\ x.controls \subseteq Ids
      /\ x.action # 0 => x.action \in Ids /\ x.action <= issued
  BY <1>0, CreatedRecord
<1>2. x.action # 0 => Later(a, b)
  BY <1>1 DEF BrokerLater, OwnAction
<1>3. issued \in Nat /\ issued' = issued /\ issued' # issued + 1
  BY DEF BrokerLater, SameIssued
<1>4. b = actions'[y.action]
  OBVIOUS
<1>5. /\ SettledOK(x, b) => SettledOK(y, b)
      /\ SettledOK(x, b) /\ StopperOK(x, s, b) => StopperOK(y, t, b)
      /\ y.kind = x.kind /\ y.action = x.action /\ y.controls \subseteq x.controls
  OBVIOUS
<1>6. y.status # "none" /\ NoOperation.status = "none"
  BY DEF Operation, Terminal, NoOperation
<1>. HIDE DEF x, y, a, b, s, t
<1>8. SettledOK(x, b) /\ StopperOK(x, s, b) /\ LinkOK(x, b, issued)
  <2>1. issued \in {issued, issued + 1}
    OBVIOUS
  <2>2. x.action # 0 => SettledOK(x, b) /\ StopperOK(x, s, b) /\ LinkOK(x, b, issued)
    BY <1>1, <1>2, <1>3, <2>1, SettledLater
  <2>. QED
    BY <1>1, <2>2 DEF SettledOK, StopperOK, LinkOK
<1>9. SettledOK(y, b) /\ LinkOK(y, b, issued) /\ StopperOK(y, t, b)
  <2>1. LinkOK(y, b, issued)
    BY <1>5, <1>8 DEF LinkOK
  <2>. QED
    BY <1>5, <1>8, <2>1
<1>11. OpOK(o)'
  BY <1>3, <1>4, <1>6, <1>9 DEF OpOK, OwnAction, y, t
<1>. QED
  BY <1>3, <1>6, <1>11, OpStepKept DEF Ended, x, y

\* So is a move of the worker that keeps all but its point and what it owns.
LEMMA WorkedKept ==
    ASSUME RunnerInv, Inv', BrokerLater, SameIssued, NEW o \in Created,
           op' = [op EXCEPT ![o] = op'[o]], Worked(op[o], op'[o]),
           UNCHANGED <<stopper, known>>, handoff' \in [Characters -> {0} \cup Ops],
           PointsOK(op'[o]),
           SettledOK(op[o], actions'[op[o].action]) => SettledOK(op'[o], actions'[op[o].action]),
           \/ op[o].pc \notin {"associate", "recheck", "finally"}
           \/ op'[o].pc \in {"associate", "recheck", "finally"}
           \/ op[o].interrupted /\ op[o].action # 0 => ~IsPending(actions'[op[o].action])
           \/ op[o].kind = "plain"
    PROVE  RunnerInv'
<1>. DEFINE x == op[o]
            y == op'[o]
            b == actions'[op[o].action]
            s == stopper[o]
<1>1. /\ \/ x.pc \notin {"associate", "recheck", "finally"}
         \/ y.pc \in {"associate", "recheck", "finally"}
         \/ x.interrupted /\ x.action # 0 => ~IsPending(b)
         \/ x.kind = "plain"
      /\ Worked(x, y)
  OBVIOUS
<1>2. stopper' = [stopper EXCEPT ![o] = s] /\ stopper'[o] = s
      /\ s \in {"idle", "marked", "calling", "returned"}
  BY DEF RunnerInv, Created
<1>. HIDE DEF x, y, b, s
<1>3. StopperOK(x, s, b) => StopperOK(y, s, b)
  BY <1>1 DEF Worked, StopperOK
<1>4. /\ y \in Operation /\ y.char = x.char /\ y.kind = x.kind /\ y.action = x.action
      /\ y.controls = x.controls /\ (x.status \in Terminal => y.status \in Terminal)
  BY <1>1 DEF Worked
<1>. QED
  BY <1>2, <1>3, <1>4, FreeKept DEF x, y, b, s

\* An abort outside the broker step.
LEMMA RaiseKept ==
    ASSUME RunnerInv, NEW o \in Created, NEW s \in Aborts, Raise(o, s),
           op[o].pc \in Before \cup {"drain", "verify", "finish"},
           UNCHANGED <<brokerVars, stopper, known>>, handoff' \in [Characters -> {0} \cup Ops]
    PROVE  RunnerInv'
<1>. DEFINE x == op[o]
            y == op'[o]
<1>1. Inv' /\ BrokerLater /\ SameIssued
  BY StillLater DEF RunnerInv, brokerVars
<1>2. /\ op' = [op EXCEPT ![o] = op'[o]] /\ Worked(x, y)
      /\ y.owned = x.owned /\ y.pc = "stop test" /\ y.abort = s
  <2>1. "stop test" \in WorkerPoints
    BY DEF WorkerPoints
  <2>. QED
    BY <2>1, MoveFields
<1>3. PointsOK(x)
  BY CreatedRecord DEF Created
<1>. HIDE DEF x, y
<1>4. x.pc \in Before \cup {"drain", "verify", "finish"}
  BY DEF x
<1>5. PointsOK(y)
  BY <1>2, <1>3, <1>4 DEF PointsOK, Worked, Before, InStep, Aborting, AfterFinally,
     WithFinally, WithControls, Aborts
<1>6. \A b : SettledOK(x, b) => SettledOK(y, b)
  BY <1>2, <1>3, <1>4 DEF PointsOK, Worked, Before, InStep, AfterFinally, SettledOK,
     WithFinally, WithControls, Terminal
<1>. QED
  BY <1>1, <1>2, <1>4, <1>5, <1>6, WorkedKept DEF Before, x, y

\* An abort in the broker step.
LEMMA RaiseInStepKept ==
    ASSUME RunnerInv, NEW o \in Created, NEW s \in Aborts, RaiseInStep(o, s),
           op[o].pc \in {"recheck", "look", "read"}, Inv', BrokerLater, SameIssued,
           op[o].pc = "recheck" /\ op[o].kind = "test" => ~IsPending(actions'[op[o].action]),
           UNCHANGED <<stopper, known, handoff>>
    PROVE  RunnerInv'
<1>. DEFINE x == op[o]
            y == op'[o]
<1>2. /\ op' = [op EXCEPT ![o] = op'[o]] /\ Worked(x, y)
      /\ y.pc = (CASE x.kind \in WithFinally -> "finally"
                   [] x.kind \in {"test", "refuge"} -> "drain"
                   [] OTHER -> "stop test")
      /\ y.owned = x.owned /\ y.abort = s
  <2>1. "stop test" \in WorkerPoints
    BY DEF WorkerPoints
  <2>. QED
    BY <2>1, MoveFields
<1>3. PointsOK(x) /\ x \in Operation
  BY CreatedRecord DEF Created
<1>. HIDE DEF x, y
<1>4. x.pc \in {"recheck", "look", "read"}
  BY DEF x
<1>5. PointsOK(y)
  BY <1>2, <1>3, <1>4 DEF PointsOK, Worked, Before, InStep, Aborting, AfterFinally,
     WithFinally, WithControls, Aborts
<1>6. \A b : SettledOK(x, b) => SettledOK(y, b)
  BY <1>2, <1>3, <1>4 DEF PointsOK, Worked, Before, InStep, AfterFinally, SettledOK,
     WithFinally, WithControls, Terminal
<1>7. x.pc = "recheck" => y.pc = "finally" \/ x.kind = "test"
  BY <1>2, <1>3 DEF PointsOK, WithFinally
<1>8. handoff' \in [Characters -> {0} \cup Ops]
  BY DEF RunnerInv
<1>. QED
  BY <1>2, <1>4, <1>5, <1>6, <1>7, <1>8, WorkedKept DEF x, y

-----------------------------------------------------------------------------
(* The steps of the worker.                                                 *)

\* The three ways a worker stops are aborts.
LEMMA StopStatusAborts == \A o : StopStatus(o) \in Aborts
BY DEF StopStatus, Aborts

\* What is known of the worker's operation before it moves.
LEMMA WorkerRecord ==
    ASSUME RunnerInv, NEW o \in Created
    PROVE  /\ o \in Ops /\ op[o] \in Operation /\ PointsOK(op[o]) /\ DOMAIN op = Ops
           /\ op[o].char \in Characters /\ op[o].kind \in OperationKinds
           /\ op[o].action # 0 => op[o].action \in Ids /\ op[o].action <= issued
           /\ handoff \in [Characters -> {0} \cup Ops]
<1>1. o \in Ops
  BY DEF Created
<1>2. op[o] \in Operation /\ PointsOK(op[o])
      /\ (op[o].action # 0 => op[o].action \in Ids /\ op[o].action <= issued)
  BY <1>1, CreatedRecord
<1>3. op[o].char \in Characters /\ op[o].kind \in OperationKinds
  BY <1>2 DEF Operation
<1>. QED
  BY <1>1, <1>2, <1>3 DEF RunnerInv

-----------------------------------------------------------------------------
(* The steps of the worker before there is an action.                       *)

\* The session of the snapshot becomes the operation's.
LEMMA StartKept ==
    ASSUME RunnerInv, NEW o \in Created, Start(o)
    PROVE  RunnerInv'
<1>. DEFINE x == op[o]
            c == op[o].char
            y == [op[o] EXCEPT !.gen = activeGen[c], !.pc = "admit"]
<1>1. /\ o \in Ops /\ x \in Operation /\ PointsOK(x) /\ DOMAIN op = Ops /\ c \in Characters
      /\ handoff \in [Characters -> {0} \cup Ops]
  BY WorkerRecord
<1>2. x.pc = "start" /\ UNCHANGED <<brokerVars, stopper, known>>
  BY DEF Start
<1>3. CASE Raise(o, "failed") /\ UNCHANGED handoff
  <2>1. "failed" \in Aborts /\ x.pc \in Before /\ handoff' \in [Characters -> {0} \cup Ops]
    BY <1>1, <1>2, <1>3 DEF Aborts, Before
  <2>. QED
    BY <1>2, <1>3, <2>1, RaiseKept
<1>4. CASE ~(Raise(o, "failed") /\ UNCHANGED handoff)
  <2>1. op' = [op EXCEPT ![o].gen = activeGen[c], ![o].pc = "admit"]
    BY <1>4 DEF Start
  <2>2. handoff' \in [Characters -> {0} \cup Ops]
    BY <1>1, <1>4 DEF Start, Resolves
  <2>3. op'[o] = y /\ op' = [op EXCEPT ![o] = op'[o]]
    BY <1>1, <2>1
  <2>4. activeGen[c] \in Generations \cup {NoGeneration}
    BY <1>1 DEF RunnerInv, Inv, ScalarsOK
  <2>5. Worked(x, y) /\ y.owned = x.owned /\ y.pc = "admit" /\ y.abort = x.abort
    <3>. DEFINE g == activeGen[c]
    <3>1. g \in Generations \cup {NoGeneration} /\ x \in Operation
      BY <1>1, <2>4
    <3>. HIDE DEF g, x
    <3>. DEFINE z == [x EXCEPT !.gen = g, !.pc = "admit"]
    <3>2. z \in Operation
      BY <3>1 DEF Operation, WorkerPoints
    <3>3. /\ z.status = x.status /\ z.kind = x.kind /\ z.char = x.char /\ z.action = x.action
          /\ z.owned = x.owned /\ z.interrupted = x.interrupted /\ z.graceful = x.graceful
          /\ z.controls = x.controls /\ z.pc = "admit" /\ z.abort = x.abort
      BY <3>1 DEF Operation
    <3>4. z = y
      BY DEF g, x
    <3>. QED
      BY <3>2, <3>3, <3>4 DEF Worked
  <2>6. Inv' /\ BrokerLater /\ SameIssued
    BY <1>2, StillLater DEF RunnerInv, brokerVars
  <2>. HIDE DEF y
  <2>7. PointsOK(y) /\ \A b : SettledOK(y, b)
    <3>. HIDE DEF x
    <3>. QED
      BY <1>1, <1>2, <2>5 DEF PointsOK, Worked, Before, InStep, Aborting, AfterFinally,
         WithFinally, WithControls, SettledOK
  <2>. QED
    BY <1>2, <2>2, <2>3, <2>5, <2>6, <2>7, WorkedKept
<1>. QED
  BY <1>3, <1>4

\* The worker says that it goes on: a status, and the next point.
LEMMA StatusKept ==
    ASSUME RunnerInv, NEW o \in Created, NEW s \in {"admitted", "running"},
           NEW p \in {"check", "begin"},
           op' = [op EXCEPT ![o].status = s, ![o].pc = p],
           op[o].pc \in Before, UNCHANGED <<brokerVars, stopper, known, handoff>>
    PROVE  RunnerInv'
<1>. DEFINE x == op[o]
            y == [op[o] EXCEPT !.status = s, !.pc = p]
<1>1. /\ o \in Ops /\ x \in Operation /\ PointsOK(x) /\ DOMAIN op = Ops
      /\ handoff \in [Characters -> {0} \cup Ops]
  BY WorkerRecord
<1>2. op'[o] = y /\ op' = [op EXCEPT ![o] = op'[o]]
  BY <1>1
<1>3. Inv' /\ BrokerLater /\ SameIssued
  BY StillLater DEF RunnerInv, brokerVars
<1>4. x.pc \in Before
  OBVIOUS
<1>. HIDE DEF x
<1>5. x.status \notin Terminal
  BY <1>1, <1>4 DEF PointsOK, Before
<1>6. Worked(x, [x EXCEPT !.status = s, !.pc = p]) /\ [x EXCEPT !.status = s, !.pc = p].pc = p
      /\ [x EXCEPT !.status = s, !.pc = p].abort = x.abort
      /\ [x EXCEPT !.status = s, !.pc = p].owned = x.owned
  BY <1>1, <1>5 DEF Worked, Operation, WorkerPoints, Terminal
<1>7. Worked(x, y) /\ y.pc = p /\ y.owned = x.owned
  BY <1>6 DEF x
<1>. HIDE DEF y
<1>8. PointsOK(y) /\ \A b : SettledOK(y, b)
  BY <1>1, <1>4, <1>7 DEF PointsOK, Worked, Before, InStep, Aborting, AfterFinally,
     WithFinally, WithControls, SettledOK, Terminal
<1>. QED
  BY <1>1, <1>2, <1>3, <1>4, <1>7, <1>8, WorkedKept DEF Before, x

\* Admission and the first look for a stop.
LEMMA RunKept ==
    ASSUME RunnerInv, NEW o \in Created, Admit(o) \/ Run(o)
    PROVE  RunnerInv'
<1>1. handoff \in [Characters -> {0} \cup Ops] /\ StopStatus(o) \in Aborts
  BY WorkerRecord, StopStatusAborts
<1>2. CASE Admit(o)
  BY <1>2, StatusKept DEF Admit, Before
<1>3. CASE Run(o) /\ Stopping(o)
  BY <1>1, <1>3, RaiseKept DEF Run, Before
<1>4. CASE Run(o) /\ ~Stopping(o)
  BY <1>4, StatusKept DEF Run, Before
<1>. QED
  BY <1>2, <1>3, <1>4

\* The second look at the session, and what may be wrong before submit.
LEMMA BeginStepKept ==
    ASSUME RunnerInv, NEW o \in Created, BeginStep(o) \/ SubmitRefused(o)
    PROVE  RunnerInv'
<1>1. /\ handoff \in [Characters -> {0} \cup Ops] /\ StopStatus(o) \in Aborts
      /\ "failed" \in Aborts /\ "timed_out" \in Aborts /\ PointsOK(op[o])
  BY WorkerRecord, StopStatusAborts DEF Aborts
<1>2. CASE SubmitRefused(o)
  BY <1>1, <1>2, RaiseKept DEF SubmitRefused, Before
<1>3. CASE BeginStep(o) /\ \E s \in Aborts : Raise(o, s)
  BY <1>1, <1>3, RaiseKept DEF BeginStep, Before
<1>4. CASE BeginStep(o) /\ Goto(o, "submit")
  <2>. DEFINE x == op[o]
              y == op'[o]
  <2>1. op' = [op EXCEPT ![o] = op'[o]] /\ Worked(x, y) /\ y.owned = x.owned
        /\ y.pc = "submit" /\ y.abort = x.abort
    <3>1. "submit" \in WorkerPoints
      BY DEF WorkerPoints
    <3>. QED
      BY <1>1, <1>4, <3>1, MoveFields
  <2>2. Inv' /\ BrokerLater /\ SameIssued
    BY <1>4, StillLater DEF RunnerInv, brokerVars, BeginStep
  <2>3. x.pc = "begin" /\ UNCHANGED <<stopper, known, handoff>>
    BY <1>4 DEF BeginStep
  <2>. HIDE DEF x, y
  <2>4. PointsOK(y) /\ \A b : SettledOK(y, b)
    BY <1>1, <2>1, <2>3 DEF PointsOK, Worked, Before, InStep, Aborting, AfterFinally,
       WithFinally, WithControls, SettledOK, x
  <2>. QED
    BY <1>1, <2>1, <2>2, <2>3, <2>4, WorkedKept DEF x, y
<1>. QED
  BY <1>1, <1>2, <1>3, <1>4 DEF BeginStep

-----------------------------------------------------------------------------
(* The broker step.                                                         *)

\* The operation's action is the one that submit returns.
LEMMA SubmitStepKept ==
    ASSUME RunnerInv, NEW o \in Created, SubmitStep(o)
    PROVE  RunnerInv'
<1>. DEFINE x == op[o]
            k == CommandKind(op[o].kind)
            n == issued + 1
            y == [op[o] EXCEPT !.action = n, !.pc = "associate"]
            d == IF HasControls(o) THEN op[o].deadline ELSE 0
<1>1. /\ o \in Ops /\ x \in Operation /\ PointsOK(x) /\ DOMAIN op = Ops
      /\ x.char \in Characters /\ x.kind \in OperationKinds /\ stopper[o] \in {"idle", "marked", "calling", "returned"}
      /\ LinkOK(x, OwnAction(o), issued) /\ StopperOK(x, stopper[o], OwnAction(o))
      /\ x.controls \subseteq Ids
  BY WorkerRecord, CreatedRecord DEF RunnerInv
<1>2. x.pc = "submit" /\ ~Late(o) /\ UNCHANGED <<stopper, known, handoff>>
  BY DEF SubmitStep
<1>3. PICK r \in Rooms, confirm \in BOOLEAN, life \in Lifetimes(o) :
        Submit(x.char, k, confirm, r, life, d)
  BY DEF SubmitStep
<1>4. life \in Nat /\ d \in Nat
  <2>1. x.deadline \in Nat /\ now \in Nat /\ now < x.deadline
    <3>1. x.deadline \in Time
      BY <1>1 DEF Operation
    <3>2. now \in Time
      BY DEF RunnerInv, Inv, ScalarsOK
    <3>. QED
      BY <1>2, <3>1, <3>2, BrokerConstants DEF Late, Time
  <2>. QED
    BY <2>1 DEF Lifetimes
<1>5. k \in Kinds /\ k # "control"
  BY <1>1, RunnerConstants DEF CommandKind
<1>6. /\ Inv' /\ BrokerLater /\ issued' = n /\ n \in Ids /\ actions'[n].kind = k
  BY <1>1, <1>3, <1>4, <1>5, SubmitLater DEF RunnerInv
<1>7. op'[o] = y /\ op' = [op EXCEPT ![o] = op'[o]]
  BY <1>1 DEF SubmitStep
<1>8. n \in Nat /\ n # 0 /\ issued \in Nat
  BY <1>6 DEF BrokerLater, Ids
<1>. HIDE DEF n, k
<1>9. /\ y \in Operation /\ y.action = n /\ y.pc = "associate" /\ y.status = x.status
      /\ y.kind = x.kind /\ y.char = x.char /\ y.owned = x.owned /\ y.interrupted = x.interrupted
      /\ y.graceful = x.graceful /\ y.controls = x.controls /\ y.abort = x.abort
  BY <1>1, <1>8 DEF Operation, WorkerPoints
<1>. HIDE DEF x, y
<1>10. x.action = 0 /\ x.controls = {} /\ x.status \notin Terminal /\ ~x.owned
  BY <1>1, <1>2 DEF PointsOK, Before
<1>11. PointsOK(y)
  BY <1>1, <1>2, <1>8, <1>9, <1>10 DEF PointsOK, Before, InStep, Aborting, AfterFinally,
     WithFinally, WithControls, Terminal
<1>12. LinkOK(y, actions'[n], issued')
  BY <1>6, <1>8, <1>9, <1>10 DEF LinkOK, k, x
<1>13. SettledOK(y, actions'[n])
  BY <1>9, <1>10 DEF SettledOK, AfterFinally, Terminal
<1>14. StopperOK(y, stopper[o], actions'[n])
  BY <1>1, <1>9, <1>10 DEF StopperOK
<1>15. y.status # "none" /\ NoOperation.status = "none"
  BY <1>9 DEF Operation, NoOperation, Terminal
<1>16. OpOK(o)'
  BY <1>2, <1>6, <1>7, <1>9, <1>11, <1>12, <1>13, <1>14, <1>15 DEF OpOK, OwnAction
<1>17. stopper' = [stopper EXCEPT ![o] = stopper'[o]]
  BY <1>1, <1>2 DEF RunnerInv
<1>. QED
  BY <1>1, <1>2, <1>5, <1>6, <1>7, <1>9, <1>10, <1>15, <1>16, <1>17, OpStepKept
     DEF Ended, x, n, RunnerInv

\* From here on a stop finds the action; an earlier one takes effect now.
LEMMA AssociateKept ==
    ASSUME RunnerInv, NEW o \in Created, Associate(o)
    PROVE  RunnerInv'
<1>. DEFINE x == op[o]
            q == IF op[o].kind \in {"recon", "travel", "test"} THEN "recheck" ELSE "read"
            w == op[o].kind # "plain"
            y == [op[o] EXCEPT !.owned = w, !.pc = q]
            b == actions'[op[o].action]
<1>1. /\ o \in Ops /\ x \in Operation /\ PointsOK(x) /\ DOMAIN op = Ops
      /\ x.char \in Characters /\ x.kind \in OperationKinds
      /\ x.action # 0 => x.action \in Ids /\ x.action <= issued
      /\ handoff \in [Characters -> {0} \cup Ops]
  BY WorkerRecord
<1>2. x.pc = "associate" /\ UNCHANGED <<stopper, known>>
  BY DEF Associate
<1>3. x.action # 0
  BY <1>1, <1>2 DEF PointsOK, InStep
<1>4. /\ Inv' /\ BrokerLater /\ SameIssued
      /\ HasControls(o) /\ x.interrupted => ~IsPending(b)
  <2>1. CASE HasControls(o) /\ Stopping(o)
    BY <1>1, <1>3, <2>1, RevokeOwnedLater DEF Associate, RunnerInv, Stopped
  <2>2. CASE ~(HasControls(o) /\ Stopping(o))
    BY <2>2, StillLater DEF Associate, RunnerInv, brokerVars, Stopping
  <2>. QED
    BY <2>1, <2>2
<1>5. op'[o] = y /\ op' = [op EXCEPT ![o] = op'[o]]
  BY <1>1 DEF Associate
<1>6. handoff' \in [Characters -> {0} \cup Ops]
  BY <1>1 DEF Associate
<1>7. HasControls(o) <=> x.kind \in WithControls
  BY DEF HasControls, WithControls
<1>8. x.kind \in WithControls \cup WithFinally \cup {"test", "plain"}
  BY <1>1, RunnerConstants DEF WithControls, WithFinally
<1>9. /\ y.pc = q /\ y.owned = w /\ y.abort = x.abort /\ Worked(x, y)
  <2>. HIDE DEF x
  <2>1. q \in WorkerPoints /\ w \in BOOLEAN
    BY DEF WorkerPoints
  <2>. HIDE DEF q, w
  <2>. DEFINE z == [x EXCEPT !.owned = w, !.pc = q]
  <2>2. z \in Operation
    BY <1>1, <2>1 DEF Operation
  <2>3. /\ z.status = x.status /\ z.kind = x.kind /\ z.char = x.char /\ z.action = x.action
        /\ z.owned = w /\ z.interrupted = x.interrupted /\ z.graceful = x.graceful
        /\ z.controls = x.controls /\ z.pc = q /\ z.abort = x.abort
    BY <1>1 DEF Operation
  <2>4. z = y
    BY DEF x
  <2>. HIDE DEF z, y
  <2>. QED
    BY <2>2, <2>3, <2>4 DEF Worked
<1>10. q = (IF x.kind \in {"recon", "travel", "test"} THEN "recheck" ELSE "read")
       /\ (w <=> x.kind # "plain")
  OBVIOUS
<1>. HIDE DEF x, y, q, w, b
<1>11. PointsOK(y)
  BY <1>1, <1>2, <1>3, <1>8, <1>9, <1>10 DEF PointsOK, Worked, Before, InStep, Aborting,
     AfterFinally, WithFinally, WithControls
<1>12. SettledOK(y, b)
  BY <1>1, <1>2, <1>9, <1>10 DEF SettledOK, Worked, AfterFinally, PointsOK, Terminal
<1>13. y.pc = "recheck" \/ x.kind = "plain" \/ x.kind \in WithControls
  BY <1>8, <1>9, <1>10 DEF WithFinally
<1>. QED
  BY <1>2, <1>4, <1>5, <1>6, <1>7, <1>9, <1>11, <1>12, <1>13, WorkedKept DEF x, b

\* The wait, for whatever reason it goes on or ends.
LEMMA WaitKept ==
    ASSUME RunnerInv, NEW o \in Created, NEW p \in {"look", "read", "finally", "verify"},
           Goto(o, p), Inv', BrokerLater, SameIssued,
           op[o].pc \in {"recheck", "look", "read"},
           p = "look" => op[o].kind = "recon",
           p = "finally" => op[o].kind \in WithFinally,
           p = "verify" => op[o].kind \notin WithFinally /\ ~IsPending(actions'[op[o].action]),
           op[o].pc = "recheck" => ~op[o].interrupted \/ ~IsPending(actions'[op[o].action]),
           UNCHANGED <<stopper, known, handoff>>
    PROVE  RunnerInv'
<1>. DEFINE x == op[o]
            y == op'[o]
            b == actions'[op[o].action]
<1>1. PointsOK(x) /\ handoff' \in [Characters -> {0} \cup Ops]
  BY WorkerRecord
<1>2. op' = [op EXCEPT ![o] = y] /\ Worked(x, y) /\ y.owned = x.owned /\ y.pc = p /\ y.abort = x.abort
  <2>1. p \in WorkerPoints /\ "failed" \in Aborts
    BY DEF WorkerPoints, Aborts
  <2>. QED
    BY <2>1, MoveFields
<1>. HIDE DEF x, y, b
<1>3. PointsOK(y)
  BY <1>1, <1>2 DEF PointsOK, Worked, Before, InStep, Aborting, AfterFinally,
     WithFinally, WithControls, x
<1>4. SettledOK(y, b)
  BY <1>1, <1>2 DEF PointsOK, Worked, AfterFinally, Before, InStep, SettledOK, Terminal, x, b
<1>. QED
  BY <1>1, <1>2, <1>3, <1>4, WorkedKept DEF x, y, b

\* A stop that came while submit was returning.
LEMMA RecheckKept ==
    ASSUME RunnerInv, NEW o \in Created, Recheck(o)
    PROVE  RunnerInv'
<1>. DEFINE x == op[o]
            b == actions'[op[o].action]
<1>1. /\ PointsOK(x) /\ (x.action # 0 => x.action \in Ids /\ x.action <= issued)
      /\ StopStatus(o) \in Aborts
  BY WorkerRecord, StopStatusAborts
<1>2. x.pc = "recheck" /\ UNCHANGED <<stopper, known, handoff>>
  BY DEF Recheck
<1>3. x.action # 0 /\ x.kind \in WithFinally \cup {"test"}
  BY <1>1, <1>2 DEF PointsOK, InStep
<1>4. CASE ~Stopping(o)
  <2>1. Inv' /\ BrokerLater /\ SameIssued
    BY <1>4, StillLater DEF Recheck, RunnerInv, brokerVars
  <2>2. (Goto(o, "look") /\ x.kind = "recon") \/ Goto(o, "read")
    BY <1>4 DEF Recheck
  <2>. QED
    BY <1>2, <1>4, <2>1, <2>2, WaitKept DEF Stopping
<1>5. CASE Stopping(o) /\ x.kind = "test"
  <2>1. RequestTestStop(x.action)
    BY <1>5 DEF Recheck
  <2>2. Inv' /\ BrokerLater /\ SameIssued /\ ~IsPending(b)
    BY <1>1, <1>3, <2>1, TestStopLater DEF RunnerInv, Stopped
  <2>3. RaiseInStep(o, StopStatus(o)) \/ Goto(o, "read")
    BY <1>5 DEF Recheck
  <2>4. CASE Goto(o, "read")
    BY <1>2, <2>2, <2>4, WaitKept
  <2>5. CASE RaiseInStep(o, StopStatus(o))
    BY <1>1, <1>2, <2>2, <2>5, RaiseInStepKept
  <2>. QED
    BY <2>3, <2>4, <2>5
<1>6. CASE Stopping(o) /\ x.kind # "test"
  <2>1. Inv' /\ BrokerLater /\ SameIssued
    BY <1>6, StillLater DEF Recheck, RunnerInv, brokerVars
  <2>2. RaiseInStep(o, StopStatus(o))
    BY <1>6 DEF Recheck
  <2>. QED
    BY <1>1, <1>2, <1>6, <2>1, <2>2, RaiseInStepKept
<1>. QED
  BY <1>4, <1>5, <1>6

\* The wait itself.
LEMMA ReadKept ==
    ASSUME RunnerInv, NEW o \in Created, Look(o) \/ Read(o)
    PROVE  RunnerInv'
<1>. DEFINE x == op[o]
            b == actions'[op[o].action]
            e == ExpiredActions[op[o].action]
<1>1. /\ PointsOK(x) /\ (x.action # 0 => x.action \in Ids /\ x.action <= issued)
      /\ StopStatus(o) \in Aborts /\ "failed" \in Aborts
  BY WorkerRecord, StopStatusAborts DEF Aborts
<1>2. x.pc \in {"look", "read"} /\ UNCHANGED <<stopper, known, handoff>>
  BY DEF Look, Read
<1>3. Inv' /\ BrokerLater /\ SameIssued
  BY StillLater DEF Look, Read, RunnerInv, brokerVars
<1>4. ASSUME NEW s \in Aborts, RaiseInStep(o, s) PROVE RunnerInv'
  BY <1>2, <1>3, <1>4, RaiseInStepKept
<1>5. CASE Look(o)
  BY <1>1, <1>2, <1>3, <1>4, <1>5, WaitKept DEF Look
<1>6. CASE Read(o)
  <2>1. b = e
    BY <1>6 DEF Read, Observe
  <2>2. \/ \E s \in Aborts : RaiseInStep(o, s)
        \/ Goto(o, "look") /\ x.kind = "recon"
        \/ Goto(o, "read")
        \/ e.status = "completed" /\ Goto(o, IF x.kind \in {"recon", "travel"} THEN "finally" ELSE "verify")
    BY <1>1, <1>6 DEF Read
  <2>3. e.status = "completed" => ~IsPending(b)
    BY <2>1 DEF IsPending, PendingStatuses
  <2>. HIDE DEF b, e
  <2>4. CASE e.status = "completed" /\ Goto(o, IF x.kind \in {"recon", "travel"} THEN "finally" ELSE "verify")
    <3>1. \/ Goto(o, "finally") /\ x.kind \in WithFinally
          \/ Goto(o, "verify") /\ x.kind \notin WithFinally
      BY <2>4 DEF WithFinally
    <3>. QED
      BY <1>2, <1>3, <2>3, <2>4, <3>1, WaitKept DEF b
  <2>5. CASE (Goto(o, "look") /\ x.kind = "recon") \/ Goto(o, "read")
    BY <1>2, <1>3, <2>5, WaitKept
  <2>. QED
    BY <1>4, <2>2, <2>4, <2>5
<1>. QED
  BY <1>5, <1>6

\* finally leaves nothing deliverable, and a launched travel with a stop.
LEMMA FinallyKept ==
    ASSUME RunnerInv, NEW o \in Created, Finally(o)
    PROVE  RunnerInv'
<1>. DEFINE x == op[o]
            q == IF op[o].abort = "" THEN "verify" ELSE "stop test"
            y == [op[o] EXCEPT !.owned = FALSE, !.pc = q]
            a == OwnAction(o)
            b == actions'[op[o].action]
<1>1. /\ o \in Ops /\ x \in Operation /\ PointsOK(x) /\ DOMAIN op = Ops
      /\ x.action # 0 => x.action \in Ids /\ x.action <= issued
      /\ handoff \in [Characters -> {0} \cup Ops]
      /\ LinkOK(x, a, issued)
  BY WorkerRecord, CreatedRecord
<1>2. x.pc = "finally" /\ UNCHANGED <<stopper, known, handoff>>
  BY DEF Finally
<1>3. x.action # 0 /\ x.kind \in WithFinally
  BY <1>1, <1>2 DEF PointsOK, InStep
<1>4. /\ Inv' /\ BrokerLater /\ SameIssued /\ ~IsPending(b)
      /\ a.kind = "travel" /\ b.status = "dispatched" => b.stop
  BY <1>1, <1>3, CancelLater DEF Finally, RunnerInv, OwnAction
<1>5. op'[o] = y /\ op' = [op EXCEPT ![o] = op'[o]]
  BY <1>1 DEF Finally
<1>6. x.kind = "travel" => a.kind = "travel"
  BY <1>1, <1>3 DEF LinkOK, CommandKind
<1>9. /\ y.pc = q /\ y.owned = FALSE /\ y.abort = x.abort /\ Worked(x, y)
  <2>. HIDE DEF x
  <2>1. q \in WorkerPoints
    BY DEF WorkerPoints
  <2>. HIDE DEF q
  <2>. DEFINE z == [x EXCEPT !.owned = FALSE, !.pc = q]
  <2>2. z \in Operation
    BY <1>1, <2>1 DEF Operation
  <2>3. /\ z.status = x.status /\ z.kind = x.kind /\ z.char = x.char /\ z.action = x.action
        /\ z.owned = FALSE /\ z.interrupted = x.interrupted /\ z.graceful = x.graceful
        /\ z.controls = x.controls /\ z.pc = q /\ z.abort = x.abort
    BY <1>1 DEF Operation
  <2>4. z = y
    BY DEF x
  <2>. HIDE DEF z, y
  <2>. QED
    BY <2>2, <2>3, <2>4 DEF Worked
<1>10. q = (IF x.abort = "" THEN "verify" ELSE "stop test")
  OBVIOUS
<1>. HIDE DEF x, y, q, a, b
<1>11. PointsOK(y)
  BY <1>1, <1>2, <1>3, <1>9, <1>10 DEF PointsOK, Worked, Before, InStep, Aborting,
     AfterFinally, WithFinally, WithControls
<1>12. SettledOK(y, b)
  BY <1>1, <1>2, <1>3, <1>4, <1>6, <1>9 DEF SettledOK, Worked, WithFinally, WithControls
<1>. QED
  BY <1>1, <1>2, <1>4, <1>5, <1>9, <1>11, <1>12, WorkedKept DEF x, b

\* The report of a launched outing or test, after an abort.
LEMMA DrainKept ==
    ASSUME RunnerInv, NEW o \in Created, Drain(o)
    PROVE  RunnerInv'
<1>. DEFINE x == op[o]
            y == op'[o]
<1>1. /\ o \in Ops /\ x \in Operation /\ PointsOK(x) /\ x.char \in Characters
      /\ handoff \in [Characters -> {0} \cup Ops]
      /\ StopStatus(o) \in Aborts /\ "failed" \in Aborts /\ "interrupted" \in Aborts
  BY WorkerRecord, StopStatusAborts DEF Aborts
<1>2. x.pc = "drain" /\ UNCHANGED <<brokerVars, stopper, known>>
  BY DEF Drain
<1>3. x.abort \in Aborts
  BY <1>1, <1>2 DEF PointsOK, Aborting, Operation, Aborts
<1>4. handoff' \in [Characters -> {0} \cup Ops]
  BY <1>1 DEF Drain, Resolves
<1>5. ASSUME NEW s \in Aborts, Raise(o, s) PROVE RunnerInv'
  BY <1>2, <1>4, <1>5, RaiseKept
<1>6. CASE Goto(o, "stop test")
  <2>1. op' = [op EXCEPT ![o] = y] /\ Worked(x, y) /\ y.owned = x.owned /\ y.pc = "stop test"
        /\ y.abort = x.abort
    <3>1. "stop test" \in WorkerPoints
      BY DEF WorkerPoints
    <3>. QED
      BY <1>1, <1>6, <3>1, MoveFields
  <2>2. Inv' /\ BrokerLater /\ SameIssued
    BY <1>2, StillLater DEF RunnerInv, brokerVars
  <2>. HIDE DEF x, y
  <2>3. PointsOK(y)
    BY <1>1, <1>2, <2>1 DEF PointsOK, Worked, Before, InStep, Aborting, AfterFinally,
       WithFinally, WithControls, x
  <2>4. \A b : SettledOK(y, b)
    BY <1>1, <1>2, <2>1 DEF PointsOK, Worked, SettledOK, Terminal, WithFinally
  <2>. QED
    BY <1>2, <1>4, <2>1, <2>2, <2>3, <2>4, WorkedKept DEF x, y
<1>. QED
  BY <1>1, <1>3, <1>5, <1>6 DEF Drain

\* The end state is judged.
LEMMA VerifyKept ==
    ASSUME RunnerInv, NEW o \in Created, Verified(o) \/ NotVerified(o)
    PROVE  RunnerInv'
<1>. DEFINE x == op[o]
            y == op'[o]
<1>1. /\ o \in Ops /\ x \in Operation /\ PointsOK(x) /\ x.char \in Characters
      /\ handoff \in [Characters -> {0} \cup Ops]
      /\ StopStatus(o) \in Aborts /\ "failed" \in Aborts /\ "interrupted" \in Aborts
      /\ "timed_out" \in Aborts
  BY WorkerRecord, StopStatusAborts DEF Aborts
<1>2. x.pc = "verify" /\ UNCHANGED <<brokerVars, stopper, known>>
  BY DEF Verified, NotVerified
<1>3. handoff' \in [Characters -> {0} \cup Ops]
  BY <1>1 DEF Verified, NotVerified
<1>4. ASSUME NEW s \in Aborts, Raise(o, s) PROVE RunnerInv'
  BY <1>2, <1>3, <1>4, RaiseKept
<1>5. CASE Goto(o, "finish")
  <2>1. op' = [op EXCEPT ![o] = y] /\ Worked(x, y) /\ y.owned = x.owned /\ y.pc = "finish"
        /\ y.abort = x.abort
    <3>1. "finish" \in WorkerPoints
      BY DEF WorkerPoints
    <3>. QED
      BY <1>1, <1>5, <3>1, MoveFields
  <2>2. Inv' /\ BrokerLater /\ SameIssued
    BY <1>2, StillLater DEF RunnerInv, brokerVars
  <2>. HIDE DEF x, y
  <2>3. PointsOK(y)
    BY <1>1, <1>2, <2>1 DEF PointsOK, Worked, Before, InStep, Aborting, AfterFinally,
       WithFinally, WithControls, x
  <2>4. \A b : SettledOK(x, b) => SettledOK(y, b)
    BY <1>1, <1>2, <2>1 DEF PointsOK, Worked, SettledOK, Terminal, AfterFinally
  <2>. QED
    BY <1>2, <1>3, <2>1, <2>2, <2>3, <2>4, WorkedKept DEF x, y
<1>. QED
  BY <1>1, <1>4, <1>5 DEF Verified, NotVerified

-----------------------------------------------------------------------------
(* The end of an operation, and the clients.                                *)

\* What an operation owned is settled by the step that ends it.
LEMMA DoneKept ==
    ASSUME RunnerInv, NEW o \in Created, NEW run \in BOOLEAN, CancelControls(o, run),
           op' = [op EXCEPT ![o] = op'[o]], op'[o] \in Operation,
           op'[o].char = op[o].char, op'[o].kind = op[o].kind, op'[o].action = op[o].action,
           op'[o].interrupted = op[o].interrupted, op'[o].graceful = op[o].graceful,
           op'[o].pc = "done", op'[o].owned = FALSE, op'[o].controls = {},
           \/ /\ op[o].pc = "finish" /\ op'[o].status = "succeeded"
              /\ op[o].kind \notin {"recon", "plain"} => ~op[o].interrupted /\ ~op[o].graceful
           \/ op[o].pc = "revoke" /\ op'[o].status = op[o].status /\ run,
           UNCHANGED <<stopper, known, handoff>>
    PROVE  RunnerInv'
<1>. DEFINE x == op[o]
            y == op'[o]
            b == actions'[op[o].action]
            s == stopper[o]
<1>1. /\ o \in Ops /\ x \in Operation /\ PointsOK(x) /\ x.controls \subseteq Ids
      /\ \A i \in x.controls : i <= issued
      /\ x.action # 0 => x.action \in Ids /\ x.action <= issued
      /\ handoff \in [Characters -> {0} \cup Ops]
      /\ s \in {"idle", "marked", "calling", "returned"} /\ stopper = [stopper EXCEPT ![o] = s]
  BY WorkerRecord, CreatedRecord DEF LinkOK, RunnerInv
<1>2. HasControls(o) <=> x.kind \in WithControls
  BY DEF HasControls, WithControls
<1>3. x.owned => x.action # 0
  BY <1>1 DEF PointsOK
<1>4. /\ Inv' /\ BrokerLater /\ SameIssued
      /\ x.kind \in WithControls /\ x.owned =>
           (\A i \in x.controls : Stopped(actions'[i])) /\ (run => Stopped(b))
  BY <1>1, <1>2, <1>3, CancelControlsLater DEF RunnerInv
<1>5. /\ y.kind = x.kind /\ y.action = x.action
      /\ y.interrupted = x.interrupted /\ y.graceful = x.graceful
      /\ y.pc = "done" /\ y.owned = FALSE /\ y.controls = {}
      /\ \/ /\ x.pc = "finish" /\ y.status = "succeeded"
            /\ x.kind \notin {"recon", "plain"} => ~x.interrupted /\ ~x.graceful
         \/ x.pc = "revoke" /\ y.status = x.status /\ run
  OBVIOUS
<1>. HIDE DEF x, y, b, s
<1>6. PointsOK(y)
  BY <1>1, <1>5 DEF PointsOK, Before, InStep, Aborting, AfterFinally, WithFinally, WithControls,
     Terminal
<1>7. SettledOK(x, b) => SettledOK(y, b)
  <2>1. x.action # 0 /\ x.kind \in WithControls /\ x.pc = "revoke" => Stopped(b)
    BY <1>1, <1>4, <1>5 DEF PointsOK
  <2>2. x.pc = "revoke" => y.status # "succeeded"
    BY <1>1, <1>5 DEF PointsOK
  <2>. QED
    BY <1>5, <2>1, <2>2 DEF SettledOK, AfterFinally, WithFinally, WithControls
<1>8. StopperOK(x, s, b) => StopperOK(y, s, b)
  BY <1>5 DEF StopperOK
<1>9. \A i \in x.controls : ~IsPending(actions'[i])
  BY <1>1, <1>4 DEF PointsOK, Stopped
<1>10. y.status \in Terminal
  BY <1>1, <1>5 DEF PointsOK, Terminal
<1>. QED
  BY <1>1, <1>4, <1>6, <1>7, <1>8, <1>9, <1>10, FreeKept DEF x, y, b, s

\* The last look, and success.
LEMMA FinishKept ==
    ASSUME RunnerInv, NEW o \in Created, Finish(o)
    PROVE  RunnerInv'
<1>. DEFINE x == op[o]
<1>1. /\ o \in Ops /\ x \in Operation /\ DOMAIN op = Ops
      /\ handoff \in [Characters -> {0} \cup Ops]
      /\ StopStatus(o) \in Aborts /\ "interrupted" \in Aborts
  BY WorkerRecord, StopStatusAborts DEF Aborts
<1>2. x.pc = "finish" /\ UNCHANGED <<stopper, known, handoff>>
  BY DEF Finish
<1>3. CASE StoppedAtEnd(o) \/ x.graceful
  <2>1. UNCHANGED brokerVars /\ \E s \in Aborts : Raise(o, s)
    BY <1>1, <1>3 DEF Finish
  <2>. QED
    BY <1>1, <1>2, <2>1, RaiseKept
<1>4. CASE ~StoppedAtEnd(o) /\ ~x.graceful
  <2>1. /\ CancelControls(o, FALSE)
        /\ op' = [op EXCEPT ![o].status = "succeeded", ![o].pc = "done",
                            ![o].owned = FALSE, ![o].controls = {}]
    BY <1>4 DEF Finish
  <2>. DEFINE y == [x EXCEPT !.status = "succeeded", !.pc = "done", !.owned = FALSE, !.controls = {}]
  <2>2. op'[o] = y /\ op' = [op EXCEPT ![o] = op'[o]]
    BY <1>1, <2>1
  <2>3. x.kind \notin {"recon", "plain"} => ~x.interrupted /\ ~x.graceful
    BY <1>4 DEF StoppedAtEnd, Stopping
  <2>4. /\ y \in Operation /\ y.char = x.char /\ y.kind = x.kind /\ y.action = x.action
        /\ y.interrupted = x.interrupted /\ y.graceful = x.graceful
        /\ y.pc = "done" /\ y.owned = FALSE /\ y.controls = {} /\ y.status = "succeeded"
    <3>. HIDE DEF x
    <3>. QED
      BY <1>1 DEF Operation, WorkerPoints, Terminal
  <2>. HIDE DEF y
  <2>. QED
    BY <1>2, <2>1, <2>2, <2>3, <2>4, DoneKept
<1>. QED
  BY <1>3, <1>4

\* The revocation of an abort.
LEMMA RevokeAtEndKept ==
    ASSUME RunnerInv, NEW o \in Created, RevokeAtEnd(o)
    PROVE  RunnerInv'
<1>. DEFINE x == op[o]
            y == [x EXCEPT !.pc = "done", !.owned = FALSE, !.controls = {}]
<1>1. /\ o \in Ops /\ x \in Operation /\ DOMAIN op = Ops
  BY WorkerRecord
<1>2. /\ x.pc = "revoke" /\ CancelControls(o, TRUE) /\ UNCHANGED <<stopper, known, handoff>>
      /\ op' = [op EXCEPT ![o].pc = "done", ![o].owned = FALSE, ![o].controls = {}]
  BY DEF RevokeAtEnd
<1>3. op'[o] = y /\ op' = [op EXCEPT ![o] = op'[o]]
  BY <1>1, <1>2
<1>4. /\ y \in Operation /\ y.char = x.char /\ y.kind = x.kind /\ y.action = x.action
      /\ y.interrupted = x.interrupted /\ y.graceful = x.graceful
      /\ y.pc = "done" /\ y.owned = FALSE /\ y.controls = {} /\ y.status = x.status
  <2>. HIDE DEF x
  <2>. QED
    BY <1>1 DEF Operation, WorkerPoints
<1>. HIDE DEF y
<1>. QED
  BY <1>2, <1>3, <1>4, DoneKept

\* _stop_test_action
LEMMA StopTestKept ==
    ASSUME RunnerInv, NEW o \in Created, StopTest(o)
    PROVE  RunnerInv'
<1>. DEFINE x == op[o]
            y == op'[o]
            b == actions'[op[o].action]
<1>1. /\ o \in Ops /\ x \in Operation /\ PointsOK(x)
      /\ x.action # 0 => x.action \in Ids /\ x.action <= issued
      /\ handoff \in [Characters -> {0} \cup Ops]
  BY WorkerRecord
<1>2. x.pc = "stop test" /\ UNCHANGED <<stopper, known, handoff>> /\ Goto(o, "end")
  BY DEF StopTest
<1>3. x.kind = "test" /\ x.action # 0 => x.owned
  BY <1>1, <1>2 DEF PointsOK
<1>4. Inv' /\ BrokerLater /\ SameIssued /\ (x.kind = "test" /\ x.action # 0 => Stopped(b))
  <2>1. CASE x.kind = "test" /\ x.owned
    <3>1. RequestTestStop(x.action) /\ x.action # 0
      BY <1>1, <2>1 DEF StopTest, PointsOK
    <3>. QED
      BY <1>1, <3>1, TestStopLater DEF RunnerInv
  <2>2. CASE ~(x.kind = "test" /\ x.owned)
    BY <1>3, <2>2, StillLater DEF StopTest, RunnerInv, brokerVars
  <2>. QED
    BY <2>1, <2>2
<1>5. op' = [op EXCEPT ![o] = y] /\ Worked(x, y) /\ y.owned = x.owned /\ y.pc = "end"
      /\ y.abort = x.abort
  <2>1. "end" \in WorkerPoints /\ "failed" \in Aborts
    BY DEF WorkerPoints, Aborts
  <2>. QED
    BY <1>2, <2>1, MoveFields
<1>. HIDE DEF x, y, b
<1>6. PointsOK(y)
  BY <1>1, <1>2, <1>5 DEF PointsOK, Worked, Before, InStep, Aborting, AfterFinally,
     WithFinally, WithControls
<1>7. SettledOK(x, b) => SettledOK(y, b)
  BY <1>1, <1>2, <1>4, <1>5 DEF PointsOK, Worked, SettledOK, Terminal, AfterFinally
<1>. QED
  BY <1>1, <1>2, <1>4, <1>5, <1>6, <1>7, WorkedKept DEF x, y, b

\* The status of an abort is published.
LEMMA EndKept ==
    ASSUME RunnerInv, NEW o \in Created, End(o)
    PROVE  RunnerInv'
<1>. DEFINE x == op[o]
            y == [op[o] EXCEPT !.status = op[o].abort, !.pc = "revoke"]
            b == actions'[op[o].action]
            s == stopper[o]
<1>1. /\ o \in Ops /\ x \in Operation /\ PointsOK(x) /\ DOMAIN op = Ops
      /\ handoff \in [Characters -> {0} \cup Ops]
      /\ s \in {"idle", "marked", "calling", "returned"} /\ stopper = [stopper EXCEPT ![o] = s]
  BY WorkerRecord DEF RunnerInv
<1>2. x.pc = "end" /\ UNCHANGED <<brokerVars, stopper, known, handoff>>
  BY DEF End
<1>3. Inv' /\ BrokerLater /\ SameIssued
  BY <1>2, StillLater DEF RunnerInv, brokerVars
<1>4. op'[o] = y /\ op' = [op EXCEPT ![o] = op'[o]]
  BY <1>1 DEF End
<1>5. x.abort \in Aborts
  BY <1>1, <1>2 DEF PointsOK, Aborting, Operation, Aborts
<1>6. /\ y \in Operation /\ y.char = x.char /\ y.kind = x.kind /\ y.action = x.action
      /\ y.owned = x.owned /\ y.interrupted = x.interrupted /\ y.graceful = x.graceful
      /\ y.controls = x.controls /\ y.pc = "revoke" /\ y.status = x.abort /\ y.abort = x.abort
  <2>. DEFINE t == x.abort
              z == [x EXCEPT !.status = t, !.pc = "revoke"]
  <2>1. z = y
    OBVIOUS
  <2>. HIDE DEF x, t
  <2>2. /\ z \in Operation /\ z.char = x.char /\ z.kind = x.kind /\ z.action = x.action
        /\ z.owned = x.owned /\ z.interrupted = x.interrupted /\ z.graceful = x.graceful
        /\ z.controls = x.controls /\ z.pc = "revoke" /\ z.status = t /\ z.abort = x.abort
    <3>1. t \in Aborts
      BY <1>5 DEF t
    <3>. QED
      BY <1>1, <3>1 DEF Operation, WorkerPoints, Terminal, Aborts
  <2>. QED
    BY <2>1, <2>2 DEF t
<1>. HIDE DEF x, y, b, s
<1>7. PointsOK(y)
  BY <1>1, <1>2, <1>5, <1>6 DEF PointsOK, Before, InStep, Aborting, AfterFinally, WithFinally,
     WithControls, Terminal, Aborts
<1>8. SettledOK(x, b) => SettledOK(y, b)
  BY <1>2, <1>5, <1>6 DEF SettledOK, AfterFinally, Aborts
<1>9. StopperOK(x, s, b) => StopperOK(y, s, b)
  BY <1>2, <1>6 DEF StopperOK
<1>10. y.status \in Terminal
  BY <1>5, <1>6 DEF Terminal, Aborts
<1>. QED
  BY <1>1, <1>2, <1>3, <1>4, <1>6, <1>7, <1>8, <1>9, <1>10, FreeKept DEF x, y, b, s

\* Only the client's thread moves.
LEMMA ClientKept ==
    ASSUME RunnerInv, Inv', BrokerLater, SameIssued, NEW o \in Created,
           NEW t \in {"idle", "marked", "calling", "returned"},
           stopper' = [stopper EXCEPT ![o] = t], UNCHANGED <<op, known, handoff>>,
           /\ SettledOK(op[o], actions'[op[o].action])
           /\ StopperOK(op[o], stopper[o], actions'[op[o].action])
           => StopperOK(op[o], t, actions'[op[o].action])
    PROVE  RunnerInv'
<1>1. /\ o \in Ops /\ op[o] \in Operation /\ PointsOK(op[o]) /\ DOMAIN op = Ops
      /\ handoff \in [Characters -> {0} \cup Ops]
  BY WorkerRecord
<1>2. op' = [op EXCEPT ![o] = op'[o]] /\ op'[o] = op[o]
  BY <1>1 DEF RunnerInv
<1>3. stopper'[o] = t /\ stopper' = [stopper EXCEPT ![o] = stopper'[o]]
  BY <1>1 DEF RunnerInv
<1>. QED
  BY <1>1, <1>2, <1>3, FreeKept

\* interrupt of what is over has nothing to do, and nothing was marked.
LEMMA InterruptNothingKept ==
    ASSUME RunnerInv, NEW o \in Created, InterruptNothing(o)
    PROVE  RunnerInv'
<1>1. Inv' /\ BrokerLater /\ SameIssued
  BY StillLater DEF InterruptNothing, RunnerInv, brokerVars
<1>2. \A b : StopperOK(op[o], "idle", b) => StopperOK(op[o], "returned", b)
  BY DEF StopperOK
<1>. QED
  BY <1>1, <1>2, ClientKept DEF InterruptNothing

\* A launched outing is asked to come home, and its controls are revoked.
LEMMA InterruptGracefullyKept ==
    ASSUME RunnerInv, NEW o \in Created, InterruptGracefully(o)
    PROVE  RunnerInv'
<1>. DEFINE x == op[o]
            y == [op[o] EXCEPT !.graceful = TRUE, !.controls = {}]
            b == actions'[op[o].action]
            s == stopper[o]
            m == op[o].action
<1>1. /\ o \in Ops /\ x \in Operation /\ PointsOK(x) /\ DOMAIN op = Ops
      /\ x.controls \subseteq Ids /\ \A i \in x.controls : i <= issued
      /\ x.action # 0 => x.action \in Ids /\ x.action <= issued
      /\ handoff \in [Characters -> {0} \cup Ops]
  BY WorkerRecord, CreatedRecord DEF LinkOK
<1>2. /\ s \in {"idle", "returned"} /\ ~Ended(o) /\ x.owned /\ x.kind = "refuge" /\ MayReturn(m)
      /\ stopper' = [stopper EXCEPT ![o] = "returned"] /\ UNCHANGED <<known, handoff>>
      /\ UNCHANGED <<enabled, activeGen, retired, issued, now>>
      /\ actions' = [i \in Ids |-> IF i \in x.controls THEN RevokedControl(actions[i])
                                   ELSE IF i = m THEN [actions[i] EXCEPT !.return = TRUE]
                                   ELSE ExpiredActions[i]]
  BY DEF InterruptGracefully, ComesHome
<1>3. m \in Ids /\ m <= issued
  BY <1>1, <1>2 DEF PointsOK
<1>4. ASSUME NEW i \in Ids, i <= issued
      PROVE  Weakens(actions[i], actions'[i]) /\ Later(actions[i], actions'[i])
  <2>1. actions[i] \in Action /\ Consistent(actions[i])
    BY <1>4 DEF RunnerInv, Inv, ActionsOK
  <2>2. CASE i \in x.controls
    BY <1>2, <2>1, <2>2, RevokedControlLater
  <2>3. CASE i \notin x.controls /\ i = m
    <3>1. actions[i].kind = "refuge" /\ IsLaunched(actions[i])
      BY <1>2, <2>3 DEF MayReturn, IsLaunched, LaunchedStatuses
    <3>. QED
      BY <1>2, <2>1, <2>3, <3>1, ReturnWeakens, FieldLater
  <2>4. CASE i \notin x.controls /\ i # m
    BY <1>2, <1>4, <2>4, PassLater, ExpiredWeakens DEF RunnerInv
  <2>. QED
    BY <2>2, <2>3, <2>4
<1>5. \A i \in Ids : ~(i <= issued) => actions'[i] = actions[i]
  BY <1>1, <1>2, <1>3, PassLater DEF RunnerInv
<1>6. Inv' /\ BrokerLater /\ SameIssued
  BY <1>2, <1>4, <1>5, EachLater DEF RunnerInv
<1>7. \A i \in x.controls : ~IsPending(actions'[i])
  BY <1>1, <1>2, RevokedControlLater DEF Stopped, RunnerInv, Inv, ActionsOK
<1>8. ~IsPending(b)
  <2>1. ~IsPending(actions[m])
    BY <1>2 DEF MayReturn, IsPending, PendingStatuses
  <2>. QED
    BY <1>3, <1>4, <2>1 DEF Later
<1>9. op'[o] = y /\ op' = [op EXCEPT ![o] = op'[o]]
  BY <1>1 DEF InterruptGracefully
<1>10. /\ y \in Operation /\ y.char = x.char /\ y.kind = x.kind /\ y.action = x.action
       /\ y.owned = x.owned /\ y.interrupted = x.interrupted /\ y.pc = x.pc
       /\ y.controls = {} /\ y.status = x.status /\ y.abort = x.abort
  <2>. HIDE DEF x
  <2>1. LET z == [x EXCEPT !.graceful = TRUE, !.controls = {}] IN
        /\ z \in Operation /\ z.char = x.char /\ z.kind = x.kind /\ z.action = x.action
        /\ z.owned = x.owned /\ z.interrupted = x.interrupted /\ z.pc = x.pc
        /\ z.controls = {} /\ z.status = x.status /\ z.abort = x.abort
    BY <1>1 DEF Operation
  <2>. QED
    BY <2>1 DEF x
<1>11. x.status \notin Terminal
  BY <1>2 DEF Ended
<1>12. stopper'[o] = "returned" /\ stopper' = [stopper EXCEPT ![o] = stopper'[o]]
  BY <1>1, <1>2 DEF RunnerInv
<1>. HIDE DEF x, y, b, s, m
<1>13. PointsOK(y)
  BY <1>1, <1>10, <1>11 DEF PointsOK, Terminal
<1>14. SettledOK(x, b) => SettledOK(y, b)
  BY <1>10 DEF SettledOK
<1>15. StopperOK(y, "returned", b)
  BY <1>8 DEF StopperOK
<1>. QED
  BY <1>1, <1>2, <1>6, <1>7, <1>9, <1>10, <1>12, <1>13, <1>14, <1>15, FreeKept DEF x, y, b, s

\* The mark comes first, and the client still has to look.
LEMMA InterruptMarksKept ==
    ASSUME RunnerInv, NEW o \in Created, InterruptMarks(o)
    PROVE  RunnerInv'
<1>. DEFINE x == op[o]
            y == [op[o] EXCEPT !.interrupted = TRUE]
<1>1. /\ o \in Ops /\ x \in Operation /\ PointsOK(x) /\ DOMAIN op = Ops
      /\ handoff \in [Characters -> {0} \cup Ops]
  BY WorkerRecord
<1>2. Inv' /\ BrokerLater /\ SameIssued
  BY StillLater DEF InterruptMarks, RunnerInv, brokerVars
<1>3. /\ ~Ended(o) /\ UNCHANGED <<known, handoff>>
      /\ stopper' = [stopper EXCEPT ![o] = "marked"]
      /\ op'[o] = y /\ op' = [op EXCEPT ![o] = op'[o]]
  BY <1>1 DEF InterruptMarks
<1>4. stopper'[o] = "marked" /\ stopper' = [stopper EXCEPT ![o] = stopper'[o]]
  BY <1>1, <1>3 DEF RunnerInv
<1>5. x.status \notin Terminal
  BY <1>3 DEF Ended
<1>6. /\ y \in Operation /\ y.char = x.char /\ y.kind = x.kind /\ y.action = x.action
      /\ y.owned = x.owned /\ y.graceful = x.graceful /\ y.pc = x.pc
      /\ y.controls = x.controls /\ y.status = x.status /\ y.abort = x.abort
  <2>. HIDE DEF x
  <2>1. LET z == [x EXCEPT !.interrupted = TRUE] IN
        /\ z \in Operation /\ z.char = x.char /\ z.kind = x.kind /\ z.action = x.action
        /\ z.owned = x.owned /\ z.graceful = x.graceful /\ z.pc = x.pc
        /\ z.controls = x.controls /\ z.status = x.status /\ z.abort = x.abort
    BY <1>1 DEF Operation
  <2>. QED
    BY <2>1 DEF x
<1>. HIDE DEF x, y
<1>7. PointsOK(y)
  BY <1>1, <1>5, <1>6 DEF PointsOK, Terminal
<1>8. \A b : SettledOK(x, b) => SettledOK(y, b)
  BY <1>6 DEF SettledOK
<1>9. \A b : StopperOK(y, "marked", b)
  BY DEF StopperOK
<1>. QED
  BY <1>1, <1>2, <1>3, <1>4, <1>6, <1>7, <1>8, <1>9, FreeKept DEF x, y

\* A controller is revoked in one lock; of the others the owner is noted.
LEMMA InterruptLooksKept ==
    ASSUME RunnerInv, NEW o \in Created, InterruptLooks(o)
    PROVE  RunnerInv'
<1>. DEFINE x == op[o]
            b == actions'[op[o].action]
<1>1. /\ o \in Ops /\ x \in Operation /\ PointsOK(x) /\ DOMAIN op = Ops
      /\ x.controls \subseteq Ids /\ \A i \in x.controls : i <= issued
      /\ x.action # 0 => x.action \in Ids /\ x.action <= issued
      /\ handoff \in [Characters -> {0} \cup Ops] /\ x.kind \in OperationKinds
  BY WorkerRecord, CreatedRecord DEF LinkOK
<1>2. HasControls(o) <=> x.kind \in WithControls
  BY DEF HasControls, WithControls
<1>3. CASE HasControls(o)
  <2>. DEFINE y == [op[o] EXCEPT !.controls = IF x.owned THEN {} ELSE @]
  <2>1. CancelControls(o, TRUE) /\ UNCHANGED <<known, handoff>>
        /\ stopper' = [stopper EXCEPT ![o] = "returned"]
        /\ op' = [op EXCEPT ![o].controls = IF op[o].owned THEN {} ELSE @]
    BY <1>3 DEF InterruptLooks
  <2>2. x.owned => x.action # 0
    BY <1>1 DEF PointsOK
  <2>3. /\ Inv' /\ BrokerLater /\ SameIssued
        /\ x.owned => (\A i \in x.controls : Stopped(actions'[i])) /\ Stopped(b)
    BY <1>1, <1>3, <2>1, <2>2, CancelControlsLater DEF RunnerInv
  <2>4. op'[o] = y /\ op' = [op EXCEPT ![o] = op'[o]]
    BY <1>1, <2>1
  <2>5. stopper'[o] = "returned" /\ stopper' = [stopper EXCEPT ![o] = stopper'[o]]
    BY <1>1, <2>1 DEF RunnerInv
  <2>6. /\ y \in Operation /\ y.char = x.char /\ y.kind = x.kind /\ y.action = x.action
        /\ y.owned = x.owned /\ y.graceful = x.graceful /\ y.pc = x.pc
        /\ y.interrupted = x.interrupted
        /\ y.controls \in {x.controls, {}} /\ y.status = x.status /\ y.abort = x.abort
        /\ ~x.owned => y.controls = x.controls
    <3>. DEFINE v == IF x.owned THEN {} ELSE x.controls
                z == [x EXCEPT !.controls = v]
    <3>0. v \in SUBSET Ids /\ v \in {x.controls, {}} /\ (~x.owned => v = x.controls)
      BY <1>1
    <3>1. z = y
      OBVIOUS
    <3>. HIDE DEF x, v
    <3>2. /\ z \in Operation /\ z.char = x.char /\ z.kind = x.kind /\ z.action = x.action
          /\ z.owned = x.owned /\ z.graceful = x.graceful /\ z.pc = x.pc
          /\ z.interrupted = x.interrupted
          /\ z.controls = v /\ z.status = x.status /\ z.abort = x.abort
      BY <1>1, <3>0 DEF Operation
    <3>. HIDE DEF z, y
    <3>. QED
      BY <3>0, <3>1, <3>2 DEF x
  <2>. HIDE DEF x, y, b
  <2>7. PointsOK(y)
    BY <1>1, <2>6 DEF PointsOK
  <2>8. SettledOK(x, b) => SettledOK(y, b)
    BY <2>6 DEF SettledOK
  <2>9. SettledOK(x, b) => StopperOK(y, "returned", b)
    <3>1. x.kind \in WithControls /\ (x.owned => ~IsPending(b))
      BY <1>2, <1>3, <2>3 DEF Stopped
    <3>2. ~x.owned /\ x.action # 0 => x.pc \in {"associate", "done"}
      BY <1>1, <3>1 DEF PointsOK
    <3>. QED
      BY <2>6, <3>1, <3>2 DEF StopperOK, SettledOK, Stopped
  <2>10. \A i \in x.controls : i \in y.controls \/ ~IsPending(actions'[i])
    BY <2>3, <2>6 DEF Stopped
  <2>11. y.controls \subseteq x.controls
    BY <2>6
  <2>. QED
    BY <1>1, <2>1, <2>3, <2>4, <2>5, <2>6, <2>7, <2>8, <2>9, <2>10, <2>11, FreeKept DEF x, b
<1>4. CASE ~HasControls(o)
  <2>. DEFINE t == IF op[o].owned THEN "calling" ELSE "returned"
              s == stopper[o]
  <2>1. stopper' = [stopper EXCEPT ![o] = t] /\ UNCHANGED <<brokerVars, op, known, handoff>>
        /\ s = "marked"
    BY <1>4 DEF InterruptLooks
  <2>2. Inv' /\ BrokerLater /\ SameIssued
    BY <2>1, StillLater DEF RunnerInv, brokerVars
  <2>3. x.kind \in WithFinally \cup {"test", "plain"}
    BY <1>1, <1>2, <1>4, RunnerConstants DEF WithFinally, WithControls
  <2>4. t = (IF x.owned THEN "calling" ELSE "returned")
    OBVIOUS
  <2>. HIDE DEF x, b, t, s
  <2>5. SettledOK(x, b) /\ StopperOK(x, s, b) => StopperOK(x, t, b)
    <3>1. CASE x.owned
      BY <1>1, <2>3, <2>4, <3>1 DEF StopperOK, PointsOK
    <3>2. CASE ~x.owned
      <4>1. x.action # 0 /\ x.kind \in WithFinally => x.pc \in {"associate"} \cup AfterFinally
        BY <1>1, <3>2 DEF PointsOK
      <4>2. x.action # 0 /\ x.kind = "test" => x.pc \in {"associate", "done"}
        BY <1>1, <3>2 DEF PointsOK
      <4>. QED
        BY <2>3, <2>4, <3>2, <4>1, <4>2 DEF StopperOK, SettledOK, Stopped
    <3>. QED
      BY <3>1, <3>2
  <2>6. t \in {"idle", "marked", "calling", "returned"}
    BY <2>4
  <2>. QED
    BY <2>1, <2>2, <2>5, <2>6, ClientKept DEF x, b, s
<1>. QED
  BY <1>3, <1>4

\* The call of the broker that the client's interrupt ends with.
LEMMA InterruptCallsKept ==
    ASSUME RunnerInv, NEW o \in Created, InterruptCalls(o)
    PROVE  RunnerInv'
<1>. DEFINE x == op[o]
            b == actions'[op[o].action]
<1>1. /\ o \in Ops /\ StopperOK(x, stopper[o], OwnAction(o))
      /\ x.action # 0 => x.action \in Ids /\ x.action <= issued
  BY WorkerRecord, CreatedRecord
<1>2. stopper[o] = "calling" /\ stopper' = [stopper EXCEPT ![o] = "returned"]
      /\ UNCHANGED <<op, known, handoff>>
  BY DEF InterruptCalls
<1>3. x.action \in Ids /\ x.action <= issued
  BY <1>1, <1>2 DEF StopperOK
<1>4. Inv' /\ BrokerLater /\ SameIssued /\ ~IsPending(b)
  <2>1. RequestTestStop(x.action) \/ Cancel(x.action)
    BY DEF InterruptCalls
  <2>. QED
    BY <1>3, <2>1, TestStopLater, CancelLater DEF RunnerInv, Stopped
<1>5. StopperOK(x, "returned", b)
  BY <1>4 DEF StopperOK
<1>. QED
  BY <1>2, <1>4, <1>5, ClientKept

\* A control is one more action, which the operation answers for.
LEMMA ControlKept ==
    ASSUME RunnerInv, NEW o \in Created, NEW status \in BOOLEAN, Control(o, status)
    PROVE  RunnerInv'
<1>. DEFINE x == op[o]
            n == issued + 1
            waiting == {i \in op[o].controls : now < actions[i].expiresAt}
            v == waiting \cup {n}
            y == [op[o] EXCEPT !.controls = v]
            b == actions'[op[o].action]
            s == stopper[o]
<1>1. /\ o \in Ops /\ x \in Operation /\ PointsOK(x) /\ DOMAIN op = Ops
      /\ x.char \in Characters /\ x.kind \in OperationKinds
      /\ x.controls \subseteq Ids /\ \A i \in x.controls : i <= issued
      /\ x.action # 0 => x.action \in Ids /\ x.action <= issued
      /\ handoff \in [Characters -> {0} \cup Ops]
      /\ LinkOK(x, OwnAction(o), issued) /\ SettledOK(x, OwnAction(o))
      /\ StopperOK(x, s, OwnAction(o))
      /\ s \in {"idle", "marked", "calling", "returned"} /\ stopper = [stopper EXCEPT ![o] = s]
  BY WorkerRecord, CreatedRecord DEF LinkOK, RunnerInv
<1>2. /\ HasControls(o) /\ x.owned /\ ~Ended(o) /\ UNCHANGED <<stopper, known, handoff>>
      /\ op' = [op EXCEPT ![o].controls = v]
  BY DEF Control
<1>3. PICK r \in Rooms, life \in 1..(x.deadline - now) : Submit(x.char, "control", FALSE, r, life, 0)
  BY DEF Control
<1>4. x.kind \in WithControls /\ "control" \in Kinds
  BY <1>1, <1>2, RunnerConstants DEF HasControls, WithControls
<1>5. life \in Nat
  OBVIOUS
<1>6. /\ Inv' /\ BrokerLater /\ issued' = n /\ n \in Ids
  BY <1>1, <1>3, <1>4, <1>5, SubmitLater DEF RunnerInv
<1>7. op'[o] = y /\ op' = [op EXCEPT ![o] = op'[o]]
  BY <1>1, <1>2
<1>8. issued \in Nat /\ now \in Nat /\ issued' \in {issued, issued + 1}
  BY <1>6 DEF BrokerLater
<1>9. x.action \in Ids /\ x.action <= issued /\ Later(OwnAction(o), b)
  BY <1>1, <1>2, <1>6 DEF PointsOK, BrokerLater, OwnAction
<1>10. v \subseteq Ids /\ (\A i \in v : i <= n)
       /\ \A i \in x.controls : i \in v \/ now >= actions[i].expiresAt
  <2>1. \A i \in x.controls : i \in Ids /\ i <= n
    BY <1>1, <1>8 DEF Ids
  <2>2. \A i \in x.controls : actions[i].expiresAt \in Nat
    BY <1>1 DEF RunnerInv, Inv, ActionsOK, Action
  <2>. QED
    BY <1>6, <1>8, <2>1, <2>2
<1>11. LinkOK(x, b, issued') /\ SettledOK(x, b) /\ StopperOK(x, s, b)
  <2>. DEFINE a == OwnAction(o)
  <2>1. /\ LinkOK(x, a, issued) /\ SettledOK(x, a) /\ StopperOK(x, s, a) /\ Later(a, b)
        /\ x.controls \subseteq Ids
    BY <1>1, <1>9
  <2>. HIDE DEF a, b, x, s
  <2>. QED
    BY <1>8, <2>1, SettledLater
<1>12. n \in v
  OBVIOUS
<1>13. /\ y \in Operation /\ y.char = x.char /\ y.kind = x.kind /\ y.action = x.action
       /\ y.owned = x.owned /\ y.graceful = x.graceful /\ y.pc = x.pc
       /\ y.interrupted = x.interrupted
       /\ y.controls = v /\ y.status = x.status /\ y.abort = x.abort
  <2>. DEFINE z == [x EXCEPT !.controls = v]
  <2>1. z = y
    OBVIOUS
  <2>. HIDE DEF x, v
  <2>2. /\ z \in Operation /\ z.char = x.char /\ z.kind = x.kind /\ z.action = x.action
        /\ z.owned = x.owned /\ z.graceful = x.graceful /\ z.pc = x.pc
        /\ z.interrupted = x.interrupted
        /\ z.controls = v /\ z.status = x.status /\ z.abort = x.abort
    BY <1>1, <1>10 DEF Operation
  <2>. HIDE DEF z, y
  <2>. QED
    BY <2>1, <2>2
<1>14. b = actions'[y.action] /\ op'[o].action = y.action
  BY <1>7, <1>13
<1>. HIDE DEF x, y, b, s, v, n
<1>15. PointsOK(y)
  BY <1>1, <1>2, <1>4, <1>13 DEF PointsOK
<1>16. LinkOK(y, b, n) /\ SettledOK(y, b) /\ StopperOK(y, s, b)
  BY <1>6, <1>10, <1>11, <1>13 DEF LinkOK, SettledOK, StopperOK
<1>17. y.status # "none" /\ NoOperation.status = "none"
  BY <1>13 DEF Operation, NoOperation, Terminal
<1>18. OpOK(o)'
  BY <1>2, <1>6, <1>7, <1>13, <1>14, <1>15, <1>16, <1>17 DEF OpOK, OwnAction, s
<1>19. \A i \in op[o].controls : i \in op'[o].controls \/ now >= actions[i].expiresAt
  BY <1>7, <1>10, <1>13 DEF x
<1>20. stopper'[o] = s /\ stopper' = [stopper EXCEPT ![o] = stopper'[o]]
  BY <1>1, <1>2 DEF s
<1>21. issued + 1 \in op'[o].controls
  BY <1>7, <1>12, <1>13 DEF n
<1>22. op'[o].char = op[o].char /\ op'[o].status = op[o].status /\ op'[o] # NoOperation
  BY <1>7, <1>13, <1>17 DEF x
<1>. QED
  BY <1>1, <1>2, <1>6, <1>7, <1>18, <1>19, <1>20, <1>21, <1>22, OpStepKept DEF Ended

-----------------------------------------------------------------------------
(* Creation, the outside and the clock.                                     *)

\* The history has room for one more, or gives up one that is over.
LEMMA HistoryKept ==
    ASSUME RunnerInv, NEW o \in Ops, o \notin known,
           \/ Cardinality(known) < HistoryLimit /\ known' = known \cup {o}
           \/ \E p \in known : known' = (known \ {p}) \cup {o}
    PROVE  IsFiniteSet(known') /\ Cardinality(known') <= HistoryLimit
<1>1. IsFiniteSet(known) /\ Cardinality(known) <= HistoryLimit /\ HistoryLimit \in Nat
  BY RunnerConstants DEF RunnerInv, KnownOK
<1>2. Cardinality(known) \in Nat
  BY <1>1, FS_CardinalityType
<1>3. CASE Cardinality(known) < HistoryLimit /\ known' = known \cup {o}
  <2>1. IsFiniteSet(known \cup {o}) /\ Cardinality(known \cup {o}) = Cardinality(known) + 1
    BY <1>1, FS_AddElement
  <2>. QED
    BY <1>1, <1>2, <1>3, <2>1
<1>4. ASSUME NEW p \in known, known' = (known \ {p}) \cup {o}
      PROVE  IsFiniteSet(known') /\ Cardinality(known') <= HistoryLimit
  <2>. DEFINE rest == known \ {p}
  <2>1. IsFiniteSet(rest) /\ Cardinality(rest) = Cardinality(known) - 1
    BY <1>1, FS_RemoveElement
  <2>2. o \notin rest
    OBVIOUS
  <2>. HIDE DEF rest
  <2>3. IsFiniteSet(rest \cup {o}) /\ Cardinality(rest \cup {o}) = Cardinality(rest) + 1
    BY <2>1, <2>2, FS_AddElement
  <2>4. known' = rest \cup {o}
    BY <1>4 DEF rest
  <2>. QED
    BY <1>1, <1>2, <2>1, <2>3, <2>4
<1>. QED
  BY <1>3, <1>4

\* _create_operation
LEMMA CreateKept ==
    ASSUME RunnerInv, NEW o \in Ops, NEW c \in Characters, NEW k \in OperationKinds,
           NEW d \in Time, Create(o, c, k, d)
    PROVE  RunnerInv'
<1>. DEFINE y == [status |-> "requested", kind |-> k, char |-> c, gen |-> NoGeneration,
                  deadline |-> d, pc |-> "start", action |-> 0, owned |-> FALSE,
                  interrupted |-> FALSE, graceful |-> FALSE, controls |-> {}, abort |-> ""]
<1>1. /\ op[o].status = "none" /\ \A p \in known : op[p].char = c => Ended(p)
      /\ op' = [op EXCEPT ![o] = y] /\ UNCHANGED <<brokerVars, stopper, handoff>>
  BY DEF Create
<1>2. \/ Cardinality(known) < HistoryLimit /\ known' = known \cup {o}
      \/ \E p \in known : Ended(p) /\ known' = (known \ {p}) \cup {o}
  BY DEF Create
<1>3. o \notin Created /\ op[o] = NoOperation /\ stopper[o] = "idle"
  <2>1. o \notin Created
    BY <1>1, CreatedRecord
  <2>. QED
    BY <2>1, CreatedRecord DEF RunnerInv, OpOK
<1>4. Inv' /\ BrokerLater /\ SameIssued
  BY <1>1, StillLater DEF RunnerInv, brokerVars
<1>5. op'[o] = y /\ \A p \in Ops : p # o => op'[p] = op[p]
  BY <1>1 DEF RunnerInv
<1>6. /\ y \in Operation /\ y.status = "requested" /\ y.pc = "start" /\ y.action = 0
      /\ y.owned = FALSE /\ y.interrupted = FALSE /\ y.graceful = FALSE /\ y.controls = {}
      /\ y.char = c
  BY DEF Operation, WorkerPoints, Terminal
<1>. HIDE DEF y
<1>7. OpOK(o)'
  <2>1. y # NoOperation
    BY <1>6 DEF NoOperation
  <2>2. PointsOK(y)
    BY <1>6 DEF PointsOK, Before, InStep, Aborting, Terminal
  <2>3. \A a, n : LinkOK(y, a, n) /\ SettledOK(y, a) /\ StopperOK(y, "idle", a)
    BY <1>6 DEF LinkOK, SettledOK, StopperOK
  <2>. QED
    BY <1>1, <1>3, <1>5, <1>6, <2>1, <2>2, <2>3 DEF OpOK
<1>8. \A p \in Ops : OpOK(p)'
  BY <1>1, <1>4, <1>5, <1>7, OpKept
<1>9. Created' = Created \cup {o}
  BY <1>5, <1>6 DEF Created
<1>10. \A p \in Created : p \in Ops /\ p # o /\ op'[p] = op[p]
  BY <1>3, <1>5 DEF Created
<1>11. ControlsOK'
  <2>1. ASSUME NEW i \in Ids, i <= issued, actions[i].kind = "control",
               IsPending(actions[i]), ~(now >= actions[i].expiresAt)
        PROVE  \E p \in Created' : i \in op'[p].controls
    <3>1. PICK p \in Created : i \in op[p].controls
      BY <2>1 DEF RunnerInv, ControlsOK
    <3>. QED
      BY <1>9, <1>10, <3>1
  <2>2. issued' = issued /\ actions' = actions /\ now' = now
    BY <1>1 DEF brokerVars, vars
  <2>. QED
    BY <2>1, <2>2 DEF ControlsOK
<1>12. KnownOK'
  <2>1. known \subseteq Created /\ \A p \in Created : ~Ended(p) => p \in known /\ op[p].char # c
    BY <1>1 DEF RunnerInv, KnownOK
  <2>2. CASE o \notin known
    <3>1. known' \subseteq Created'
      BY <1>2, <1>9, <2>1
    <3>2. IsFiniteSet(known') /\ Cardinality(known') <= HistoryLimit
      BY <1>2, <2>2, HistoryKept
    <3>3. \A p \in Created : ~Ended(p) => p \in known'
      BY <1>2, <2>1
    <3>4. o \in known'
      BY <1>2
    <3>5. \A p \in Created' : ~Ended(p)' => p \in known'
      BY <1>9, <1>10, <3>3, <3>4 DEF Ended
    <3>6. ASSUME NEW p \in Created', NEW q \in Created', ~Ended(p)', ~Ended(q)',
                 op'[p].char = op'[q].char
          PROVE  p = q
      <4>1. CASE p \in Created /\ q \in Created
        BY <1>10, <3>6, <4>1 DEF RunnerInv, KnownOK, Ended
      <4>2. CASE p = o /\ q \in Created
        BY <1>5, <1>6, <1>10, <2>1, <3>6, <4>2 DEF Ended
      <4>3. CASE p \in Created /\ q = o
        BY <1>5, <1>6, <1>10, <2>1, <3>6, <4>3 DEF Ended
      <4>. QED
        BY <1>9, <4>1, <4>2, <4>3
    <3>. QED
      BY <3>1, <3>2, <3>5, <3>6 DEF KnownOK
  <2>3. o \notin known
    BY <1>3 DEF RunnerInv, KnownOK
  <2>. QED
    BY <2>2, <2>3
<1>13. op' = [p \in Ops |-> op'[p]]
  BY <1>1 DEF RunnerInv
<1>. QED
  BY <1>1, <1>4, <1>8, <1>11, <1>12, <1>13 DEF RunnerInv

\* What the bridge and the player do, and the clock.
LEMMA OutsideKept ==
    ASSUME RunnerInv, Outside \/ Clock
    PROVE  RunnerInv'
<1>1. Inv' /\ BrokerLater /\ SameIssued
  BY OutsideLater, ClockLater DEF RunnerInv
<1>2. UNCHANGED <<op, stopper, known, handoff>>
  BY DEF Outside, Clock
<1>3. issued' # issued + 1
  BY <1>1 DEF SameIssued, BrokerLater
<1>. QED
  BY <1>1, <1>2, <1>3, BrokerStepKept DEF RunnerInv

-----------------------------------------------------------------------------
(* Theorems.                                                                *)

\* There is no operation at first.
LEMMA RunnerInitInv == RunnerInit => RunnerInv
<1>. SUFFICES ASSUME RunnerInit PROVE RunnerInv
  OBVIOUS
<1>1. Inv
  BY InitInv DEF RunnerInit
<1>2. /\ op = [o \in Ops |-> op[o]]
      /\ stopper \in [Ops -> {"idle", "marked", "calling", "returned"}]
      /\ handoff \in [Characters -> {0} \cup Ops]
  BY DEF RunnerInit
<1>3. \A o \in Ops : OpOK(o)
  BY DEF RunnerInit, OpOK
<1>4. ControlsOK
  <2>1. \A i \in Ids : ~(i <= issued)
    BY DEF RunnerInit, Init, Ids
  <2>. QED
    BY <2>1 DEF ControlsOK
<1>5. KnownOK
  <2>1. Created = {}
    BY DEF RunnerInit, Created, NoOperation
  <2>2. IsFiniteSet({}) /\ Cardinality({}) = 0
    BY FS_EmptySet
  <2>3. 0 <= HistoryLimit
    BY RunnerConstants
  <2>. QED
    BY <2>1, <2>2, <2>3 DEF KnownOK, RunnerInit
<1>. QED
  BY <1>1, <1>2, <1>3, <1>4, <1>5 DEF RunnerInv

\* Every step of a worker, a client, the bridge and the clock keeps it.
LEMMA RunnerNextInv == RunnerInv /\ [RunnerNext]_runnerVars => RunnerInv'
<1>. SUFFICES ASSUME RunnerInv, [RunnerNext]_runnerVars PROVE RunnerInv'
  OBVIOUS
<1>1. CASE UNCHANGED runnerVars
  <2>1. UNCHANGED <<op, stopper, known, handoff>> /\ UNCHANGED vars
    BY <1>1 DEF runnerVars, brokerVars
  <2>2. Inv' /\ BrokerLater /\ SameIssued
    BY <2>1, StillLater DEF RunnerInv
  <2>3. issued' # issued + 1
    BY <2>2 DEF SameIssued, BrokerLater
  <2>. QED
    BY <2>1, <2>2, <2>3, BrokerStepKept DEF RunnerInv
<1>2. ASSUME NEW o \in Ops, NEW c \in Characters, NEW k \in OperationKinds, NEW d \in Time,
             Create(o, c, k, d)
      PROVE  RunnerInv'
  BY <1>2, CreateKept
<1>3. ASSUME NEW o \in Created, Worker(o)
      PROVE  RunnerInv'
  <2>1. CASE Start(o) \/ Admit(o) \/ Run(o) \/ BeginStep(o) \/ SubmitStep(o) \/ SubmitRefused(o)
    BY <2>1, StartKept, RunKept, BeginStepKept, SubmitStepKept
  <2>2. CASE Associate(o) \/ Recheck(o) \/ Look(o) \/ Read(o) \/ Finally(o) \/ Drain(o)
    BY <2>2, AssociateKept, RecheckKept, ReadKept, FinallyKept, DrainKept
  <2>3. CASE \/ Verified(o) \/ NotVerified(o) \/ Finish(o) \/ StopTest(o) \/ End(o)
             \/ RevokeAtEnd(o)
    BY <2>3, VerifyKept, FinishKept, StopTestKept, EndKept, RevokeAtEndKept
  <2>. QED
    BY <1>3, <2>1, <2>2, <2>3 DEF Worker
<1>4. ASSUME NEW o \in Created, Client(o)
      PROVE  RunnerInv'
  BY <1>4, InterruptNothingKept, InterruptGracefullyKept, InterruptMarksKept,
     InterruptLooksKept, InterruptCallsKept, ControlKept DEF Client
<1>5. CASE Outside \/ Clock
  BY <1>5, OutsideKept
<1>. QED
  BY <1>1, <1>2, <1>3, <1>4, <1>5 DEF RunnerNext

\* The inductive invariant holds throughout.
THEOREM RunnerInvariance == RunnerSpec => []RunnerInv
<1>. QED
  BY RunnerInitInv, RunnerNextInv, PTL DEF RunnerSpec

\* An operation that ended has withdrawn or stopped all it owned, whichever of
\* the worker, a client and the bridge came last (_finish, interrupt).
THEOREM EndsOwnNothing == RunnerSpec => []EndOwnsNothing
<1>1. RunnerInv => EndOwnsNothing
  <2>. SUFFICES ASSUME RunnerInv PROVE EndOwnsNothing
    OBVIOUS
  <2>1. ASSUME NEW o \in Created, op[o].pc = "done", op[o].kind # "plain", op[o].action # 0
        PROVE  /\ ~IsPending(OwnAction(o))
               /\ IsController(o) /\ op[o].status # "succeeded" /\ IsLaunched(OwnAction(o)) =>
                      OwnAction(o).stop
               /\ op[o].kind = "travel" /\ OwnAction(o).status = "dispatched" => OwnAction(o).stop
    <3>. DEFINE x == op[o]
                a == OwnAction(o)
    <3>1. x.kind \in WithControls \cup WithFinally \cup {"test"} /\ SettledOK(x, a)
      BY <2>1, WorkerRecord, CreatedRecord, RunnerConstants DEF WithControls, WithFinally
    <3>2. IsController(o) => x.kind \in WithControls \cup {"test"}
      BY DEF IsController, HasControls, WithControls
    <3>3. x.pc = "done" /\ x.action # 0
      BY <2>1
    <3>. HIDE DEF x, a
    <3>4. /\ ~IsPending(a)
          /\ x.kind \in WithControls \cup {"test"} /\ x.status # "succeeded" /\ IsLaunched(a) =>
               a.stop
          /\ x.kind = "travel" /\ a.status = "dispatched" => a.stop
      BY <3>1, <3>3 DEF SettledOK, AfterFinally, Stopped, WithFinally
    <3>. QED
      BY <3>2, <3>4 DEF x, a
  <2>2. ASSUME NEW i \in Issued, actions[i].kind = "control", IsPending(Expire(actions[i]))
        PROVE  \E o \in Created : op[o].pc # "done" /\ i \in op[o].controls
    <3>1. i \in Ids /\ i <= issued /\ actions[i] \in Action
      BY DEF Issued, RunnerInv, Inv, ActionsOK
    <3>2. IsPending(actions[i]) /\ ~(now >= actions[i].expiresAt)
      <4>1. ~IsPending([actions[i] EXCEPT !.status = "expired"])
        BY <3>1 DEF Action, IsPending, PendingStatuses
      <4>. QED
        BY <2>2, <4>1 DEF Expire
    <3>3. PICK o \in Created : i \in op[o].controls
      BY <2>2, <3>1, <3>2 DEF RunnerInv, ControlsOK
    <3>4. op[o].pc # "done"
      BY <3>3, WorkerRecord DEF PointsOK
    <3>. QED
      BY <3>3, <3>4
  <2>. QED
    BY <2>1, <2>2 DEF EndOwnsNothing
<1>. QED
  BY <1>1, RunnerInvariance, PTL

\* No stop that was admitted before the end is answered with a success: the
\* last look of Finish and the publication are one step (_finish_success).
THEOREM StoppedIsNoSuccess == RunnerSpec => []StoppedNeverSucceeds
<1>1. RunnerInv => StoppedNeverSucceeds
  BY WorkerRecord DEF StoppedNeverSucceeds, PointsOK
<1>. QED
  BY <1>1, RunnerInvariance, PTL

\* A returned interrupt has reached the action, or the worker is about to.
THEOREM StopsReach == RunnerSpec => []StopReachesAction
<1>1. RunnerInv => StopReachesAction
  <2>. SUFFICES ASSUME RunnerInv, NEW o \in Created, op[o].interrupted, stopper[o] = "returned",
                       op[o].kind # "plain", op[o].action # 0,
                       op[o].pc \notin {"associate", "recheck", "finally"}
                PROVE  ~IsPending(OwnAction(o))
    BY DEF StopReachesAction
  <2>1. StopperOK(op[o], stopper[o], OwnAction(o))
    BY CreatedRecord DEF Created
  <2>. QED
    BY <2>1 DEF StopperOK
<1>. QED
  BY <1>1, RunnerInvariance, PTL

\* The history never forgets an operation that goes on, and a character has
\* one such operation at most, although what is over is evicted
\* (_create_operation).
THEOREM OneOperationAtATime ==
    RunnerSpec => [](/\ \A o \in Created : ~Ended(o) => o \in known
                     /\ \A o \in Created, p \in Created :
                          ~Ended(o) /\ ~Ended(p) /\ op[o].char = op[p].char => o = p
                     /\ Cardinality(known) <= HistoryLimit)
<1>1. RunnerInv => /\ \A o \in Created : ~Ended(o) => o \in known
                   /\ \A o \in Created, p \in Created :
                        ~Ended(o) /\ ~Ended(p) /\ op[o].char = op[p].char => o = p
                   /\ Cardinality(known) <= HistoryLimit
  BY DEF RunnerInv, KnownOK
<1>. QED
  BY <1>1, RunnerInvariance, PTL

\* The operations have their types.
THEOREM RunnerTypes == RunnerSpec => []RunnerTypeOK
<1>1. RunnerInv => RunnerTypeOK
  <2>. SUFFICES ASSUME RunnerInv PROVE RunnerTypeOK
    OBVIOUS
  <2>1. TypeOK
    BY DEF RunnerInv, Inv, ScalarsOK, ActionsOK, TypeOK
  <2>2. \A o \in Ops : op[o] = NoOperation \/ op[o] \in Operation
    BY DEF RunnerInv, OpOK
  <2>3. known \subseteq Ops /\ Cardinality(known) <= HistoryLimit
    BY DEF RunnerInv, KnownOK, Created
  <2>. QED
    BY <2>1, <2>2, <2>3 DEF RunnerTypeOK, RunnerInv
<1>. QED
  BY <1>1, RunnerInvariance, PTL
=============================================================================
