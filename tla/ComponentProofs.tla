---------------------------- MODULE ComponentProofs ----------------------------
(***************************************************************************)
(* Proofs about the components that work alone, each with an inductive     *)
(* invariant of its own and for every value of its constants.  Components  *)
(* lays them over the same registers, one of which moves: a theorem about  *)
(* one of them is a theorem of ComponentsSpec, under the condition that it *)
(* is the one (DecisionHolds, MirrorHolds, ...).                           *)
(***************************************************************************)
EXTENDS Components, FiniteSetTheorems, WellFoundedInduction, TLAPS

-----------------------------------------------------------------------------
(***************************************************************************)
(* The inductive invariant of ReconAdmission.  A thread in the critical    *)
(* part of cancel or of a late registration holds _cancel_lock; the owner  *)
(* is known exactly when there is an operation; and an operation that is   *)
(* still pending has somebody who will revoke it.  The admission lock is   *)
(* not needed for safety: it is the second check of the control that       *)
(* closes the gap, and the lock makes that check and the publication of    *)
(* the owner one step.                                                     *)
(***************************************************************************)
PlacesOK ==
    /\ pc \in [All -> ControlPoints]
    /\ operation \in {"none", "pending", "ended", "interrupted"}
    /\ owned \in BOOLEAN /\ revoked \in BOOLEAN
    /\ callback \in BOOLEAN /\ cancelled \in BOOLEAN
    /\ pc[Worker] \notin {"idle", "returned"}
    /\ \A t \in Cancellers :
           pc[t] \in {"idle", "cancel", "revoke", "revoking", "release", "returned"}

Locked == {"revoke", "revoking", "release", "late register"}

LockHeld == \A t \in All : pc[t] \in Locked => cancelLock = t

OwnerKnown ==
    /\ owned <=> operation # "none"
    /\ revoked => owned /\ operation # "pending"
    /\ pc[Worker] \in {"check", "register", "late register", "admit", "start"} => ~owned
    /\ pc[Worker] \in {"unregister", "end"} => operation # "pending"

CallbackKnown ==
    /\ pc[Worker] \in {"check", "register", "late register", "end"} => ~callback
    /\ ~cancelled /\ (operation = "pending" \/ pc[Worker] \in {"admit", "start"}) => callback

CancelKnown ==
    /\ \A t \in All : pc[t] \in {"revoke", "revoking", "late register"} => cancelled
    /\ \A t \in All : pc[t] \in {"release", "returned"} => cancelled /\ operation # "pending"
    /\ cancelled /\ operation = "pending" => \E t \in All : pc[t] \in {"revoke", "revoking"}

ReconInv == PlacesOK /\ LockHeld /\ OwnerKnown /\ CallbackKnown /\ CancelKnown

LEMMA ReconInitially == Init => ReconInv
BY Threads DEF Init, ReconInv, PlacesOK, LockHeld, OwnerKnown, CallbackKnown, CancelKnown,
   Locked, All, ControlPoints

\* A call of cancel takes its place in the queue of the lock.
LEMMA CallCancelKept ==
    ASSUME NEW t \in Cancellers, ReconInv, CallCancel(t)
    PROVE  ReconInv'
BY Threads DEF CallCancel, Goto, locks, ReconInv, PlacesOK, LockHeld, OwnerKnown, CallbackKnown,
   CancelKnown, Locked, All, ControlPoints

LEMMA EnterCancelKept ==
    ASSUME NEW t \in All, ReconInv, EnterCancel(t)
    PROVE  ReconInv'
BY Threads DEF EnterCancel, Goto, locks, ReconInv, PlacesOK, LockHeld, OwnerKnown, CallbackKnown,
   CancelKnown, Locked, All, ControlPoints

LEMMA EnterRevokeKept ==
    ASSUME NEW t \in All, ReconInv, EnterRevoke(t)
    PROVE  ReconInv'
BY Threads DEF EnterRevoke, Goto, locks, ReconInv, PlacesOK, LockHeld, OwnerKnown, CallbackKnown,
   CancelKnown, Locked, All, ControlPoints

LEMMA LeaveRevokeKept ==
    ASSUME NEW t \in All, ReconInv, LeaveRevoke(t)
    PROVE  ReconInv'
BY Threads DEF LeaveRevoke, RevokeOwned, Interrupted, Goto, locks, ReconInv, PlacesOK, LockHeld, OwnerKnown, CallbackKnown,
   CancelKnown, Locked, All, ControlPoints

LEMMA LeaveCancelKept ==
    ASSUME NEW t \in All, ReconInv, LeaveCancel(t)
    PROVE  ReconInv'
BY Threads DEF LeaveCancel, Goto, locks, ReconInv, PlacesOK, LockHeld, OwnerKnown, CallbackKnown,
   CancelKnown, Locked, All, ControlPoints

LEMMA ReconKept ==
    ASSUME ReconInv, Recon
    PROVE  ReconInv'
<1> USE Threads DEF Goto, locks, ReconInv, PlacesOK, LockHeld, OwnerKnown, CallbackKnown,
   CancelKnown, Locked, All, ControlPoints
<1>1. CASE Check
  BY <1>1 DEF Check, Remaining
<1>2. CASE Register
  BY <1>2 DEF Register
<1>3. CASE RegisteredLate
  BY <1>3 DEF RegisteredLate, RevokeOwned, Interrupted
<1>4. CASE EnterAdmission
  BY <1>4 DEF EnterAdmission
<1>5. CASE Start
  <2>1. CASE UNCHANGED <<owned, operation>>
    BY <1>5, <2>1 DEF Start
  <2>2. CASE ~cancelled /\ operation' = "pending" /\ owned' = TRUE
    BY <1>5, <2>2 DEF Start
  <2> QED  BY <1>5, <2>1, <2>2 DEF Start
<1>6. CASE LeaveAdmission
  BY <1>6 DEF LeaveAdmission
<1>7. CASE Watch
  BY <1>7 DEF Watch, Remaining
<1>8. CASE WatchEnds
  BY <1>8 DEF WatchEnds
<1>9. CASE Cleanup
  BY <1>9 DEF Cleanup, RevokeOwned, Interrupted
<1>10. CASE Unregister
  BY <1>10 DEF Unregister
<1> QED  BY <1>1, <1>2, <1>3, <1>4, <1>5, <1>6, <1>7, <1>8, <1>9, <1>10 DEF Recon

LEMMA ReconStepKept ==
    ASSUME ReconInv, [Next]_vars
    PROVE  ReconInv'
<1>1. CASE \E t \in Cancellers : CallCancel(t)
  BY <1>1, CallCancelKept
<1>2. CASE \E t \in All : Cancel(t)
  BY <1>2, EnterCancelKept, EnterRevokeKept, LeaveRevokeKept, LeaveCancelKept DEF Cancel
<1>3. CASE Recon
  BY <1>3, ReconKept
<1>4. CASE OperationEnds
  <2>. /\ UNCHANGED <<pc, cancelLock, cancelled, callback, owned, revoked>>
       /\ operation = "pending" /\ operation' = "ended"
    BY <1>4 DEF OperationEnds, locks
  <2>. QED  BY DEF ReconInv, PlacesOK, LockHeld, OwnerKnown, CallbackKnown, CancelKnown, All, Locked, ControlPoints
<1>5. CASE DeadlinePasses \/ UNCHANGED vars
  <2>. UNCHANGED <<pc, cancelLock, cancelled, callback, owned, revoked, operation>>
    BY <1>5 DEF DeadlinePasses, vars, locks
  <2>. QED  BY DEF ReconInv, PlacesOK, LockHeld, OwnerKnown, CallbackKnown, CancelKnown, All, Locked, ControlPoints
<1> QED  BY <1>1, <1>2, <1>3, <1>4, <1>5 DEF Next

THEOREM ReconInvariance == Spec => []ReconInv
BY ReconInitially, ReconStepKept, PTL DEF Spec

(***************************************************************************)
(* Cancellation is synchronous, whatever the number of cancelling threads: *)
(* when any call of QuestionControl.cancel has returned, no operation of   *)
(* the question goes on unmarked, and a worker that ends leaves neither an *)
(* operation nor a callback behind.                                        *)
(***************************************************************************)
THEOREM CancellationIsSynchronous == Spec => []NothingOutlivesQuestion
<1>1. ReconInv => NothingOutlivesQuestion
  BY DEF ReconInv, PlacesOK, OwnerKnown, CallbackKnown, CancelKnown, NothingOutlivesQuestion, All
<1> QED  BY <1>1, ReconInvariance, PTL

(***************************************************************************)
(* Decisions.  Sequence numbers and versions only grow, so a fence that is *)
(* current after the inference was current when the provider answered.     *)
(***************************************************************************)
Roles == {"player", "supervisor"}

Invocations ==
    [role : Roles \cup {"none"}, fence : Nat \X Nat, at : Nat, expires : Nat, state : Nat,
     usable : BOOLEAN, replay : BOOLEAN]

DecisionTypes(now, seq, sampledAt, actual, observations, record, invocation, at) ==
    /\ now \in Nat /\ seq \in Nat /\ sampledAt \in Nat /\ actual \in 1..4
    /\ \A o \in observations : o.seq \in Nat /\ o.at \in Nat /\ o.state \in 1..actual
    /\ record.version \in Nat /\ record.seq \in Nat /\ record.at \in Nat
    /\ record = Decision!NoRecord \/ record.state \in 1..actual
    /\ record.state \in 0..actual
    /\ invocation \in Invocations
    /\ at \in {"idle", "before", "asked", "expiry", "fence", "age", "audit", "done"}
    /\ at # "idle" => invocation.role \in Roles
    /\ at # "idle" /\ invocation.role = "supervisor" => invocation.state \in 1..4

\* The state the invocation was made for is the current one, or over.
StillCurrent(seq, record, invocation) ==
    invocation.replay \/ invocation.fence =
        IF invocation.role = "player" THEN <<seq, 0>> ELSE <<record.seq, record.version>>

MovedOn(seq, record, invocation) ==
    IF invocation.role = "player" THEN invocation.fence[1] < seq ELSE invocation.fence[2] < record.version

NotYetPassed(seq, actual, record, invocation) ==
    /\ MovedOn(seq, record, invocation) \/ StillCurrent(seq, record, invocation)
    /\ invocation.state <= actual

\* What the checks before the inference have established for the rest.
Admitted(invocation) ==
    /\ invocation.usable
    /\ invocation.role = "supervisor" => invocation.state = 2

InTime(invocation, respondedAt) ==
    /\ respondedAt <= invocation.expires
    /\ invocation.role = "supervisor" => respondedAt <= invocation.at + Lifetime

Fresh(invocation, respondedAt) ==
    ~invocation.replay /\ invocation.role = "player" => respondedAt - invocation.at <= DecisionTTL

\* What is known at each step of _evaluate.
Established(now, seq, record, invocation, at, held, respondedAt, status, audited) ==
    /\ at \in {"idle", "before", "asked", "expiry", "fence", "age"} => status = "none"
    /\ at \in {"asked", "expiry", "fence", "age"} => Admitted(invocation)
    /\ at \in {"expiry", "fence", "age"} => respondedAt \in Nat /\ respondedAt <= now
    /\ at \in {"expiry", "fence"} => held \/ (~invocation.replay /\ MovedOn(seq, record, invocation))
    /\ at \in {"fence", "age"} => InTime(invocation, respondedAt)
    /\ at = "age" => held
    /\ at \in {"audit", "done"} /\ status = "recommended" =>
         Admitted(invocation) /\ held /\ InTime(invocation, respondedAt) /\ Fresh(invocation, respondedAt)
    /\ at = "done" /\ status = "recommended" => audited = "recommended"

DecisionInv ==
    /\ DecisionTypes(r1, r2, r3, r4, r5, r6, r7, r8)
    /\ r8 # "idle" => NotYetPassed(r2, r4, r6, r7)
    /\ Established(r1, r2, r6, r7, r8, r10, r11, r12, r13)

LEMMA DecisionInitially == Decision!Init => DecisionInv
BY DEF Decision!Init, Decision!NoRecord, Decision!NoInvocation, DecisionInv, DecisionTypes, Established,
   Invocations, Roles

DecisionWorld == <<r8, r9, r10, r11, r12, r13, r7>>

\* While the world moves on, an evaluation stays where it is.
LEMMA WorldMovesOn ==
    ASSUME DecisionInv, UNCHANGED DecisionWorld,
           DecisionTypes(r1, r2, r3, r4, r5, r6, r7, r8)',
           r1' >= r1, r2' >= r2, r4' >= r4, r6'.version >= r6.version,
           r6'.version = r6.version => r6' = r6
    PROVE  DecisionInv'
<1>1. r7 \in Invocations /\ r1 \in Nat /\ r1' \in Nat /\ r2 \in Nat /\ r2' \in Nat
      /\ r4 \in Nat /\ r4' \in Nat /\ r6.version \in Nat /\ r6'.version \in Nat
  BY DEF DecisionInv, DecisionTypes
<1>2. r7.fence[1] \in Nat /\ r7.fence[2] \in Nat /\ r7.state \in Nat /\ r7.fence = <<r7.fence[1], r7.fence[2]>>
  BY <1>1 DEF Invocations
<1>3. MovedOn(r2, r6, r7) => MovedOn(r2', r6', r7)
  BY <1>1, <1>2 DEF MovedOn
<1>4. StillCurrent(r2, r6, r7) => StillCurrent(r2', r6', r7) \/ MovedOn(r2', r6', r7)
  BY <1>1, <1>2 DEF MovedOn, StillCurrent
<1>5. r8 # "idle" => NotYetPassed(r2', r4', r6', r7)
  BY <1>1, <1>2, <1>3, <1>4 DEF DecisionInv, NotYetPassed
<1>6. Established(r1', r2', r6', r7, r8, r10, r11, r12, r13)
  BY <1>1, <1>3 DEF DecisionInv, Established
<1> QED  BY <1>5, <1>6 DEF DecisionInv, DecisionWorld

LEMMA DecisionWorldKept ==
    ASSUME DecisionInv,
           \/ Decision!Observe \/ Decision!Tick \/ Decision!StateMoves
           \/ \E o \in r5 : Decision!Deliver(o)
    PROVE  DecisionInv'
<1> USE DEF DecisionWorld
<1>0. DecisionTypes(r1, r2, r3, r4, r5, r6, r7, r8)
  BY DEF DecisionInv
<1>1. CASE Decision!Observe
  <2>1. DecisionTypes(r1, r2, r3, r4, r5, r6, r7, r8)'
    BY <1>0, <1>1 DEF Decision!Observe, Decision!answer, DecisionTypes
  <2> QED  BY <1>0, <1>1, <2>1, WorldMovesOn DEF Decision!Observe, Decision!answer, DecisionTypes
<1>2. CASE Decision!Tick
  <2>1. DecisionTypes(r1, r2, r3, r4, r5, r6, r7, r8)'
    BY <1>0, <1>2 DEF Decision!Tick, Decision!answer, DecisionTypes
  <2> QED  BY <1>0, <1>2, <2>1, WorldMovesOn DEF Decision!Tick, Decision!answer, DecisionTypes
<1>3. CASE Decision!StateMoves
  <2>1. r4' \in 1..4 /\ r4' >= r4
    BY <1>0, <1>3 DEF Decision!StateMoves, Decision!Progress, DecisionTypes
  <2>2. DecisionTypes(r1, r2, r3, r4, r5, r6, r7, r8)'
    BY <1>0, <1>3, <2>1 DEF Decision!StateMoves, Decision!answer, DecisionTypes
  <2> QED  BY <1>0, <1>3, <2>1, <2>2, WorldMovesOn DEF Decision!StateMoves, Decision!answer, DecisionTypes
<1>4. ASSUME NEW o \in r5, Decision!Deliver(o)
      PROVE  DecisionInv'
  <2>1. DecisionTypes(r1, r2, r3, r4, r5, r6, r7, r8)'
    BY <1>0, <1>4 DEF Decision!Deliver, Decision!answer, DecisionTypes
  <2> QED  BY <1>0, <1>4, <2>1, WorldMovesOn DEF Decision!Deliver, Decision!answer, DecisionTypes
<1> QED  BY <1>1, <1>2, <1>3, <1>4

LEMMA InvokeKept ==
    ASSUME DecisionInv, NEW role \in Roles, Decision!Invoke(role)
    PROVE  DecisionInv'
<1>0. DecisionTypes(r1, r2, r3, r4, r5, r6, r7, r8)
  BY DEF DecisionInv
<1>1. PICK usable \in BOOLEAN, replay \in BOOLEAN :
        r7' = [role |-> role, fence |-> Decision!CurrentFence(role),
               at |-> IF role = "player" THEN r3 ELSE r6.at,
               expires |-> r1 + DecisionTTL, state |-> r6.state,
               usable |-> usable, replay |-> replay]
  BY DEF Decision!Invoke
<1>2. /\ r8 = "idle" /\ r8' = "before" /\ r12' = r12 /\ r13' = r13
      /\ r1' = r1 /\ r2' = r2 /\ r3' = r3 /\ r4' = r4 /\ r5' = r5 /\ r6' = r6
      /\ role = "supervisor" => r6 # Decision!NoRecord
  BY DEF Decision!Invoke, Decision!world, Decision!answer
<1>3. Decision!CurrentFence(role) \in Nat \X Nat
  BY <1>0 DEF DecisionTypes, Decision!CurrentFence, Roles
<1>4. r7' \in Invocations
  BY <1>0, <1>1, <1>3, ComponentConstants DEF DecisionTypes, Invocations, Decision!DecisionBounds
<1>5. r7'.role = role /\ r7'.fence = Decision!CurrentFence(role) /\ r7'.state = r6.state
  BY <1>1
<1>6. DecisionTypes(r1, r2, r3, r4, r5, r6, r7, r8)'
  BY <1>0, <1>2, <1>4, <1>5 DEF DecisionTypes, Roles
<1>7. StillCurrent(r2, r6, r7)'
  BY <1>2, <1>5 DEF StillCurrent, Decision!CurrentFence, Roles
<1>8. NotYetPassed(r2, r4, r6, r7)'
  BY <1>0, <1>2, <1>5, <1>7 DEF NotYetPassed, DecisionTypes
<1> QED  BY <1>2, <1>6, <1>8 DEF DecisionInv, Established

\* The steps of _evaluate leave the world and the invocation alone.
LEMMA EvaluateKept ==
    ASSUME DecisionInv, Decision!Evaluate
    PROVE  DecisionInv'
<1>0. DecisionTypes(r1, r2, r3, r4, r5, r6, r7, r8)
  BY DEF DecisionInv
<1>1. /\ r1' = r1 /\ r2' = r2 /\ r3' = r3 /\ r4' = r4 /\ r5' = r5 /\ r6' = r6 /\ r7' = r7
      /\ r8 # "idle" /\ r8' \in {"asked", "expiry", "fence", "age", "audit", "done"}
  BY DEF Decision!Evaluate, Decision!BeforeInference, Decision!Responds, Decision!ExpiryAfter,
     Decision!FenceAfter, Decision!AgeAfter, Decision!Audit, Decision!world, Decision!Finish
<1>2. /\ DecisionTypes(r1, r2, r3, r4, r5, r6, r7, r8)'
      /\ r8' # "idle" => NotYetPassed(r2, r4, r6, r7)'
  BY <1>0, <1>1 DEF DecisionTypes, DecisionInv, NotYetPassed, MovedOn, StillCurrent
<1>3. SUFFICES Established(r1, r2, r6, r7, r8, r10, r11, r12, r13)'
  BY <1>2 DEF DecisionInv
<1>4. /\ r1 \in Nat /\ r7.role \in Roles /\ r7.expires \in Nat /\ r7.at \in Nat
      /\ r7.fence \in Nat \X Nat /\ r2 \in Nat /\ r6.version \in Nat
      /\ r7.role = "supervisor" => r7.state \in 1..4
  BY <1>0, <1>1 DEF DecisionTypes, Invocations
<1>5. /\ MovedOn(r2, r6, r7) \/ Decision!Fenced
      /\ r7.replay => Decision!Fenced
  BY <1>1, <1>4 DEF DecisionInv, NotYetPassed, StillCurrent, Decision!Fenced, Decision!CurrentFence, Roles
<1>6. MovedOn(r2, r6, r7) => r7.replay \/ ~Decision!Fenced
  BY <1>4 DEF MovedOn, Decision!Fenced, Decision!CurrentFence, Roles
<1>7. MovedOn(r2, r6, r7)' = MovedOn(r2, r6, r7)
  BY <1>1 DEF MovedOn
<1>8. Established(r1, r2, r6, r7, r8, r10, r11, r12, r13)
  BY DEF DecisionInv
<1>9. CASE Decision!BeforeInference
  BY <1>1, <1>4, <1>8, <1>9 DEF Decision!BeforeInference, Decision!Finish, Decision!answer, Established, Admitted,
     Decision!NotHeld, Decision!Progress
<1>10. CASE Decision!Responds
  BY <1>1, <1>4, <1>5, <1>7, <1>8, <1>10 DEF Decision!Responds, Decision!Finish, Established, Admitted
<1>11. CASE Decision!ExpiryAfter
  BY <1>1, <1>4, <1>7, <1>8, <1>11, ComponentConstants DEF Decision!ExpiryAfter, Decision!Finish, Decision!answer,
     Decision!IncidentExpired, Decision!DecisionBounds, Established, Admitted, InTime
<1>12. CASE Decision!FenceAfter
  BY <1>1, <1>4, <1>6, <1>7, <1>8, <1>12 DEF Decision!FenceAfter, Decision!Finish, Decision!answer,
     Established, Admitted, InTime
<1>13. CASE Decision!AgeAfter
  BY <1>1, <1>4, <1>8, <1>13, ComponentConstants DEF Decision!AgeAfter, Decision!Finish, Decision!answer, Decision!Aged,
     Decision!DecisionBounds, Established, Admitted, InTime, Fresh
<1>14. CASE Decision!Audit
  BY <1>1, <1>8, <1>14 DEF Decision!Audit, Decision!answer, Established, Admitted, InTime, Fresh
<1> QED  BY <1>9, <1>10, <1>11, <1>12, <1>13, <1>14 DEF Decision!Evaluate

LEMMA AgainKept ==
    ASSUME DecisionInv, Decision!Again
    PROVE  DecisionInv'
BY DEF Decision!Again, Decision!world, Decision!NoInvocation, DecisionInv, DecisionTypes, Established,
   Invocations, Roles

LEMMA DecisionStepKept ==
    ASSUME DecisionInv, Decision!Next
    PROVE  DecisionInv'
BY DecisionWorldKept, InvokeKept, EvaluateKept, AgainKept DEF Decision!Next, Roles

DecisionHolds == component = "decision" => DecisionInv

THEOREM DecisionInvariance == ComponentsSpec => []DecisionHolds
<1>1. ComponentsInit => DecisionHolds
  BY DecisionInitially DEF ComponentsInit, DecisionHolds
<1>2. ASSUME DecisionHolds, [ComponentsNext]_all
      PROVE  DecisionHolds'
  <2>1. CASE ComponentsNext
    BY <1>2, <2>1, DecisionStepKept DEF ComponentsNext, DecisionHolds
  <2>2. CASE UNCHANGED all
    BY <1>2, <2>2 DEF all, registers, DecisionHolds, DecisionInv, DecisionTypes, NotYetPassed, MovedOn,
       StillCurrent, Established
  <2> QED  BY <1>2, <2>1, <2>2
<1> QED  BY <1>1, <1>2, PTL DEF ComponentsSpec

(***************************************************************************)
(* DecisionToolbox._evaluate, for every TTL and every lifetime of an       *)
(* incident: a recommendation that is returned was audited, comes from a   *)
(* usable invocation, and its fence, both expiries and the age of what it  *)
(* was asked about still held when the provider answered, however the      *)
(* state and the incident moved on.                                        *)
(***************************************************************************)
THEOREM RecommendationsAreFenced == ComponentsSpec => []DecisionIsFenced
<1>1. DecisionHolds => DecisionIsFenced
  BY DEF DecisionHolds, DecisionInv, DecisionTypes, NotYetPassed, Established, Admitted, InTime, Fresh, DecisionIsFenced,
     Decision!DecisionIsFenced, Decision!Progress
<1> QED  BY <1>1, DecisionInvariance, PTL

(***************************************************************************)
(* WikiMirror.  A database is sound when no page is older than its stamp   *)
(* and a complete index is of the pages it lies beside.  A copy stays      *)
(* sound while it is filled, because what is fetched is never older than   *)
(* the stamp taken before, which it gets in the end; and a search that     *)
(* stays with the index holds hits of one sound database.                  *)
(***************************************************************************)
Searches ==
    [step : {"idle", "load", "legacy"}, hits : Mirror!Revisions, loaded : Mirror!Revisions,
     focused : SUBSET Pages, stamp : Mirror!Revisions]

NotOlder(text, stamp) == \A p \in Pages : text[p] = 0 \/ text[p] >= stamp[p]

Sound(db, wiki) ==
    /\ db \in Mirror!Database
    /\ NotOlder(db.page, db.stamp)
    /\ \A p \in Pages : db.stamp[p] <= wiki[p]
    /\ db.complete => db.doc = db.page

Filling(wiki, staging, seen, syncId) ==
    /\ \A p \in seen : staging.page[p] >= syncId[p]
    /\ \A p \in Pages : syncId[p] <= wiki[p]

Prepared(search) ==
    /\ NotOlder(search.hits, search.stamp)
    /\ \A p \in Pages : search.loaded[p] # 0 => search.loaded[p] = search.hits[p]
    /\ \A p \in search.focused : search.loaded[p] # 0

MirrorInv ==
    /\ r1 \in [Pages -> 1..(MirrorRevisions + 1)]
    /\ Sound(r2, r1) /\ Sound(r3, r1)
    /\ r4 \in SUBSET Pages /\ r5 \in Mirror!Revisions
    /\ r6 \in {"idle", "fetching", "indexing", "publishing"}
    /\ r6 = "fetching" => Filling(r1, r3, r4, r5)
    /\ r7 \in Searches
    /\ r7.step = "load" => Prepared(r7)
    /\ Mirror!IssuedHoldsTogether

LEMMA MirrorInitially == Mirror!Init => MirrorInv
BY ComponentConstants DEF Mirror!Init, Mirror!MirrorBounds, Mirror!Empty, Mirror!Nothing, Mirror!NoSearch, Mirror!NoIssue,
   Mirror!Absent, Mirror!Deleted, Mirror!Database, Mirror!Revisions, Mirror!IssuedHoldsTogether,
   MirrorInv, Sound, NotOlder, Searches

\* What Stored and the stamp of a complete copy do to a database.
LEMMA StoredPages ==
    ASSUME NEW db \in Mirror!Database, NEW pages \in Mirror!Revisions
    PROVE  /\ Mirror!Stored(db, pages) \in Mirror!Database
           /\ Mirror!Stored(db, pages).page = pages
           /\ Mirror!Stored(db, pages).stamp = db.stamp
           /\ Mirror!Stored(db, pages).complete => db.complete /\ pages = db.page
           /\ pages = db.page => Mirror!Stored(db, pages).doc = db.doc
<1>1. db.doc \in Mirror!Revisions /\ db.page \in Mirror!Revisions /\ 0 \in 0..Mirror!Deleted
  BY ComponentConstants DEF Mirror!Database, Mirror!Revisions, Mirror!Deleted, Mirror!MirrorBounds
<1> DEFINE docs == [p \in Pages |-> IF pages[p] = db.page[p] THEN db.doc[p] ELSE 0]
<1>2. docs \in Mirror!Revisions
  BY <1>1 DEF Mirror!Revisions
<1>3. pages = db.page => docs = db.doc
  BY <1>1 DEF Mirror!Revisions
<1>4. (db.complete /\ pages = db.page) \in BOOLEAN
  BY DEF Mirror!Database
<1> HIDE DEF docs
<1>5. Mirror!Stored(db, pages) =
        [db EXCEPT !.page = pages, !.doc = docs, !.complete = db.complete /\ pages = db.page]
  BY DEF Mirror!Stored, Mirror!Absent, docs
<1> QED  BY <1>2, <1>3, <1>4, <1>5 DEF Mirror!Database

LEMMA StoredSound ==
    ASSUME NEW db, NEW wiki, NEW pages \in Mirror!Revisions, Sound(db, wiki), NotOlder(pages, db.stamp)
    PROVE  Sound(Mirror!Stored(db, pages), wiki)
<1> DEFINE new == Mirror!Stored(db, pages)
<1>1. /\ new \in Mirror!Database /\ new.page = pages /\ new.stamp = db.stamp
      /\ new.complete => db.complete /\ pages = db.page /\ new.doc = db.doc
  BY StoredPages DEF Sound
<1> HIDE DEF new
<1>2. Sound(new, wiki)
  BY <1>1 DEF Sound
<1> QED  BY <1>2 DEF new

\* A wiki that moves on leaves a database sound.
LEMMA StillSound ==
    ASSUME NEW db, NEW wiki, NEW next, Sound(db, wiki),
           wiki \in [Pages -> Nat], next \in [Pages -> Nat], \A p \in Pages : wiki[p] <= next[p]
    PROVE  Sound(db, next)
<1>1. \A p \in Pages : db.stamp[p] \in Nat
  BY DEF Sound, Mirror!Database, Mirror!Revisions
<1> QED  BY <1>1 DEF Sound

\* The copy of a writer that does not work is empty.
LEMMA EmptySound ==
    ASSUME NEW wiki \in [Pages -> Nat]
    PROVE  Sound(Mirror!Empty, wiki)
BY ComponentConstants DEF Mirror!Empty, Mirror!Nothing, Mirror!Absent, Mirror!Deleted, Mirror!Database, Mirror!Revisions,
   Mirror!MirrorBounds, Sound, NotOlder

LEMMA WriterKept ==
    ASSUME MirrorInv,
           \/ Mirror!SyncStart \/ Mirror!Complete \/ Mirror!RebuildStart \/ Mirror!BuildIndex
           \/ Mirror!Publish \/ Mirror!WriterFails \/ \E p \in Pages : Mirror!Fetch(p)
    PROVE  MirrorInv'
<1>a. r1' = r1 /\ r7' = r7 /\ r8' = r8
  BY DEF Mirror!SyncStart, Mirror!Complete, Mirror!RebuildStart, Mirror!BuildIndex, Mirror!Publish,
     Mirror!WriterFails, Mirror!Fetch, Mirror!reading
<1>b. MirrorRevisions \in Nat /\ r1 \in [Pages -> 1..(MirrorRevisions + 1)]
  BY ComponentConstants DEF MirrorInv, Mirror!MirrorBounds
<1>c. r1 \in [Pages -> Nat] /\ r1 \in Mirror!Revisions
  BY <1>b DEF Mirror!Revisions, Mirror!Deleted
<1>d. Mirror!Nothing \in Mirror!Revisions
  BY <1>b DEF Mirror!Revisions, Mirror!Deleted, Mirror!Nothing, Mirror!Absent
<1>0. /\ r1' = r1 /\ r7' = r7 /\ r8' = r8
      /\ r1 \in [Pages -> Nat] /\ r1 \in Mirror!Revisions /\ Mirror!Nothing \in Mirror!Revisions
  BY <1>a, <1>c, <1>d
<1>1. SUFFICES /\ Sound(r2', r1) /\ Sound(r3', r1)
               /\ r4' \in SUBSET Pages /\ r5' \in Mirror!Revisions
               /\ r6' \in {"idle", "fetching", "indexing", "publishing"}
               /\ r6' = "fetching" => Filling(r1, r3', r4', r5')
  BY <1>0 DEF MirrorInv, Mirror!IssuedHoldsTogether
<1>2. /\ Sound(r2, r1) /\ Sound(r3, r1) /\ r4 \in SUBSET Pages /\ r5 \in Mirror!Revisions
      /\ r6 = "fetching" => Filling(r1, r3, r4, r5)
  BY DEF MirrorInv
<1>3. CASE Mirror!SyncStart
  BY <1>0, <1>2, <1>3 DEF Mirror!SyncStart, Filling
<1>4. CASE Mirror!Complete
  <2> DEFINE pages == [p \in Pages |-> IF p \in r4 THEN r3.page[p] ELSE 0]
             db == Mirror!Stored(r3, pages)
  <2>1. /\ r3 \in Mirror!Database /\ r3.page \in Mirror!Revisions /\ 0 \in 0..Mirror!Deleted
    BY <1>2, ComponentConstants DEF Sound, Mirror!Database, Mirror!Revisions, Mirror!Deleted, Mirror!MirrorBounds
  <2>2. pages \in Mirror!Revisions
    BY <2>1 DEF Mirror!Revisions
  <2>3. NotOlder(pages, r3.stamp) /\ NotOlder(pages, r5)
    BY <1>2, <1>4 DEF Mirror!Complete, Filling, Sound, NotOlder
  <2>4. Sound(db, r1) /\ db.page = pages
    BY <1>2, <2>1, <2>2, <2>3, StoredSound, StoredPages
  <2>5. r2' = r2 /\ r3' = [db EXCEPT !.stamp = r5] /\ r4' = {} /\ r5' = Mirror!Nothing /\ r6' = "indexing"
    BY <1>4 DEF Mirror!Complete, Mirror!world, Mirror!Absent
  <2> HIDE DEF db, pages
  <2>6. /\ r3' \in Mirror!Database /\ r3'.page = db.page /\ r3'.stamp = r5 /\ r3'.doc = db.doc
        /\ r3'.complete = db.complete
    BY <1>2, <2>4, <2>5 DEF Sound, Mirror!Database
  <2>7. Sound(r3', r1)
    BY <1>2, <1>4, <2>3, <2>4, <2>6 DEF Sound, Filling, Mirror!Complete
  <2> QED  BY <1>0, <1>2, <2>5, <2>7
<1>5. CASE Mirror!RebuildStart
  <2>1. /\ r3' \in Mirror!Database /\ r3'.page = r2.page /\ r3'.stamp = r2.stamp /\ ~r3'.complete
    BY <1>0, <1>2, <1>5 DEF Mirror!RebuildStart, Sound, Mirror!Database
  <2>2. Sound(r3', r1)
    BY <1>2, <2>1 DEF Sound
  <2> QED  BY <1>2, <1>5, <2>2 DEF Mirror!RebuildStart
<1>6. CASE Mirror!BuildIndex
  <2>1. /\ r3' \in Mirror!Database /\ r3'.page = r3.page /\ r3'.stamp = r3.stamp /\ r3'.doc = r3.page
    BY <1>2, <1>6 DEF Mirror!BuildIndex, Sound, Mirror!Database
  <2>2. Sound(r3', r1)
    BY <1>2, <2>1 DEF Sound
  <2> QED  BY <1>2, <1>6, <2>2 DEF Mirror!BuildIndex
<1>7. CASE Mirror!Publish \/ Mirror!WriterFails
  BY <1>0, <1>2, <1>7, EmptySound DEF Mirror!Publish, Mirror!WriterFails, Mirror!WriterDone
<1>8. ASSUME NEW p \in Pages, Mirror!Fetch(p)
      PROVE  /\ Sound(r2', r1) /\ Sound(r3', r1)
             /\ r4' \in SUBSET Pages /\ r5' \in Mirror!Revisions
             /\ r6' \in {"idle", "fetching", "indexing", "publishing"}
             /\ r6' = "fetching" => Filling(r1, r3', r4', r5')
  <2> DEFINE pages == [r3.page EXCEPT ![p] = r1[p]]
  <2>1. /\ r3 \in Mirror!Database /\ r3.page \in Mirror!Revisions /\ r3.stamp \in Mirror!Revisions
    BY <1>2 DEF Sound, Mirror!Database
  <2>2. pages \in Mirror!Revisions /\ \A q \in Pages : pages[q] = IF q = p THEN r1[p] ELSE r3.page[q]
    BY <1>0, <2>1 DEF Mirror!Revisions
  <2>3. r2' = r2 /\ r3' = Mirror!Stored(r3, pages) /\ r4' = r4 \cup {p} /\ r5' = r5 /\ r6' = r6 /\ r6 = "fetching"
    BY <1>8 DEF Mirror!Fetch, Mirror!world
  <2> HIDE DEF pages
  <2>4. NotOlder(pages, r3.stamp)
    BY <1>2, <2>2 DEF NotOlder, Sound
  <2>5. Sound(r3', r1) /\ r3'.page = pages
    BY <1>2, <2>1, <2>2, <2>3, <2>4, StoredSound, StoredPages
  <2>6. Filling(r1, r3', r4', r5')
    BY <1>2, <2>2, <2>3, <2>5 DEF Filling
  <2> QED  BY <1>2, <2>3, <2>5, <2>6
<1> QED  BY <1>3, <1>4, <1>5, <1>6, <1>7, <1>8

LEMMA EditedKept ==
    ASSUME MirrorInv, NEW p \in Pages, Mirror!Edited(p)
    PROVE  MirrorInv'
<1>1. /\ r1' = [r1 EXCEPT ![p] = @ + 1] /\ r1[p] < MirrorRevisions + 1 /\ MirrorRevisions \in Nat
      /\ r2' = r2 /\ r3' = r3 /\ r4' = r4 /\ r5' = r5 /\ r6' = r6 /\ r7' = r7 /\ r8' = r8
  BY ComponentConstants DEF Mirror!Edited, Mirror!world, Mirror!reading, Mirror!Deleted, Mirror!MirrorBounds
<1>2. /\ r1 \in [Pages -> Nat] /\ r1' \in [Pages -> Nat] /\ \A q \in Pages : r1[q] <= r1'[q]
      /\ r1' \in [Pages -> 1..(MirrorRevisions + 1)]
  BY <1>1 DEF MirrorInv
<1>3. Sound(r2, r1') /\ Sound(r3, r1')
  BY <1>2, StillSound DEF MirrorInv
<1>4. r6 = "fetching" => Filling(r1', r3, r4, r5)
  BY <1>2 DEF MirrorInv, Filling, Mirror!Revisions
<1> QED  BY <1>1, <1>2, <1>3, <1>4 DEF MirrorInv, Mirror!IssuedHoldsTogether

LEMMA SearchKept ==
    ASSUME MirrorInv,
           \/ Mirror!Query \/ Mirror!IssueLoaded \/ Mirror!Legacy
           \/ \E p \in Pages : Mirror!Load(p) \/ Mirror!Focus(p)
    PROVE  MirrorInv'
<1>a. UNCHANGED <<r1, r2, r3, r4, r5, r6>>
  BY DEF Mirror!Query, Mirror!IssueLoaded, Mirror!Legacy, Mirror!Load, Mirror!Focus, Mirror!world
<1>b. Mirror!Nothing \in Mirror!Revisions /\ \A p \in Pages : Mirror!Nothing[p] = 0
  BY ComponentConstants DEF Mirror!Revisions, Mirror!Deleted, Mirror!Nothing, Mirror!Absent, Mirror!MirrorBounds
<1>c. /\ Mirror!NoSearch \in Searches /\ Mirror!NoSearch.step = "idle"
  BY <1>b DEF Mirror!NoSearch, Searches
<1>1. SUFFICES /\ r7' \in Searches
               /\ r7'.step = "load" => Prepared(r7')
               /\ Mirror!IssuedHoldsTogether'
  BY <1>a DEF MirrorInv
<1>2. /\ Sound(r2, r1) /\ r7 \in Searches
      /\ r7.step = "load" => Prepared(r7)
      /\ Mirror!IssuedHoldsTogether
  BY DEF MirrorInv
<1>d. /\ r2 \in Mirror!Database /\ r2.page \in Mirror!Revisions /\ r2.doc \in Mirror!Revisions
      /\ r2.stamp \in Mirror!Revisions /\ NotOlder(r2.page, r2.stamp)
      /\ r2.complete \in BOOLEAN
      /\ r2.complete => r2.doc = r2.page
  BY <1>2 DEF Sound, Mirror!Database
<1>3. CASE Mirror!Query
  <2>1. PICK chosen \in SUBSET Pages \ {{}} :
          r7' = [step |-> IF r2.complete THEN "load" ELSE "legacy",
                 hits |-> [p \in Pages |-> IF p \in chosen THEN r2.doc[p] ELSE 0],
                 loaded |-> Mirror!Nothing, focused |-> {}, stamp |-> r2.stamp]
    BY <1>3 DEF Mirror!Query, Mirror!Absent
  <2> DEFINE hits == [p \in Pages |-> IF p \in chosen THEN r2.doc[p] ELSE 0]
  <2>2. hits \in Mirror!Revisions
    BY <1>b, <1>d DEF Mirror!Revisions, Mirror!Nothing
  <2>3. r2.complete => NotOlder(hits, r2.stamp)
    BY <1>d DEF NotOlder
  <2> HIDE DEF hits
  <2>4. /\ r7'.step = (IF r2.complete THEN "load" ELSE "legacy") /\ r7'.hits = hits
        /\ r7'.loaded = Mirror!Nothing /\ r7'.focused = {} /\ r7'.stamp = r2.stamp
    BY <2>1 DEF hits
  <2>5. r7' \in Searches
    BY <1>b, <1>d, <2>1, <2>2 DEF Searches, hits
  <2>6. r7'.step = "load" => Prepared(r7')
    BY <1>b, <2>3, <2>4 DEF Prepared
  <2>7. Mirror!IssuedHoldsTogether'
    BY <1>3, <1>b DEF Mirror!Query, Mirror!NoIssue, Mirror!IssuedHoldsTogether, Mirror!Absent
  <2> QED  BY <2>5, <2>6, <2>7
<1>4. CASE Mirror!IssueLoaded
  <2>1. /\ Prepared(r7) /\ r7.focused = Mirror!Wanted
        /\ r8' = [text |-> r7.loaded, passages |-> r7.hits, stamp |-> r7.stamp] /\ r7' = Mirror!NoSearch
    BY <1>2, <1>4 DEF Mirror!IssueLoaded, Mirror!Issue
  <2>2. \A p \in Pages : /\ r7.hits[p] \in {0, r7.loaded[p]}
                         /\ r7.loaded[p] = 0 \/ r7.loaded[p] >= r7.stamp[p]
    BY <2>1 DEF Prepared, NotOlder, Mirror!Wanted, Mirror!Absent
  <2>3. Mirror!IssuedHoldsTogether'
    BY <2>1, <2>2 DEF Mirror!IssuedHoldsTogether, Mirror!Absent
  <2> QED  BY <1>c, <2>1, <2>3
<1>5. CASE Mirror!Legacy
  <2>1. r8' = [text |-> r2.page, passages |-> Mirror!Nothing, stamp |-> r2.stamp] /\ r7' = Mirror!NoSearch
    BY <1>5 DEF Mirror!Legacy, Mirror!Issue
  <2>2. Mirror!IssuedHoldsTogether'
    BY <1>b, <1>d, <2>1 DEF Mirror!IssuedHoldsTogether, NotOlder, Mirror!Absent
  <2> QED  BY <1>c, <2>1, <2>2
<1>6. ASSUME Mirror!Restart
      PROVE  r7' \in Searches /\ r7'.step = "legacy"
  BY <1>2, <1>6 DEF Mirror!Restart, Searches
<1>7. ASSUME NEW p \in Pages, Mirror!Load(p)
      PROVE  /\ r7' \in Searches
             /\ r7'.step = "load" => Prepared(r7')
             /\ Mirror!IssuedHoldsTogether'
  <2>1. r8' = r8 /\ r7.step = "load" /\ Prepared(r7)
    BY <1>2, <1>7 DEF Mirror!Load
  <2>2. CASE ~Mirror!SameSnapshot(p)
    BY <1>2, <1>6, <1>7, <2>1, <2>2 DEF Mirror!Load, Mirror!IssuedHoldsTogether
  <2>3. CASE Mirror!SameSnapshot(p)
    <3> DEFINE loaded == [r7.loaded EXCEPT ![p] = r2.doc[p]]
    <3>1. r7' = [r7 EXCEPT !.loaded = loaded]
      BY <1>7, <2>3 DEF Mirror!Load
    <3>2. /\ loaded \in Mirror!Revisions
          /\ \A q \in Pages : loaded[q] = IF q = p THEN r7.hits[p] ELSE r7.loaded[q]
      BY <1>2, <1>d, <2>3 DEF Searches, Mirror!Revisions, Mirror!SameSnapshot
    <3>3. r7.hits[p] # 0 /\ r7.focused \in SUBSET Pages
      BY <1>2, <1>7 DEF Mirror!Load, Mirror!Wanted, Mirror!Absent, Searches
    <3> HIDE DEF loaded
    <3>4. /\ r7' \in Searches /\ r7'.hits = r7.hits /\ r7'.stamp = r7.stamp /\ r7'.focused = r7.focused
          /\ r7'.loaded = loaded
      BY <1>2, <3>1, <3>2 DEF Searches
    <3>5. Prepared(r7')
      BY <2>1, <3>2, <3>3, <3>4 DEF Prepared, NotOlder
    <3> QED  BY <1>2, <2>1, <3>4, <3>5 DEF Mirror!IssuedHoldsTogether
  <2> QED  BY <2>2, <2>3
<1>8. ASSUME NEW p \in Pages, Mirror!Focus(p)
      PROVE  /\ r7' \in Searches
             /\ r7'.step = "load" => Prepared(r7')
             /\ Mirror!IssuedHoldsTogether'
  <2>1. r8' = r8 /\ r7.step = "load" /\ Prepared(r7) /\ r7.loaded[p] # 0
    BY <1>2, <1>8 DEF Mirror!Focus, Mirror!Absent
  <2>2. CASE ~Mirror!SameSnapshot(p)
    BY <1>2, <1>6, <1>8, <2>1, <2>2 DEF Mirror!Focus, Mirror!IssuedHoldsTogether
  <2>3. CASE Mirror!SameSnapshot(p)
    <3>1. r7' = [r7 EXCEPT !.focused = @ \cup {p}]
      BY <1>8, <2>3 DEF Mirror!Focus
    <3>2. /\ r7' \in Searches /\ r7'.hits = r7.hits /\ r7'.stamp = r7.stamp /\ r7'.loaded = r7.loaded
          /\ r7'.focused = r7.focused \cup {p}
      BY <1>2, <3>1 DEF Searches
    <3>3. Prepared(r7')
      BY <2>1, <3>2 DEF Prepared, NotOlder
    <3> QED  BY <1>2, <2>1, <3>2, <3>3 DEF Mirror!IssuedHoldsTogether
  <2> QED  BY <2>2, <2>3
<1> QED  BY <1>3, <1>4, <1>5, <1>7, <1>8

LEMMA MirrorStepKept ==
    ASSUME MirrorInv, Mirror!Next
    PROVE  MirrorInv'
BY WriterKept, SearchKept, EditedKept DEF Mirror!Next

MirrorHolds == component = "mirror" => MirrorInv

THEOREM MirrorInvariance == ComponentsSpec => []MirrorHolds
<1>1. ComponentsInit => MirrorHolds
  BY MirrorInitially DEF ComponentsInit, MirrorHolds
<1>2. ASSUME MirrorHolds, [ComponentsNext]_all
      PROVE  MirrorHolds'
  <2>1. CASE ComponentsNext
    BY <1>2, <2>1, MirrorStepKept DEF ComponentsNext, MirrorHolds
  <2>2. CASE UNCHANGED all
    BY <1>2, <2>2 DEF all, registers, MirrorHolds, MirrorInv, Mirror!IssuedHoldsTogether
  <2> QED  BY <1>2, <2>1, <2>2
<1> QED  BY <1>1, <1>2, PTL DEF ComponentsSpec

(***************************************************************************)
(* sync of gswiki.py, rebuild of passage_index.py and the search of        *)
(* research.py, for every set of pages: the passages a search issues are   *)
(* of the text they are shown in, and no text is older than the stamp it   *)
(* is issued under, although the mirror may be replaced between any two    *)
(* steps of the search and the wiki changes while it is copied.            *)
(***************************************************************************)
THEOREM SearchesHoldTogether == ComponentsSpec => []IssuedHoldsTogether
<1>1. MirrorHolds => IssuedHoldsTogether
  BY DEF MirrorHolds, MirrorInv, IssuedHoldsTogether
<1> QED  BY <1>1, MirrorInvariance, PTL

(***************************************************************************)
(* CorpusSync.  The manifest is written once, from the records of the run, *)
(* so what has to be kept is what the records say while the workers go on: *)
(* a script is recorded, failed or still to be fetched, never two of them, *)
(* and what is recorded is in the directory unless it was meddled with.    *)
(***************************************************************************)
ScriptRecords == [update : 0..ScriptVersions, hash : 0..ScriptVersions]

CorpusTypes(repository, disk, manifest, listed, at, payload, records, failures) ==
    /\ repository \in [Scripts -> 1..ScriptVersions] /\ disk \in [Scripts -> 0..(ScriptVersions + 1)]
    /\ manifest \in [Scripts -> ScriptRecords] /\ records \in [Scripts -> ScriptRecords]
    /\ listed \in [Scripts -> 0..ScriptVersions] /\ payload \in [Scripts -> 0..ScriptVersions]
    /\ at \in {"idle", "fetching", "done"}

\* One script, while the run that lists it goes on.
Unrecorded == [update |-> 0, hash |-> 0]

Worked(repository, disk, listed, payload, recorded, failed, meddled) ==
    /\ listed <= repository
    /\ recorded # Unrecorded => /\ disk = recorded.hash \/ meddled
                                /\ recorded.hash >= recorded.update
                                /\ listed # 0 /\ ~failed /\ payload = 0
    /\ failed => listed # 0 /\ payload = 0
    /\ payload # 0 => listed # 0 /\ payload >= listed

CorpusInv ==
    /\ CorpusTypes(r1, r2, r3, r4, r5, r6, r8, r9)
    /\ \A s \in Scripts : Worked(r1[s], r2[s], r4[s], r6[s], r8[s], s \in r9, s \in r10)
    /\ \A s \in Scripts : r3[s].hash >= r3[s].update
    /\ r5 = "idle" => \A s \in Scripts : r8[s] = Unrecorded
    /\ r5 # "fetching" => \A s \in Scripts : r6[s] = 0
    /\ r5 = "done" => /\ r3 = r8
                      /\ \A s \in Scripts : r4[s] = 0 \/ r8[s] # Unrecorded \/ s \in r9

LEMMA CorpusInitially == Corpus!Init => CorpusInv
BY ComponentConstants DEF Corpus!Init, Corpus!CorpusBounds, Corpus!Unset, Corpus!None, Corpus!NoRecords, Corpus!NoRecord,
   CorpusInv, CorpusTypes, ScriptRecords, Unrecorded, Worked

\* What a step of the workers does to the scripts it is not about.
LEMMA CorpusStepKept ==
    ASSUME CorpusInv, Corpus!Next
    PROVE  CorpusInv'
<1> USE DEF Corpus!None, Corpus!NoRecord, Unrecorded
<1>a. ScriptVersions \in Nat /\ ScriptVersions > 0
  BY ComponentConstants DEF Corpus!CorpusBounds
<1>b. /\ CorpusTypes(r1, r2, r3, r4, r5, r6, r8, r9)
      /\ \A s \in Scripts : Worked(r1[s], r2[s], r4[s], r6[s], r8[s], s \in r9, s \in r10)
      /\ \A s \in Scripts : r3[s].hash >= r3[s].update
      /\ r5 = "idle" => \A s \in Scripts : r8[s] = Unrecorded
      /\ r5 # "fetching" => \A s \in Scripts : r6[s] = 0
      /\ r5 = "done" => /\ r3 = r8
                        /\ \A s \in Scripts : r4[s] = 0 \/ r8[s] # Unrecorded \/ s \in r9
  BY DEF CorpusInv
<1>c. /\ Corpus!Unset \in [Scripts -> 0..ScriptVersions] /\ Corpus!NoRecords \in [Scripts -> ScriptRecords]
      /\ \A s \in Scripts : Corpus!Unset[s] = 0 /\ Corpus!NoRecords[s] = Unrecorded
  BY <1>a DEF Corpus!Unset, Corpus!NoRecords, ScriptRecords
<1>1. CASE Corpus!Start
  <2>1. /\ r1' = r1 /\ r2' = r2 /\ r3' = r3 /\ r5' = "fetching"
        /\ r6' = Corpus!Unset /\ r8' = Corpus!NoRecords /\ r9' = {} /\ r10' = {}
    BY <1>1 DEF Corpus!Start, Corpus!Clean
  <2>2. r4' \in [Scripts -> 0..ScriptVersions] /\ \A s \in Scripts : r4'[s] <= r1[s]
    BY <1>1, <1>a, <1>b DEF Corpus!Start, CorpusTypes
  <2>3. CorpusTypes(r1, r2, r3, r4, r5, r6, r8, r9)'
    BY <1>b, <1>c, <2>1, <2>2 DEF CorpusTypes
  <2>4. \A s \in Scripts : Worked(r1'[s], r2'[s], r4'[s], r6'[s], r8'[s], s \in r9', s \in r10')
    BY <1>c, <2>1, <2>2 DEF Worked
  <2> QED  BY <1>b, <2>1, <2>3, <2>4 DEF CorpusInv
<1>2. CASE Corpus!Publish
  BY <1>b, <1>2 DEF Corpus!Publish, Corpus!worker, Corpus!ToFetch, CorpusInv, CorpusTypes, Worked
<1>3. CASE Corpus!Ends
  <2>1. /\ r1' = r1 /\ r2' = r2 /\ r3' = r3 /\ r5' = "idle" /\ r4' = Corpus!Unset
        /\ r6' = Corpus!Unset /\ r8' = Corpus!NoRecords /\ r9' = {} /\ r10' = {}
    BY <1>3 DEF Corpus!Ends, Corpus!Clean
  <2>3. CorpusTypes(r1, r2, r3, r4, r5, r6, r8, r9)'
    BY <1>b, <1>c, <2>1 DEF CorpusTypes
  <2>4. \A s \in Scripts : Worked(r1'[s], r2'[s], r4'[s], r6'[s], r8'[s], s \in r9', s \in r10')
    BY <1>b, <1>c, <2>1 DEF Worked, CorpusTypes
  <2> QED  BY <1>b, <1>c, <2>1, <2>3, <2>4 DEF CorpusInv
<1>4. CASE Corpus!Lost
  <2>1. /\ UNCHANGED <<r1, r2, r4, r5, r6, r8, r9, r10>> /\ r3' = Corpus!NoRecords /\ r5 = "idle"
    BY <1>4 DEF Corpus!Lost, Corpus!worker
  <2>2. CorpusTypes(r1, r2, r3, r4, r5, r6, r8, r9)'
    BY <1>b, <1>c, <2>1 DEF CorpusTypes
  <2>3. \A s \in Scripts : r3'[s].hash >= r3'[s].update
    BY <1>c, <2>1
  <2> QED  BY <1>b, <2>1, <2>2, <2>3 DEF CorpusInv
<1>5. ASSUME NEW s \in Scripts, Corpus!Keep(s)
      PROVE  CorpusInv'
  <2>1. /\ UNCHANGED <<r1, r2, r3, r4, r5, r6, r9>> /\ r8' = [r8 EXCEPT ![s] = r3[s]] /\ r10' = r10 \ {s}
        /\ r5 = "fetching" /\ r4[s] # 0 /\ s \notin r9 /\ r6[s] = 0 /\ r3[s].update = r4[s] /\ r2[s] = r3[s].hash
    BY <1>5 DEF Corpus!Keep, Corpus!ToFetch, Corpus!Vouched
  <2>2. \A x \in Scripts : r8'[x] = IF x = s THEN r3[s] ELSE r8[x]
    BY <1>b, <2>1 DEF CorpusTypes
  <2>3. CorpusTypes(r1, r2, r3, r4, r5, r6, r8, r9)'
    BY <1>b, <2>1 DEF CorpusTypes
  <2>4. \A x \in Scripts : Worked(r1'[x], r2'[x], r4'[x], r6'[x], r8'[x], x \in r9', x \in r10')
    BY <1>b, <2>1, <2>2 DEF Worked
  <2> QED  BY <1>b, <2>1, <2>3, <2>4 DEF CorpusInv
<1>6. ASSUME NEW s \in Scripts, Corpus!Download(s)
      PROVE  CorpusInv'
  <2>1. /\ UNCHANGED <<r1, r2, r3, r4, r5, r8, r10>>
        /\ r5 = "fetching" /\ r4[s] # 0 /\ s \notin r9 /\ r6[s] = 0 /\ r8[s] = Unrecorded
        /\ r6' \in {r6, [r6 EXCEPT ![s] = r1[s]]}
        /\ r9' \in {r9, r9 \cup {s}}
        /\ r9' = r9 \/ r6' = r6
    BY <1>6 DEF Corpus!Download, Corpus!ToFetch
  <2>2. CorpusTypes(r1, r2, r3, r4, r5, r6, r8, r9)'
    BY <1>a, <1>b, <2>1 DEF CorpusTypes
  <2>3. \A x \in Scripts : r6'[x] = r6[x] \/ (x = s /\ r6'[x] = r1[s] /\ r9' = r9)
    BY <1>b, <2>1 DEF CorpusTypes
  <2>4. \A x \in Scripts : Worked(r1'[x], r2'[x], r4'[x], r6'[x], r8'[x], x \in r9', x \in r10')
    BY <1>b, <2>1, <2>3 DEF Worked
  <2> QED  BY <1>b, <2>1, <2>2, <2>4 DEF CorpusInv
<1>7. ASSUME NEW s \in Scripts, Corpus!Write(s)
      PROVE  CorpusInv'
  <2>1. /\ UNCHANGED <<r1, r3, r4, r5>> /\ r6[s] # 0 /\ r6' = [r6 EXCEPT ![s] = 0]
    BY <1>7 DEF Corpus!Write
  <2>2. r5 = "fetching" /\ r4[s] # 0 /\ r6[s] >= r4[s] /\ r8[s] = Unrecorded /\ s \notin r9
    BY <1>b, <2>1 DEF Worked
  <2>3. \A x \in Scripts : r6'[x] = IF x = s THEN 0 ELSE r6[x]
    BY <1>b, <2>1 DEF CorpusTypes
  <2>4. CASE /\ r2' = [r2 EXCEPT ![s] = r6[s]] /\ r9' = r9 /\ r10' = r10 \ {s}
             /\ r8' = [r8 EXCEPT ![s] = [update |-> r4[s], hash |-> r6[s]]]
    <3>1. [update |-> r4[s], hash |-> r6[s]] \in ScriptRecords
      BY <1>b DEF CorpusTypes, ScriptRecords
    <3>2. CorpusTypes(r1, r2, r3, r4, r5, r6, r8, r9)'
      BY <1>a, <1>b, <2>1, <2>4, <3>1 DEF CorpusTypes
    <3>3. \A x \in Scripts : /\ r2'[x] = IF x = s THEN r6[s] ELSE r2[x]
                             /\ r8'[x] = IF x = s THEN [update |-> r4[s], hash |-> r6[s]] ELSE r8[x]
      BY <1>b, <2>4 DEF CorpusTypes
    <3>4. \A x \in Scripts : Worked(r1'[x], r2'[x], r4'[x], r6'[x], r8'[x], x \in r9', x \in r10')
      BY <1>b, <2>1, <2>2, <2>3, <2>4, <3>3 DEF Worked
    <3> QED  BY <1>b, <2>1, <2>2, <3>2, <3>4 DEF CorpusInv
  <2>5. CASE UNCHANGED <<r2, r8, r10>> /\ r9' = r9 \cup {s}
    <3>1. CorpusTypes(r1, r2, r3, r4, r5, r6, r8, r9)'
      BY <1>a, <1>b, <2>1, <2>5 DEF CorpusTypes
    <3>2. \A x \in Scripts : Worked(r1'[x], r2'[x], r4'[x], r6'[x], r8'[x], x \in r9', x \in r10')
      BY <1>b, <2>1, <2>2, <2>3, <2>5 DEF Worked
    <3> QED  BY <1>b, <2>1, <2>2, <2>5, <3>1, <3>2 DEF CorpusInv
  <2> QED  BY <1>7, <2>4, <2>5 DEF Corpus!Write
<1>8. ASSUME NEW s \in Scripts, Corpus!Update(s)
      PROVE  CorpusInv'
  <2>1. UNCHANGED <<r2, r3, r4, r5, r6, r8, r9, r10>> /\ r1[s] < ScriptVersions /\ r1' = [r1 EXCEPT ![s] = @ + 1]
    BY <1>8 DEF Corpus!Update, Corpus!worker
  <2>2. r1' \in [Scripts -> 1..ScriptVersions] /\ \A x \in Scripts : r1'[x] >= r1[x]
    BY <1>a, <1>b, <2>1 DEF CorpusTypes
  <2>3. CorpusTypes(r1, r2, r3, r4, r5, r6, r8, r9)'
    BY <1>b, <2>1, <2>2 DEF CorpusTypes
  <2>4. \A x \in Scripts : Worked(r1'[x], r2'[x], r4'[x], r6'[x], r8'[x], x \in r9', x \in r10')
    BY <1>b, <2>1, <2>2 DEF Worked, CorpusTypes
  <2> QED  BY <1>b, <2>1, <2>3, <2>4 DEF CorpusInv
<1>9. ASSUME NEW s \in Scripts, Corpus!Meddle(s)
      PROVE  CorpusInv'
  <2>1. /\ UNCHANGED <<r1, r3, r4, r5, r6, r8, r9>>
        /\ r10' = IF r5 = "idle" THEN {} ELSE r10 \cup {s}
    BY <1>9 DEF Corpus!Meddle, Corpus!worker
  <2>2. r2' \in [Scripts -> 0..(ScriptVersions + 1)] /\ \A x \in Scripts : x # s => r2'[x] = r2[x]
    BY <1>9, <1>a, <1>b DEF Corpus!Meddle, Corpus!Foreign, CorpusTypes
  <2>3. CorpusTypes(r1, r2, r3, r4, r5, r6, r8, r9)'
    BY <1>b, <2>1, <2>2 DEF CorpusTypes
  <2>4. \A x \in Scripts : Worked(r1'[x], r2'[x], r4'[x], r6'[x], r8'[x], x \in r9', x \in r10')
    BY <1>b, <2>1, <2>2 DEF Worked
  <2> QED  BY <1>b, <2>1, <2>3, <2>4 DEF CorpusInv
<1> QED  BY <1>1, <1>2, <1>3, <1>4, <1>5, <1>6, <1>7, <1>8, <1>9 DEF Corpus!Next

CorpusHolds == component = "corpus" => CorpusInv

THEOREM CorpusInvariance == ComponentsSpec => []CorpusHolds
<1>1. ComponentsInit => CorpusHolds
  BY CorpusInitially DEF ComponentsInit, CorpusHolds
<1>2. ASSUME CorpusHolds, [ComponentsNext]_all
      PROVE  CorpusHolds'
  <2>1. CASE ComponentsNext
    BY <1>2, <2>1, CorpusStepKept DEF ComponentsNext, CorpusHolds
  <2>2. CASE UNCHANGED all
    BY <1>2, <2>2 DEF all, registers, CorpusHolds, CorpusInv, CorpusTypes, Worked
  <2> QED  BY <1>2, <2>1, <2>2
<1> QED  BY <1>1, <1>2, PTL DEF ComponentsSpec

(***************************************************************************)
(* synchronize_corpus of lich_corpus.py, for every repository and every    *)
(* number of attempts: what the manifest records is in the directory       *)
(* unless somebody changed the file while the run went on, is at least as  *)
(* new as the date recorded, and a script without a record was not         *)
(* selected or has failed.                                                 *)
(***************************************************************************)
THEOREM ManifestsAreTrue == ComponentsSpec => []ManifestIsTrue
<1>1. CorpusHolds => ManifestIsTrue
  BY DEF CorpusHolds, CorpusInv, Worked, Unrecorded, Corpus!NoRecord, Corpus!None, ManifestIsTrue,
     Corpus!ManifestIsTrue
<1> QED  BY <1>1, CorpusInvariance, PTL

(***************************************************************************)
(* CodeExecution.  Every mutation of the record is open, failed or         *)
(* acknowledged, its dispatch is told unless it was not sent, and a        *)
(* failure is known to the parent unless a result that is no success       *)
(* already waits.  A report is made when nothing is open, and what happens *)
(* to the record after it changes neither what was a mutation nor what was *)
(* sent.                                                                   *)
(***************************************************************************)
StepFields == {"method", "about", "open", "error", "dispatch", "status"}

IsSequence(s) == s \in Seq({s[i] : i \in DOMAIN s})

StepKnown(step, sent, failed, result) ==
    /\ DOMAIN step = StepFields
    /\ step.open \in BOOLEAN /\ step.error \in BOOLEAN
    /\ step.method \in Execution!Mutations =>
         /\ step.dispatch # "" \/ (step.error /\ sent = "unsent")
         /\ step.open \/ step.error \/ step.dispatch = "acknowledged"
         /\ step.error => failed \/ result = "failure"
    /\ step.status = "failed" => failed

Recorded(record, sent, failed, result) ==
    /\ IsSequence(record) /\ IsSequence(sent) /\ Len(sent) = Len(record)
    /\ \A i \in DOMAIN record : StepKnown(record[i], sent[i], failed, result)

Reported(record, sent, report) ==
    /\ DOMAIN report.steps = DOMAIN record
    /\ \A i \in DOMAIN record : record[i].method \in Execution!Mutations =>
         /\ sent[i] # "unsent" => report.steps[i].dispatch # ""
         /\ report.success => /\ report.steps[i].dispatch = "acknowledged"
                              /\ report.steps[i].status # "failed"
                              /\ ~report.steps[i].error

ExecutionInv ==
    /\ r6 \in {"booting", "executing", "settled"}
    /\ r7 \in BOOLEAN /\ r8 \in BOOLEAN /\ r9 \in {"none", "success", "failure"}
    /\ r9 # "none" => r7
    /\ Recorded(r10, r11, r8, r9)
    /\ r6 = "settled" => Reported(r10, r11, r12)

LEMMA ExecutionInitially == Execution!Init => ExecutionInv
<1>1. IsSequence(<<>>)
  BY DEF IsSequence
<1>2. DOMAIN <<>> = {} /\ Len(<<>>) = 0
  OBVIOUS
<1>3. Recorded(<<>>, <<>>, FALSE, "none")
  BY <1>1, <1>2 DEF Recorded
<1> QED  BY <1>3 DEF Execution!Init, ExecutionInv

LEMMA Appended ==
    ASSUME NEW s, NEW x, IsSequence(s)
    PROVE  /\ IsSequence(Append(s, x)) /\ Len(s) \in Nat /\ Len(Append(s, x)) = Len(s) + 1
           /\ DOMAIN s = 1..Len(s) /\ DOMAIN Append(s, x) = 1..(Len(s) + 1)
           /\ \A i \in 1..Len(s) : Append(s, x)[i] = s[i]
           /\ Append(s, x)[Len(s) + 1] = x
<1>1. Len(s) \in Nat /\ DOMAIN s = 1..Len(s)
  BY DEF IsSequence
<1>2. s \in Seq({s[i] : i \in DOMAIN s} \cup {x})
  BY DEF IsSequence
<1>3. /\ Append(s, x) \in Seq({s[i] : i \in DOMAIN s} \cup {x})
      /\ Len(Append(s, x)) = Len(s) + 1 /\ DOMAIN Append(s, x) = 1..(Len(s) + 1)
      /\ \A i \in 1..Len(s) : Append(s, x)[i] = s[i]
      /\ Append(s, x)[Len(s) + 1] = x
  BY <1>2
<1>4. {s[i] : i \in DOMAIN s} \cup {x} \subseteq {Append(s, x)[i] : i \in DOMAIN Append(s, x)}
  BY <1>1, <1>3
<1>5. Append(s, x) \in Seq({Append(s, x)[i] : i \in DOMAIN Append(s, x)})
  BY <1>3, <1>4
<1> QED  BY <1>1, <1>3, <1>5 DEF IsSequence

\* A function over the same positions is a sequence as well.
LEMMA Mapped ==
    ASSUME NEW s, NEW f, IsSequence(s), f = [i \in DOMAIN s |-> f[i]]
    PROVE  IsSequence(f) /\ Len(f) = Len(s) /\ DOMAIN f = DOMAIN s
<1>1. Len(s) \in Nat /\ DOMAIN s = 1..Len(s) /\ DOMAIN f = DOMAIN s
  BY DEF IsSequence
<1>2. f \in [1..Len(s) -> {f[i] : i \in DOMAIN f}]
  BY <1>1
<1>3. f \in Seq({f[i] : i \in DOMAIN f})
  BY <1>1, <1>2
<1> QED  BY <1>1, <1>3 DEF IsSequence

\* Complete reports what is recorded then, and success only when no step is
\* open and none has failed.
LEMMA CompleteKept ==
    ASSUME NEW result \in {"none", "success", "failure"}, NEW record, NEW sent, NEW failed \in BOOLEAN,
           ExecutionInv, Recorded(record, sent, failed, result), Execution!Complete(result, record, failed),
           r6 = "settled" => Reported(record, sent, r12),
           r9 # "none" => result # "none"
    PROVE  /\ r6' \in {"booting", "executing", "settled"} /\ r7' \in BOOLEAN
           /\ r9' = result
           /\ r9' # "none" => r7'
           /\ r6' = "settled" => Reported(record, sent, r12')
<1>1. r9' = result
  BY DEF Execution!Complete
<1>2. CASE result # "none" /\ r6 # "settled" /\ \A i \in DOMAIN record : ~record[i].open
  <2>1. r6' = "settled" /\ r7' = TRUE /\ r12' = [success |-> result = "success" /\ ~failed, steps |-> record]
    BY <1>2 DEF Execution!Complete, Execution!Done
  <2>2. Reported(record, sent, r12')
    BY <1>2, <2>1 DEF Recorded, StepKnown, Reported
  <2> QED  BY <1>1, <2>1, <2>2
<1>3. CASE ~(result # "none" /\ r6 # "settled" /\ \A i \in DOMAIN record : ~record[i].open)
  <2>1. r6' = r6 /\ r12' = r12 /\ r7' = (r7 \/ r9' # "none")
    BY <1>3 DEF Execution!Complete
  <2> QED  BY <1>1, <2>1 DEF ExecutionInv
<1> QED  BY <1>2, <1>3

\* The child and the code do not touch the record.
LEMMA ChildKept ==
    ASSUME ExecutionInv,
           Execution!Call \/ Execution!CodeEnds \/ Execution!ChildReads \/ Execution!ChildDies
    PROVE  ExecutionInv'
<1>1. UNCHANGED <<r6, r7, r8, r9, r10, r11, r12>>
  BY DEF Execution!Call, Execution!CodeEnds, Execution!ChildReads, Execution!ChildDies, Execution!parent
<1> QED  BY <1>1 DEF ExecutionInv

\* A failure that becomes known, or a result that waits, changes nothing that
\* is known of a step.
LEMMA StillRecorded ==
    ASSUME NEW record, NEW sent, NEW failed, NEW next, NEW result, NEW then,
           Recorded(record, sent, failed, result),
           failed => next, result = "failure" => next \/ then = "failure"
    PROVE  Recorded(record, sent, next, then)
BY DEF Recorded, StepKnown

\* A call the parent records, sent or not.
LEMMA StepRecorded ==
    ASSUME NEW record, NEW sent, NEW failed \in BOOLEAN, NEW next \in BOOLEAN, NEW result, NEW then, NEW i,
           NEW error \in BOOLEAN, NEW state,
           Recorded(record, sent, failed, result),
           failed => next, result = "failure" => next \/ then = "failure",
           error => state = "unsent",
           error => next \/ then = "failure" \/ r2[i].method \notin Execution!Mutations
    PROVE  Recorded(Append(record, Execution!NewStep(i, error)), Append(sent, state), next, then)
<1> DEFINE step == Execution!NewStep(i, error)
           longer == Append(record, step)
           more == Append(sent, state)
<1>1. /\ IsSequence(longer) /\ Len(longer) = Len(record) + 1 /\ DOMAIN longer = 1..(Len(record) + 1)
      /\ \A j \in 1..Len(record) : longer[j] = record[j]
      /\ longer[Len(record) + 1] = step
      /\ Len(record) \in Nat /\ DOMAIN record = 1..Len(record)
  BY Appended DEF Recorded
<1>2. /\ IsSequence(more) /\ Len(more) = Len(sent) + 1
      /\ \A j \in 1..Len(sent) : more[j] = sent[j]
      /\ more[Len(sent) + 1] = state
      /\ Len(sent) = Len(record)
  BY Appended DEF Recorded
<1>a. /\ DOMAIN step = StepFields
      /\ step.method = r2[i].method /\ step.open = ~error /\ step.error = error /\ step.status = ""
      /\ step.dispatch = IF ~error /\ r2[i].method \in Execution!Mutations THEN "unconfirmed" ELSE ""
  BY DEF Execution!NewStep, StepFields
<1>b. (~error) \in BOOLEAN
  OBVIOUS
<1> HIDE DEF step
<1>3. StepKnown(step, state, next, then)
  BY <1>a, <1>b DEF StepKnown
<1>4. Recorded(record, sent, next, then)
  BY StillRecorded
<1> HIDE DEF longer, more
<1>5. \A j \in DOMAIN longer : StepKnown(longer[j], more[j], next, then)
  BY <1>1, <1>2, <1>3, <1>4 DEF Recorded
<1>6. Recorded(longer, more, next, then)
  BY <1>1, <1>2, <1>5 DEF Recorded
<1> QED  BY <1>6 DEF longer, more, step

LEMMA ParentReadsKept ==
    ASSUME ExecutionInv, Execution!ParentReads
    PROVE  ExecutionInv'
<1>1. CASE r7
  <2>1. UNCHANGED <<r6, r7, r8, r9, r10, r11, r12>>
    BY <1>1 DEF Execution!ParentReads, Execution!parent
  <2> QED  BY <2>1 DEF ExecutionInv
<1>2. CASE ~r7
  <2>1. /\ Recorded(r10, r11, r8, "none") /\ r9 = "none" /\ r8 \in BOOLEAN /\ r6 # "settled"
        /\ Execution!Ready \/ Execution!LabCall \/ Execution!Ended
    BY <1>2 DEF Execution!ParentReads, ExecutionInv
  <2>2. CASE Execution!Ready
    <3>1. UNCHANGED <<r7, r8, r9, r10, r11, r12>> /\ r6' = "executing"
      BY <2>2 DEF Execution!Ready
    <3> QED  BY <3>1 DEF ExecutionInv
  <2>3. CASE Execution!LabCall
    <3> DEFINE i == Len(r10) + 1
    <3>1. CASE i > MaxCalls
      <4>1. /\ r10' = Append(r10, Execution!NewStep(i, TRUE)) /\ r11' = Append(r11, "unsent") /\ r8' = r8
            /\ Execution!Complete("failure", r10', r8)
        BY <2>3, <3>1 DEF Execution!LabCall
      <4>2. Recorded(r10', r11', r8, "failure")
        BY <2>1, <4>1, StepRecorded
      <4> HIDE DEF i
      <4>3. /\ r6' \in {"booting", "executing", "settled"} /\ r7' \in BOOLEAN
            /\ r9' = "failure"
            /\ r9' # "none" => r7'
            /\ r6' = "settled" => Reported(r10', r11', r12')
        BY <2>1, <4>1, <4>2, CompleteKept
      <4> QED  BY <2>1, <4>1, <4>2, <4>3 DEF ExecutionInv
    <3>2. CASE ~(i > MaxCalls)
      <4>1. PICK valid \in BOOLEAN : Execution!Forward(i, valid)
        BY <2>3, <3>2 DEF Execution!LabCall
      <4> DEFINE goes == Execution!MayForward(i, valid)
      <4>2. /\ r10' = Append(r10, Execution!NewStep(i, ~goes))
            /\ r11' = Append(r11, IF goes THEN "sent" ELSE "unsent")
            /\ r8' = (r8 \/ (~goes /\ r2[i].method \in Execution!Mutations))
            /\ goes => UNCHANGED <<r6, r7, r9, r12>>
            /\ ~goes => Execution!Complete(r9, r10', r8')
        BY <4>1 DEF Execution!Forward, Execution!parent
      <4> HIDE DEF goes, i
      <4>3. r8' \in BOOLEAN /\ (~goes) \in BOOLEAN
        BY <2>1, <4>2
      <4>4. Recorded(r10', r11', r8', "none")
        <5>1. CASE goes
          BY <2>1, <4>2, <4>3, <5>1, StepRecorded
        <5>2. CASE ~goes
          BY <2>1, <4>2, <4>3, <5>2, StepRecorded
        <5> QED  BY <5>1, <5>2
      <4>5. CASE goes
        BY <2>1, <4>2, <4>3, <4>4, <4>5 DEF ExecutionInv
      <4>6. CASE ~goes
        <5>1. Execution!Complete("none", r10', r8')
          BY <2>1, <4>2, <4>6
        <5>2. /\ r6' \in {"booting", "executing", "settled"} /\ r7' \in BOOLEAN
              /\ r9' = "none"
              /\ r9' # "none" => r7'
              /\ r6' = "settled" => Reported(r10', r11', r12')
          BY <2>1, <4>3, <4>4, <5>1, CompleteKept
        <5> QED  BY <4>3, <4>4, <5>2 DEF ExecutionInv
      <4> QED  BY <4>5, <4>6
    <3> QED  BY <3>1, <3>2
  <2>4. CASE Execution!Ended
    <3>1. PICK result \in {"success", "failure"} : Execution!Complete(result, r10, r8)
      BY <2>4 DEF Execution!Ended
    <3>2. UNCHANGED <<r8, r10, r11>>
      BY <2>4 DEF Execution!Ended
    <3>3. Recorded(r10, r11, r8, result)
      BY <2>1, StillRecorded
    <3>4. /\ r6' \in {"booting", "executing", "settled"} /\ r7' \in BOOLEAN
          /\ r9' = result
          /\ r9' # "none" => r7'
          /\ r6' = "settled" => Reported(r10, r11, r12')
      BY <2>1, <3>1, <3>3, CompleteKept
    <3> QED  BY <2>1, <3>2, <3>3, <3>4 DEF ExecutionInv
  <2> QED  BY <2>1, <2>2, <2>3, <2>4
<1> QED  BY <1>1, <1>2 DEF ExecutionInv

LEMMA EndsKept ==
    ASSUME ExecutionInv, Execution!Closed \/ Execution!TimesOut
    PROVE  ExecutionInv'
<1>1. r6 # "settled" /\ UNCHANGED <<r8, r10, r11>> /\ r8 \in BOOLEAN /\ Recorded(r10, r11, r8, r9)
  BY DEF Execution!Closed, Execution!TimesOut, ExecutionInv
<1>2. CASE Execution!Closed
  <2>1. Execution!Complete("failure", r10, r8) /\ r9 = "none"
    BY <1>2 DEF Execution!Closed
  <2>2. Recorded(r10, r11, r8, "failure")
    BY <1>1, <2>1, StillRecorded
  <2>3. /\ r6' \in {"booting", "executing", "settled"} /\ r7' \in BOOLEAN
        /\ r9' = "failure"
        /\ r9' # "none" => r7'
        /\ r6' = "settled" => Reported(r10, r11, r12')
    BY <1>1, <2>1, <2>2, CompleteKept
  <2> QED  BY <1>1, <2>2, <2>3 DEF ExecutionInv
<1>3. CASE Execution!TimesOut
  <2>1. /\ r6' = "settled" /\ r7' = TRUE /\ r9' = r9
        /\ r12' = [success |-> FALSE /\ ~r8, steps |-> r10]
    BY <1>3 DEF Execution!TimesOut, Execution!Done
  <2>2. Reported(r10, r11, r12')
    BY <1>1, <2>1 DEF Recorded, StepKnown, Reported
  <2> QED  BY <1>1, <2>1, <2>2 DEF ExecutionInv
<1> QED  BY <1>2, <1>3

LEMMA HubKept ==
    ASSUME ExecutionInv, Execution!HubHandles
    PROVE  ExecutionInv'
<1>1. /\ UNCHANGED <<r6, r7, r8, r9, r10, r12>>
      /\ \E i \in DOMAIN r11 : r11[i] \in {"sent", "admitted"} /\
           \E outcome \in {"admitted", "refused", "failed"} : r11' = [r11 EXCEPT ![i] = outcome]
  BY DEF Execution!HubHandles, Execution!parent
<1>2. Recorded(r10, r11, r8, r9)
  BY DEF ExecutionInv
<1>3. /\ r11' = [i \in DOMAIN r11 |-> r11'[i]]
      /\ \A i \in DOMAIN r11 : r11[i] = "unsent" <=> r11'[i] = "unsent"
  BY <1>1
<1>4. IsSequence(r11') /\ Len(r11') = Len(r11) /\ DOMAIN r11' = DOMAIN r11 /\ DOMAIN r11 = DOMAIN r10
  BY <1>2, <1>3, Mapped DEF Recorded, IsSequence
<1>5. Recorded(r10, r11', r8, r9)
  BY <1>2, <1>3, <1>4 DEF Recorded, StepKnown
<1>6. r6 = "settled" => Reported(r10, r11', r12)
  BY <1>3, <1>4 DEF ExecutionInv, Reported
<1> QED  BY <1>1, <1>5, <1>6 DEF ExecutionInv

\* A reply, of whatever kind, settles its step and may report the rest.
LEMMA SettleKept ==
    ASSUME ExecutionInv, NEW i, NEW record, NEW failed \in BOOLEAN, Execution!Settle(i, record, failed),
           Recorded(record, r11, failed, r9),
           DOMAIN record = DOMAIN r10, \A j \in DOMAIN r10 : record[j].method = r10[j].method
    PROVE  ExecutionInv'
<1>1. /\ r10' = record /\ r8' = failed /\ r11' = r11
      /\ Execution!Complete(r9, record, failed)
      /\ r9 \in {"none", "success", "failure"}
  BY DEF Execution!Settle, ExecutionInv
<1>2. r6 = "settled" => Reported(record, r11, r12)
  BY DEF ExecutionInv, Reported
<1>3. /\ r6' \in {"booting", "executing", "settled"} /\ r7' \in BOOLEAN
      /\ r9' = r9
      /\ r9' # "none" => r7'
      /\ r6' = "settled" => Reported(record, r11, r12')
  BY <1>1, <1>2, CompleteKept
<1> QED  BY <1>1, <1>3 DEF ExecutionInv

LEMMA ReplyFailsKept ==
    ASSUME ExecutionInv, Execution!ReplyFails
    PROVE  ExecutionInv'
<1>1. PICK i \in Execution!Open :
        Execution!Settle(i, [r10 EXCEPT ![i].open = FALSE, ![i].error = TRUE],
                         r8 \/ r10[i].method \in Execution!Mutations)
  BY DEF Execution!ReplyFails
<1> DEFINE record == [r10 EXCEPT ![i].open = FALSE, ![i].error = TRUE]
           failed == r8 \/ r10[i].method \in Execution!Mutations
<1>2. Recorded(r10, r11, r8, r9) /\ i \in DOMAIN r10 /\ r8 \in BOOLEAN
  BY DEF ExecutionInv, Execution!Open
<1>3. DOMAIN r10[i] = StepFields
  BY <1>2 DEF Recorded, StepKnown
<1>4. /\ record = [j \in DOMAIN r10 |-> record[j]]
      /\ \A j \in DOMAIN r10 : j # i => record[j] = r10[j]
  OBVIOUS
<1>5. /\ DOMAIN record[i] = StepFields /\ record[i].method = r10[i].method /\ record[i].status = r10[i].status
      /\ record[i].dispatch = r10[i].dispatch /\ record[i].open = FALSE /\ record[i].error = TRUE
  BY <1>2, <1>3 DEF StepFields
<1>6. failed \in BOOLEAN
  BY <1>2
<1>7. r8 => failed
  OBVIOUS
<1>8. r10[i].method \in Execution!Mutations => failed
  OBVIOUS
<1> HIDE DEF record, failed
<1>9. IsSequence(record) /\ Len(record) = Len(r10) /\ DOMAIN record = DOMAIN r10
  BY <1>2, <1>4, Mapped DEF Recorded
<1>10. \A j \in DOMAIN r10 : StepKnown(r10[j], r11[j], r8, r9)
  BY <1>2 DEF Recorded
<1>11. StepKnown(record[i], r11[i], failed, r9)
  BY <1>2, <1>5, <1>7, <1>8, <1>10 DEF StepKnown
<1>12. \A j \in DOMAIN r10 : StepKnown(record[j], r11[j], failed, r9)
  BY <1>4, <1>7, <1>10, <1>11 DEF StepKnown
<1>13. Recorded(record, r11, failed, r9)
  BY <1>2, <1>9, <1>12 DEF Recorded
<1>14. \A j \in DOMAIN r10 : record[j].method = r10[j].method
  BY <1>4, <1>5
<1>15. Execution!Settle(i, record, failed)
  BY <1>1 DEF record, failed
<1> QED  BY <1>6, <1>9, <1>13, <1>14, <1>15, SettleKept

LEMMA ReplyKept ==
    ASSUME ExecutionInv, Execution!Reply
    PROVE  ExecutionInv'
<1>0. PICK i \in Execution!Open :
        LET known == r10[i].method \in {"perform", "watch"}
            status == IF known THEN r11[Execution!Subject(i)] ELSE ""
            named == {j \in DOMAIN r10 : known /\ j \in {i, Execution!Subject(i)}}
        IN Execution!Settle(i, [j \in DOMAIN r10 |->
                                  [r10[j] EXCEPT !.open = @ /\ j # i,
                                                 !.status = IF j \in named THEN status ELSE @,
                                                 !.dispatch = IF j = i /\ @ # "" THEN "acknowledged" ELSE @]],
                            r8 \/ status = "failed")
  BY DEF Execution!Reply
<1> DEFINE known == r10[i].method \in {"perform", "watch"}
           status == IF known THEN r11[Execution!Subject(i)] ELSE ""
           named == {j \in DOMAIN r10 : known /\ j \in {i, Execution!Subject(i)}}
<1> DEFINE record == [j \in DOMAIN r10 |->
                        [r10[j] EXCEPT !.open = @ /\ j # i,
                                       !.status = IF j \in named THEN status ELSE @,
                                       !.dispatch = IF j = i /\ @ # "" THEN "acknowledged" ELSE @]]
           failed == r8 \/ status = "failed"
<1> HIDE DEF status, named
<1>2. Recorded(r10, r11, r8, r9) /\ i \in DOMAIN r10 /\ r8 \in BOOLEAN
  BY DEF ExecutionInv, Execution!Open
<1>3. \A j \in DOMAIN r10 : StepKnown(r10[j], r11[j], r8, r9)
  BY <1>2 DEF Recorded
<1>4. record = [j \in DOMAIN r10 |-> record[j]]
  OBVIOUS
<1>5. ASSUME NEW j \in DOMAIN r10
      PROVE  /\ DOMAIN record[j] = StepFields /\ record[j].method = r10[j].method
             /\ record[j].error = r10[j].error
             /\ record[j].open = (r10[j].open /\ j # i)
             /\ record[j].status = IF j \in named THEN status ELSE r10[j].status
             /\ record[j].dispatch = IF j = i /\ r10[j].dispatch # "" THEN "acknowledged" ELSE r10[j].dispatch
  <2>1. DOMAIN r10[j] = StepFields
    BY <1>3 DEF StepKnown
  <2> QED  BY <2>1 DEF StepFields
<1>6. failed \in BOOLEAN /\ (r8 => failed) /\ (status = "failed" => failed)
  BY <1>2
<1>7. Execution!Settle(i, record, failed)
  BY <1>0 DEF status, named
<1> HIDE DEF record, failed
<1>8. ASSUME NEW j \in DOMAIN r10
      PROVE  StepKnown(record[j], r11[j], failed, r9)
  <2>1. StepKnown(r10[j], r11[j], r8, r9)
    BY <1>3
  <2>2. record[j].open \in BOOLEAN /\ record[j].error \in BOOLEAN
    BY <1>5, <2>1 DEF StepKnown
  <2> QED  BY <1>5, <1>6, <2>1, <2>2 DEF StepKnown
<1>9. IsSequence(record) /\ Len(record) = Len(r10) /\ DOMAIN record = DOMAIN r10
  BY <1>2, <1>4, Mapped DEF Recorded
<1>10. Recorded(record, r11, failed, r9)
  BY <1>2, <1>8, <1>9 DEF Recorded
<1>11. \A j \in DOMAIN r10 : record[j].method = r10[j].method
  BY <1>5
<1> QED  BY <1>6, <1>7, <1>9, <1>10, <1>11, SettleKept

LEMMA ExecutionStepKept ==
    ASSUME ExecutionInv, Execution!Next
    PROVE  ExecutionInv'
BY ChildKept, ParentReadsKept, EndsKept, HubKept, ReplyKept, ReplyFailsKept DEF Execution!Next

ExecutionHolds == component = "execution" => ExecutionInv

THEOREM ExecutionInvariance == ComponentsSpec => []ExecutionHolds
<1>1. ComponentsInit => ExecutionHolds
  BY ExecutionInitially DEF ComponentsInit, ExecutionHolds
<1>2. ASSUME ExecutionHolds, [ComponentsNext]_all
      PROVE  ExecutionHolds'
  <2>1. CASE ComponentsNext
    BY <1>2, <2>1, ExecutionStepKept DEF ComponentsNext, ExecutionHolds
  <2>2. CASE UNCHANGED all
    BY <1>2, <2>2 DEF all, registers, ExecutionHolds, ExecutionInv
  <2> QED  BY <1>2, <2>1, <2>2
<1> QED  BY <1>1, <1>2, PTL DEF ComponentsSpec

(***************************************************************************)
(* executor.ts and sdk-bridge.ts, for every limit of calls and mutations:  *)
(* the report of an execution names every mutation that went to the hub,   *)
(* and a success means that each of them was acknowledged and none is      *)
(* known to have failed, whatever the code did with its errors, whichever  *)
(* timer fired, whenever the child died and however late the hub answers.  *)
(***************************************************************************)
THEOREM ReportsAreComplete == ComponentsSpec => []ReportIsComplete
<1>1. ExecutionHolds => ReportIsComplete
  BY DEF ExecutionHolds, ExecutionInv, Recorded, Reported, ReportIsComplete, Execution!ReportIsComplete,
     Execution!MutationsOf
<1> QED  BY <1>1, ExecutionInvariance, PTL

(***************************************************************************)
(* LiveWiki.  Every entry of the caches and of a refresh is honest about   *)
(* its time, and stays so when the page is edited; and a question that has *)
(* been supplied with text neither refreshes its document again nor has it *)
(* replaced.                                                               *)
(***************************************************************************)
Entry == [rev : Nat, at : Nat]

Documents ==
    [rev : Nat, at : Nat, fresh : Live!Freshness, attempted : BOOLEAN, started : BOOLEAN, replacement : Entry]

Honest(now, rev, replacedAt, r, at) ==
    /\ r \in 1..rev /\ at \in 0..now
    /\ r = rev \/ replacedAt[r] >= at

Truthful(now, rev, replacedAt, entry) ==
    /\ entry \in Entry
    /\ entry = Live!NoEntry \/ Honest(now, rev, replacedAt, entry.rev, entry.at)

\* What a question has got of its refresh.
Refreshing(now, rev, replacedAt, where, got) ==
    /\ got \in Entry
    /\ where = "requested" => got.at <= now
    /\ where \in {"answered", "refreshed"} => Truthful(now, rev, replacedAt, got)

Shown(doc) == IF doc.replacement # Live!NoEntry THEN doc.replacement.rev ELSE doc.rev

\* What the question's document is, and what was supplied of it.
Supplied(now, rev, replacedAt, where, doc, supplied) ==
    /\ doc \in Documents
    /\ doc.fresh = "verified_at_retrieval" => Honest(now, rev, replacedAt, doc.rev, doc.at)
    /\ Truthful(now, rev, replacedAt, doc.replacement)
    /\ supplied \in SUBSET {Shown(doc)}
    /\ supplied # {} => doc.started \/ doc.replacement # Live!NoEntry \/ doc.fresh # "stale" \/ doc.attempted
    /\ where # "idle" => supplied = {} /\ doc.replacement = Live!NoEntry

LiveInv ==
    /\ r1 \in Nat /\ r2 \in Nat \ {0}
    /\ r3 \in [1..LiveRevisions -> Nat]
    /\ r2 <= LiveRevisions \/ r2 = 1
    /\ Truthful(r1, r2, r3, r4) /\ Truthful(r1, r2, r3, r5)
    /\ r7 \in [Questions -> {"idle", "lookup", "requested", "answered", "refreshed"}]
    /\ r8 \in [Questions -> Entry] /\ r9 \in [Questions -> Documents] /\ r10 \in [Questions -> SUBSET Nat]
    /\ \A q \in Questions : /\ Refreshing(r1, r2, r3, r7[q], r8[q])
                            /\ Supplied(r1, r2, r3, r7[q], r9[q], r10[q])

LEMMA OpenedSupplied ==
    ASSUME NEW f \in Live!Freshness \ {"verified_at_retrieval"}, NEW now, NEW rev, NEW replacedAt, NEW where
    PROVE  /\ Live!Opened(f) \in Documents
           /\ Supplied(now, rev, replacedAt, where, Live!Opened(f), {})
           /\ Refreshing(now, rev, replacedAt, "idle", Live!NoEntry)
           /\ Truthful(now, rev, replacedAt, Live!NoEntry)
           /\ Live!NoEntry \in Entry
<1>1. Live!NoEntry \in Entry
  BY DEF Live!NoEntry, Entry
<1>2. /\ Live!Opened(f).fresh = f /\ Live!Opened(f).replacement = Live!NoEntry
      /\ Live!Opened(f) \in Documents
  BY <1>1 DEF Live!Opened, Documents, Live!Freshness
<1> QED  BY <1>1, <1>2 DEF Supplied, Refreshing, Truthful

LEMMA LiveInitially == Live!Init => LiveInv
<1> SUFFICES ASSUME Live!Init
             PROVE  LiveInv
  OBVIOUS
<1>1. "stale" \in Live!Freshness \ {"verified_at_retrieval"}
  BY DEF Live!Freshness
<1>2. /\ r1 = 1 /\ r2 = 1 /\ r3 = [r \in 1..LiveRevisions |-> 0]
      /\ r4 = Live!NoEntry /\ r5 = Live!NoEntry
      /\ r7 = [q \in Questions |-> "idle"] /\ r8 = [q \in Questions |-> Live!NoEntry]
      /\ r10 = [q \in Questions |-> {}]
      /\ r9 \in [Questions -> {Live!Opened(f) : f \in Live!Freshness \ {"verified_at_retrieval"}}]
  BY DEF Live!Init
<1>3. \A q \in Questions : /\ Refreshing(r1, r2, r3, r7[q], r8[q]) /\ Supplied(r1, r2, r3, r7[q], r9[q], r10[q])
                           /\ r9[q] \in Documents /\ r8[q] \in Entry
  BY <1>1, <1>2, OpenedSupplied
<1> QED  BY <1>1, <1>2, <1>3, OpenedSupplied DEF LiveInv

\* Honesty does not pass: what is of its time is so later and after an edit.
LEMMA StillHonest ==
    ASSUME LiveInv,
           \/ r1' \in Nat /\ r1' >= r1 /\ r2' = r2 /\ r3' = r3
           \/ r1' = r1 /\ r2 < LiveRevisions /\ r2' = r2 + 1 /\ r3' = [r3 EXCEPT ![r2] = r1]
    PROVE  /\ \A r, at : Honest(r1, r2, r3, r, at) => Honest(r1', r2', r3', r, at)
           /\ \A e : Truthful(r1, r2, r3, e) => Truthful(r1', r2', r3', e)
           /\ r1' \in Nat /\ r2' \in Nat \ {0} /\ r1' >= r1
           /\ r3' \in [1..LiveRevisions -> Nat]
           /\ r2' <= LiveRevisions \/ r2' = 1
<1>1. /\ r1 \in Nat /\ r2 \in Nat \ {0} /\ r3 \in [1..LiveRevisions -> Nat] /\ LiveRevisions \in Nat
      /\ r2 <= LiveRevisions \/ r2 = 1
  BY ComponentConstants DEF LiveInv, Live!LiveBounds
<1>2. CASE r1' \in Nat /\ r1' >= r1 /\ r2' = r2 /\ r3' = r3
  BY <1>1, <1>2 DEF Honest, Truthful
<1>3. CASE r1' = r1 /\ r2 < LiveRevisions /\ r2' = r2 + 1 /\ r3' = [r3 EXCEPT ![r2] = r1]
  <2>1. /\ r3' \in [1..LiveRevisions -> Nat] /\ r3'[r2] = r1
        /\ \A r \in 1..LiveRevisions : r # r2 => r3'[r] = r3[r]
    BY <1>1, <1>3
  <2>2. \A r, at : Honest(r1, r2, r3, r, at) => Honest(r1', r2', r3', r, at)
    BY <1>1, <1>3, <2>1 DEF Honest
  <2>3. \A e : Truthful(r1, r2, r3, e) => Truthful(r1', r2', r3', e)
    BY <2>2 DEF Truthful
  <2>4. r1' \in Nat /\ r2' \in Nat \ {0} /\ r1' >= r1 /\ r2' <= LiveRevisions
    BY <1>1, <1>3
  <2> QED  BY <2>1, <2>2, <2>3, <2>4
<1> QED  BY <1>2, <1>3

LEMMA LivePageKept ==
    ASSUME LiveInv, Live!Tick \/ Live!Edited
    PROVE  LiveInv'
<1>1. /\ \/ r1' \in Nat /\ r1' >= r1 /\ r2' = r2 /\ r3' = r3
         \/ r1' = r1 /\ r2 < LiveRevisions /\ r2' = r2 + 1 /\ r3' = [r3 EXCEPT ![r2] = r1]
      /\ UNCHANGED <<r4, r5, r7, r8, r9, r10>>
  BY DEF Live!Tick, Live!Edited, Live!source, LiveInv
<1>2. /\ \A r, at : Honest(r1, r2, r3, r, at) => Honest(r1', r2', r3', r, at)
      /\ \A e : Truthful(r1, r2, r3, e) => Truthful(r1', r2', r3', e)
      /\ r1' \in Nat /\ r2' \in Nat \ {0} /\ r1' >= r1
      /\ r3' \in [1..LiveRevisions -> Nat]
      /\ r2' <= LiveRevisions \/ r2' = 1
  BY <1>1, StillHonest
<1>3. \A q \in Questions : Refreshing(r1', r2', r3', r7[q], r8[q])
  BY <1>2 DEF LiveInv, Refreshing, Entry
<1>4. \A q \in Questions : Supplied(r1', r2', r3', r7[q], r9[q], r10[q])
  BY <1>2 DEF LiveInv, Supplied
<1> QED  BY <1>1, <1>2, <1>3, <1>4 DEF LiveInv

LEMMA LiveRestartKept ==
    ASSUME LiveInv, Live!Restart
    PROVE  LiveInv'
<1>1. "stale" \in Live!Freshness \ {"verified_at_retrieval"}
  BY DEF Live!Freshness
<1>2. /\ UNCHANGED <<r1, r2, r3>> /\ r5' = Live!NoEntry /\ r4' \in {r4, Live!NoEntry}
      /\ r7' = [q \in Questions |-> "idle"] /\ r8' = [q \in Questions |-> Live!NoEntry]
      /\ r9' = [q \in Questions |-> Live!Opened("stale")] /\ r10' = [q \in Questions |-> {}]
  BY DEF Live!Restart, Live!page
<1>3. \A q \in Questions : /\ Refreshing(r1, r2, r3, r7'[q], r8'[q]) /\ Supplied(r1, r2, r3, r7'[q], r9'[q], r10'[q])
                           /\ r9'[q] \in Documents /\ r8'[q] \in Entry
  BY <1>1, <1>2, OpenedSupplied
<1> QED  BY <1>1, <1>2, <1>3, OpenedSupplied DEF LiveInv

\* A step of one question, in the source or in its reads.
LEMMA QuestionMoves ==
    ASSUME LiveInv, NEW q \in Questions, UNCHANGED <<r1, r2, r3>>,
           Truthful(r1, r2, r3, r4'), Truthful(r1, r2, r3, r5'),
           NEW where \in {"idle", "lookup", "requested", "answered", "refreshed"}, r7' = [r7 EXCEPT ![q] = where],
           NEW got, r8' = [r8 EXCEPT ![q] = got],
           NEW doc, r9' = [r9 EXCEPT ![q] = doc],
           NEW supplied \in SUBSET Nat, r10' = [r10 EXCEPT ![q] = supplied],
           Refreshing(r1, r2, r3, where, got), Supplied(r1, r2, r3, where, doc, supplied)
    PROVE  LiveInv'
<1>1. got \in Entry /\ doc \in Documents
  BY DEF Refreshing, Supplied
<1>2. /\ r7' \in [Questions -> {"idle", "lookup", "requested", "answered", "refreshed"}]
      /\ r8' \in [Questions -> Entry] /\ r9' \in [Questions -> Documents] /\ r10' \in [Questions -> SUBSET Nat]
  BY <1>1 DEF LiveInv
<1>3. \A x \in Questions : /\ r7'[x] = IF x = q THEN where ELSE r7[x]
                           /\ r8'[x] = IF x = q THEN got ELSE r8[x]
                           /\ r9'[x] = IF x = q THEN doc ELSE r9[x]
                           /\ r10'[x] = IF x = q THEN supplied ELSE r10[x]
  BY DEF LiveInv
<1>4. \A x \in Questions : /\ Refreshing(r1, r2, r3, r7'[x], r8'[x])
                           /\ Supplied(r1, r2, r3, r7'[x], r9'[x], r10'[x])
  BY <1>3 DEF LiveInv
<1> QED  BY <1>2, <1>4 DEF LiveInv

\* LiveGSWikiSource.read: what it hands back, from either cache or from the
\* wiki, is of the time it says.
LEMMA SourceKept ==
    ASSUME LiveInv, NEW q \in Questions,
           \/ Live!CacheHit(q) \/ Live!RateLimited(q) \/ Live!Requested(q) \/ Live!RequestFails(q)
           \/ Live!Answered(q) \/ Live!Written(q)
    PROVE  LiveInv'
<1> USE DEF Live!Goto
<1>1. /\ UNCHANGED <<r1, r2, r3, r9, r10>>
      /\ r1 \in Nat /\ r2 \in Nat \ {0}
      /\ Truthful(r1, r2, r3, r4) /\ Truthful(r1, r2, r3, r5)
      /\ r9 = [r9 EXCEPT ![q] = r9[q]] /\ r10 = [r10 EXCEPT ![q] = r10[q]] /\ r10[q] \in SUBSET Nat
      /\ Refreshing(r1, r2, r3, r7[q], r8[q]) /\ Supplied(r1, r2, r3, r7[q], r9[q], r10[q])
      /\ r7[q] \in {"lookup", "requested", "answered"}
  BY DEF Live!CacheHit, Live!RateLimited, Live!Requested, Live!RequestFails, Live!Answered, Live!Written,
     Live!page, LiveInv
<1>2. \A where : Supplied(r1, r2, r3, where, r9[q], r10[q])
  BY <1>1 DEF Supplied
<1>3. Live!NoEntry \in Entry /\ Truthful(r1, r2, r3, Live!NoEntry)
  BY DEF Live!NoEntry, Entry, Truthful
<1>4. CASE Live!CacheHit(q)
  <2>1. Truthful(r1, r2, r3, Live!Cached)
    BY <1>1 DEF Live!Cached
  <2>2. r4' = r4 /\ r5' = r5 /\ r7' = [r7 EXCEPT ![q] = "refreshed"] /\ r8' = [r8 EXCEPT ![q] = Live!Cached]
    BY <1>4 DEF Live!CacheHit, Live!Found, Live!source
  <2>3. Refreshing(r1, r2, r3, "refreshed", Live!Cached)
    BY <2>1 DEF Refreshing, Truthful
  <2> QED  BY <1>1, <1>2, <2>2, <2>3, QuestionMoves
<1>5. CASE Live!RateLimited(q) \/ Live!RequestFails(q)
  <2>1. r4' = r4 /\ r5' = r5 /\ r7' = [r7 EXCEPT ![q] = "refreshed"] /\ r8' = [r8 EXCEPT ![q] = Live!NoEntry]
    BY <1>5 DEF Live!RateLimited, Live!RequestFails, Live!Found, Live!source
  <2>2. Refreshing(r1, r2, r3, "refreshed", Live!NoEntry)
    BY <1>3 DEF Refreshing
  <2> QED  BY <1>1, <1>2, <2>1, <2>2, QuestionMoves
<1>6. CASE Live!Requested(q)
  <2> DEFINE asked == [rev |-> 0, at |-> r1]
  <2>1. r4' = r4 /\ r5' = r5 /\ r7' = [r7 EXCEPT ![q] = "requested"] /\ r8' = [r8 EXCEPT ![q] = asked]
    BY <1>6 DEF Live!Requested, Live!Found
  <2>2. Refreshing(r1, r2, r3, "requested", asked)
    BY <1>1 DEF Refreshing, Entry
  <2> HIDE DEF asked
  <2> QED  BY <1>1, <1>2, <2>1, <2>2, QuestionMoves
<1>7. CASE Live!Answered(q)
  <2> DEFINE answer == [r8[q] EXCEPT !.rev = r2]
  <2>1. r4' = r4 /\ r5' = r5 /\ r7' = [r7 EXCEPT ![q] = "answered"] /\ r8' = [r8 EXCEPT ![q] = answer]
    BY <1>7 DEF Live!Answered, Live!Found, Live!source
  <2>2. r8[q] \in Entry /\ r8[q].at <= r1
    BY <1>1, <1>7 DEF Live!Answered, Refreshing
  <2>3. answer \in Entry /\ answer.rev = r2 /\ answer.at = r8[q].at
    BY <1>1, <2>2 DEF Entry
  <2> HIDE DEF answer
  <2>4. Refreshing(r1, r2, r3, "answered", answer)
    BY <1>1, <2>2, <2>3 DEF Refreshing, Truthful, Honest, Entry
  <2> QED  BY <1>1, <1>2, <2>1, <2>4, QuestionMoves
<1>8. CASE Live!Written(q)
  <2>1. /\ r5' = r8[q] /\ r4' \in {r4, r8[q]} /\ r7' = [r7 EXCEPT ![q] = "refreshed"]
        /\ r8' = r8 /\ r8 = [r8 EXCEPT ![q] = r8[q]]
        /\ Truthful(r1, r2, r3, r8[q])
    BY <1>1, <1>8 DEF Live!Written, Refreshing, LiveInv
  <2>2. Refreshing(r1, r2, r3, "refreshed", r8[q])
    BY <2>1 DEF Refreshing, Truthful
  <2> QED  BY <1>1, <1>2, <2>1, <2>2, QuestionMoves
<1> QED  BY <1>4, <1>5, <1>6, <1>7, <1>8

\* ResearchSession.read: a handle supplies one revision, whatever its refresh
\* brings, and a document is verified or replaced with what is honest.
LEMMA ReaderKept ==
    ASSUME LiveInv, NEW q \in Questions,
           Live!StartRefresh(q) \/ Live!ReadOffline(q) \/ Live!Refreshed(q) \/ Live!Read(q)
    PROVE  LiveInv'
<1> USE DEF Live!Goto
<1>1. /\ UNCHANGED <<r1, r2, r3, r4, r5>>
      /\ r1 \in Nat /\ r2 \in Nat \ {0}
      /\ Truthful(r1, r2, r3, r4) /\ Truthful(r1, r2, r3, r5)
      /\ r9[q] \in Documents /\ r10[q] \in SUBSET Nat /\ r8[q] \in Entry
      /\ Refreshing(r1, r2, r3, r7[q], r8[q]) /\ Supplied(r1, r2, r3, r7[q], r9[q], r10[q])
  BY DEF Live!StartRefresh, Live!ReadOffline, Live!Refreshed, Live!Read, Live!page, Live!source, LiveInv
<1>2. /\ r9 = [r9 EXCEPT ![q] = r9[q]] /\ r10 = [r10 EXCEPT ![q] = r10[q]] /\ r8 = [r8 EXCEPT ![q] = r8[q]]
      /\ r10[q] \in SUBSET {Shown(r9[q])}
      /\ r9[q].replacement \in Entry /\ r9[q].rev \in Nat
  BY <1>1 DEF LiveInv, Supplied, Documents
<1>3. Live!NoEntry \in Entry /\ Truthful(r1, r2, r3, Live!NoEntry)
  BY DEF Live!NoEntry, Entry, Truthful
<1>4. /\ Refreshing(r1, r2, r3, "idle", Live!NoEntry)
      /\ Refreshing(r1, r2, r3, "idle", r8[q]) /\ Refreshing(r1, r2, r3, "lookup", r8[q])
  BY <1>1, <1>3 DEF Refreshing
<1>5. Shown(r9[q]) \in Nat
  BY <1>2 DEF Shown, Entry
<1>6. CASE Live!StartRefresh(q)
  <2> DEFINE doc == [r9[q] EXCEPT !.attempted = TRUE]
  <2>1. /\ r8' = r8 /\ r10' = r10 /\ r7' = [r7 EXCEPT ![q] = "lookup"] /\ r9' = [r9 EXCEPT ![q] = doc]
        /\ r7[q] = "idle" /\ Live!NeedsRefresh(q)
    BY <1>6 DEF Live!StartRefresh, LiveInv
  <2>2. /\ doc \in Documents /\ doc.fresh = r9[q].fresh /\ doc.replacement = r9[q].replacement
        /\ doc.rev = r9[q].rev /\ doc.at = r9[q].at /\ doc.attempted = TRUE
    BY <1>1 DEF Documents
  <2> HIDE DEF doc
  <2>3. r10[q] = {} /\ doc.replacement = Live!NoEntry
    BY <1>1, <2>1, <2>2 DEF Live!NeedsRefresh, Live!Replaced, Supplied
  <2>4. Supplied(r1, r2, r3, "lookup", doc, r10[q])
    BY <1>1, <2>2, <2>3 DEF Supplied
  <2> QED  BY <1>1, <1>2, <1>4, <2>1, <2>4, QuestionMoves
<1>7. CASE Live!ReadOffline(q)
  <2> DEFINE doc == [r9[q] EXCEPT !.attempted = TRUE, !.started = TRUE]
             supplied == r10[q] \cup {r9[q].rev}
  <2>1. /\ r8' = r8 /\ r10' = [r10 EXCEPT ![q] = supplied] /\ r7' = [r7 EXCEPT ![q] = "idle"]
        /\ r9' = [r9 EXCEPT ![q] = doc]
        /\ Live!NeedsRefresh(q)
    BY <1>7 DEF Live!ReadOffline, Live!Supply, LiveInv
  <2>2. /\ doc \in Documents /\ doc.fresh = r9[q].fresh /\ doc.replacement = r9[q].replacement
        /\ doc.rev = r9[q].rev /\ doc.at = r9[q].at /\ doc.attempted = TRUE
    BY <1>1 DEF Documents
  <2> HIDE DEF doc
  <2>3. doc.replacement = Live!NoEntry /\ Shown(doc) = r9[q].rev /\ Shown(r9[q]) = r9[q].rev
    BY <2>1, <2>2 DEF Live!NeedsRefresh, Live!Replaced, Shown
  <2>4. supplied \in SUBSET {Shown(doc)} /\ supplied \in SUBSET Nat
    BY <1>2, <2>3
  <2> HIDE DEF supplied
  <2>5. Supplied(r1, r2, r3, "idle", doc, supplied)
    BY <1>1, <2>2, <2>3, <2>4 DEF Supplied
  <2> QED  BY <1>1, <1>2, <1>4, <2>1, <2>4, <2>5, QuestionMoves
<1>8. CASE Live!Refreshed(q)
  <2> DEFINE f == r8[q]
  <2>1. /\ r7[q] = "refreshed" /\ r8' = [r8 EXCEPT ![q] = Live!NoEntry] /\ Truthful(r1, r2, r3, f)
        /\ r10[q] = {} /\ r9[q].replacement = Live!NoEntry
    BY <1>1, <1>8 DEF Live!Refreshed, Refreshing, Supplied
  <2>2. CASE f = Live!NoEntry
    <3> DEFINE doc == [r9[q] EXCEPT !.started = TRUE]
               supplied == r10[q] \cup {r9[q].rev}
    <3>1. /\ r10' = [r10 EXCEPT ![q] = supplied] /\ r7' = [r7 EXCEPT ![q] = "idle"]
          /\ r9' = [r9 EXCEPT ![q] = doc]
      BY <1>8, <2>2 DEF Live!Refreshed, Live!Supply, LiveInv
    <3>2. /\ doc \in Documents /\ doc.fresh = r9[q].fresh /\ doc.replacement = r9[q].replacement
          /\ doc.rev = r9[q].rev /\ doc.at = r9[q].at /\ doc.started = TRUE
      BY <1>1 DEF Documents
    <3> HIDE DEF doc
    <3>3. supplied \in SUBSET {Shown(doc)} /\ supplied \in SUBSET Nat
      BY <1>2, <2>1, <3>2 DEF Shown
    <3> HIDE DEF supplied
    <3>4. Supplied(r1, r2, r3, "idle", doc, supplied)
      BY <1>1, <3>2, <3>3 DEF Supplied
    <3> QED  BY <1>1, <1>4, <2>1, <3>1, <3>3, <3>4, QuestionMoves
  <2>3. CASE f # Live!NoEntry /\ f.rev # r9[q].rev
    <3> DEFINE doc == [r9[q] EXCEPT !.replacement = f]
               supplied == r10[q] \cup {f.rev}
    <3>1. /\ r10' = [r10 EXCEPT ![q] = supplied] /\ r7' = [r7 EXCEPT ![q] = "idle"]
          /\ r9' = [r9 EXCEPT ![q] = doc]
      BY <1>8, <2>3 DEF Live!Refreshed, Live!Supply, LiveInv
    <3>2. /\ doc \in Documents /\ doc.fresh = r9[q].fresh /\ doc.replacement = f
          /\ doc.rev = r9[q].rev /\ doc.at = r9[q].at
      BY <1>1 DEF Documents
    <3> HIDE DEF doc
    <3>3. supplied \in SUBSET {Shown(doc)} /\ supplied \in SUBSET Nat
      BY <1>1, <2>1, <2>3, <3>2 DEF Shown, Entry
    <3> HIDE DEF supplied
    <3>4. Supplied(r1, r2, r3, "idle", doc, supplied)
      BY <1>1, <2>1, <2>3, <3>2, <3>3 DEF Supplied
    <3> QED  BY <1>1, <1>4, <2>1, <3>1, <3>3, <3>4, QuestionMoves
  <2>4. CASE f # Live!NoEntry /\ f.rev = r9[q].rev
    <3> DEFINE doc == [r9[q] EXCEPT !.fresh = "verified_at_retrieval", !.at = f.at, !.started = TRUE]
               supplied == r10[q] \cup {f.rev}
    <3>1. /\ r10' = [r10 EXCEPT ![q] = supplied] /\ r7' = [r7 EXCEPT ![q] = "idle"]
          /\ r9' = [r9 EXCEPT ![q] = doc]
      BY <1>8, <2>4 DEF Live!Refreshed, Live!Supply, LiveInv
    <3>2. f.at \in Nat
      BY <1>1 DEF Entry
    <3>3. /\ doc \in Documents /\ doc.replacement = r9[q].replacement
          /\ doc.rev = r9[q].rev /\ doc.at = f.at /\ doc.started = TRUE
      BY <1>1, <3>2 DEF Documents, Live!Freshness
    <3> HIDE DEF doc
    <3>4. supplied \in SUBSET {Shown(doc)} /\ supplied \in SUBSET Nat
      BY <1>2, <2>1, <2>4, <3>3 DEF Shown
    <3> HIDE DEF supplied
    <3>5. Honest(r1, r2, r3, doc.rev, doc.at)
      BY <2>1, <2>4, <3>3 DEF Truthful
    <3>6. Supplied(r1, r2, r3, "idle", doc, supplied)
      BY <1>1, <3>3, <3>4, <3>5 DEF Supplied
    <3> QED  BY <1>1, <1>4, <2>1, <3>1, <3>4, <3>6, QuestionMoves
  <2> QED  BY <2>2, <2>3, <2>4
<1>9. CASE Live!Read(q)
  <2> DEFINE supplied == r10[q] \cup {Shown(r9[q])}
  <2>1. /\ r7[q] = "idle" /\ ~Live!NeedsRefresh(q) /\ r8' = r8
    BY <1>9 DEF Live!Read
  <2>2. supplied \in SUBSET {Shown(r9[q])} /\ supplied \in SUBSET Nat
    BY <1>2, <1>5
  <2>3. CASE Live!Replaced(q)
    <3>1. /\ r9' = r9 /\ r10' = [r10 EXCEPT ![q] = supplied] /\ r7' = [r7 EXCEPT ![q] = "idle"]
      BY <1>9, <2>3 DEF Live!Read, Live!Supply, Live!Replaced, Shown, LiveInv
    <3> HIDE DEF supplied
    <3>2. Supplied(r1, r2, r3, "idle", r9[q], supplied)
      BY <1>1, <2>1, <2>2, <2>3 DEF Supplied, Live!Replaced
    <3> QED  BY <1>1, <1>2, <1>4, <2>1, <2>2, <3>1, <3>2, QuestionMoves
  <2>4. CASE ~Live!Replaced(q)
    <3> DEFINE doc == [r9[q] EXCEPT !.started = TRUE]
    <3>1. /\ r9' = [r9 EXCEPT ![q] = doc] /\ r10' = [r10 EXCEPT ![q] = supplied] /\ r7' = [r7 EXCEPT ![q] = "idle"]
      BY <1>9, <2>4 DEF Live!Read, Live!Supply, Live!Replaced, Shown, LiveInv
    <3>2. /\ doc \in Documents /\ doc.fresh = r9[q].fresh /\ doc.replacement = r9[q].replacement
          /\ doc.rev = r9[q].rev /\ doc.at = r9[q].at /\ doc.started = TRUE
      BY <1>1 DEF Documents
    <3> HIDE DEF doc, supplied
    <3>3. supplied \in SUBSET {Shown(doc)}
      BY <2>2, <3>2 DEF Shown
    <3>4. Supplied(r1, r2, r3, "idle", doc, supplied)
      BY <1>1, <3>2, <3>3 DEF Supplied
    <3> QED  BY <1>1, <1>2, <1>4, <2>1, <2>2, <3>1, <3>4, QuestionMoves
  <2> QED  BY <2>3, <2>4
<1> QED  BY <1>6, <1>7, <1>8, <1>9

LEMMA LiveStepKept ==
    ASSUME LiveInv, Live!Next
    PROVE  LiveInv'
BY SourceKept, ReaderKept, LivePageKept, LiveRestartKept DEF Live!Next

LiveHolds == component = "live" => LiveInv

THEOREM LiveInvariance == ComponentsSpec => []LiveHolds
<1>1. ComponentsInit => LiveHolds
  BY LiveInitially DEF ComponentsInit, LiveHolds
<1>2. ASSUME LiveHolds, [ComponentsNext]_all
      PROVE  LiveHolds'
  <2>1. CASE ComponentsNext
    BY <1>2, <2>1, LiveStepKept DEF ComponentsNext, LiveHolds
  <2>2. CASE UNCHANGED all
    BY <1>2, <2>2 DEF all, registers, LiveHolds, LiveInv
  <2> QED  BY <1>2, <2>1, <2>2
<1> QED  BY <1>1, <1>2, PTL DEF ComponentsSpec

(***************************************************************************)
(* LiveGSWikiSource and ResearchSession.read, for every set of questions   *)
(* and every TTL: a handle never mixes revisions, and what is said to be   *)
(* verified, or has replaced a document, was the wiki's page at the time   *)
(* named or later, through both caches, their races and restarts.          *)
(***************************************************************************)
THEOREM LiveReadsAreHonest == ComponentsSpec => []ReadsAreHonest
<1>1. ASSUME LiveInv PROVE Live!ReadsAreHonest
  <2>1. ASSUME NEW q \in Questions
        PROVE  /\ Cardinality(r10[q]) <= 1
               /\ (r9[q].fresh = "verified_at_retrieval" => Live!HonestAt(r9[q].rev, r9[q].at))
               /\ (Live!Replaced(q) => Live!HonestAt(r9[q].replacement.rev, r9[q].replacement.at))
    <3>1. Supplied(r1, r2, r3, r7[q], r9[q], r10[q])
      BY <1>1 DEF LiveInv
    <3>2. r10[q] = {} \/ r10[q] = {Shown(r9[q])}
      BY <3>1 DEF Supplied
    <3>3. Cardinality({}) = 0 /\ Cardinality({Shown(r9[q])}) = 1
      BY FS_EmptySet, FS_Singleton
    <3>4. Cardinality(r10[q]) <= 1
      BY <3>2, <3>3
    <3> QED  BY <3>1, <3>4 DEF Supplied, Truthful, Honest, Live!HonestAt, Live!Replaced
  <2> QED  BY <2>1 DEF Live!ReadsAreHonest, Live!Cardinality, Cardinality
<1>2. LiveHolds => ReadsAreHonest
  BY <1>1 DEF LiveHolds, ReadsAreHonest
<1> QED  BY <1>2, LiveInvariance, PTL

-----------------------------------------------------------------------------
(* ItemAudit.  A diagnostic that was not answered yet is still among the   *)
(* steps ahead, so that none is missing when they are all done; and what   *)
(* cleanup places goes to the origin or to a place that is safe.           *)

Ahead(s) == {s[i] : i \in DOMAIN s}

AuditSteps == Audit!Methods \cup {"take", "restore"}
AuditCommands == [name : Audit!Commands \cup {""}, status : {"none", "pending", "sent", "completed", "failed"}]

AuditInv ==
    /\ r4 \in Seq(AuditSteps) /\ r5 \in AuditCommands
    /\ r10 \notin {"bind", "ended"} => r3 \in Audit!Owned
    /\ r10 \in {"step", "wait", "look"} => Audit!Methods \subseteq r7 \cup Ahead(r4)
    /\ r10 \in {"wait", "look"} => r4 # <<>>
    /\ r10 \in {"placing", "placed"} => r5.name \in {r3} \cup Safest

\* The first step is done: the others are still ahead.
LEMMA TailIsAhead ==
    ASSUME NEW S, NEW s \in Seq(S), s # <<>>
    PROVE  /\ Tail(s) \in Seq(S) /\ Head(s) \in S
           /\ Ahead(s) \subseteq {Head(s)} \cup Ahead(Tail(s))
<1>1. /\ Tail(s) \in Seq(S) /\ Head(s) = s[1] /\ Head(s) \in S
      /\ Len(Tail(s)) = Len(s) - 1 /\ Len(s) \in Nat /\ Len(s) # 0
      /\ DOMAIN s = 1..Len(s) /\ DOMAIN Tail(s) = 1..(Len(s) - 1)
  OBVIOUS
<1>2. ASSUME NEW i \in 1..Len(s), i # 1
      PROVE  i - 1 \in DOMAIN Tail(s) /\ Tail(s)[i - 1] = s[i]
  BY <1>1, <1>2
<1>3. ASSUME NEW i \in 1..Len(s)
      PROVE  s[i] \in {Head(s)} \cup Ahead(Tail(s))
  <2>1. CASE i = 1
    BY <1>1, <2>1
  <2>2. CASE i # 1
    BY <1>2, <2>2 DEF Ahead
  <2> QED  BY <2>1, <2>2
<1> QED  BY <1>1, <1>3 DEF Ahead

LEMMA BothAreAhead ==
    ASSUME NEW S, NEW s \in Seq(S), NEW t \in Seq(S)
    PROVE  /\ s \o t \in Seq(S)
           /\ Ahead(s) \cup Ahead(t) \subseteq Ahead(s \o t)
<1>1. /\ s \o t \in Seq(S) /\ Len(s) \in Nat /\ Len(t) \in Nat
      /\ DOMAIN s = 1..Len(s) /\ DOMAIN t = 1..Len(t)
      /\ DOMAIN (s \o t) = 1..(Len(s) + Len(t))
  OBVIOUS
<1>2. ASSUME NEW i \in 1..Len(s)
      PROVE  i \in DOMAIN (s \o t) /\ (s \o t)[i] = s[i]
  BY <1>1
<1>3. ASSUME NEW i \in 1..Len(t)
      PROVE  Len(s) + i \in DOMAIN (s \o t) /\ (s \o t)[Len(s) + i] = t[i]
  BY <1>1
<1>4. \A i \in DOMAIN s : s[i] \in Ahead(s \o t)
  BY <1>1, <1>2 DEF Ahead
<1>5. \A i \in DOMAIN t : t[i] \in Ahead(s \o t)
  BY <1>1, <1>3 DEF Ahead
<1> QED  BY <1>1, <1>4, <1>5 DEF Ahead

\* The plan of an audit has all of its diagnostics ahead.
LEMMA PlanIsWhole ==
    ASSUME NEW todo,
           todo = PlainMethods \o (IF SpellMethods = <<>> THEN <<>> ELSE <<"take">> \o SpellMethods)
                      \o <<"restore">>
    PROVE  todo \in Seq(AuditSteps) /\ Audit!Methods \subseteq Ahead(todo)
<1> DEFINE spells == IF SpellMethods = <<>> THEN <<>> ELSE <<"take">> \o SpellMethods
<1>1. /\ PlainMethods \in Seq(AuditSteps) /\ SpellMethods \in Seq(AuditSteps)
      /\ <<"take">> \in Seq(AuditSteps) /\ <<"restore">> \in Seq(AuditSteps)
  BY ComponentConstants DEF Audit!AuditConstants, AuditSteps
<1>2. spells \in Seq(AuditSteps) /\ Ahead(SpellMethods) \subseteq Ahead(spells)
  <2>1. CASE SpellMethods = <<>>
    BY <2>1
  <2>2. CASE SpellMethods # <<>>
    BY <1>1, <2>2, BothAreAhead
  <2> QED  BY <2>1, <2>2
<1> HIDE DEF spells
<1>4. PlainMethods \o spells \in Seq(AuditSteps)
      /\ Ahead(PlainMethods) \cup Ahead(spells) \subseteq Ahead(PlainMethods \o spells)
  BY <1>1, <1>2, BothAreAhead
<1>5. (PlainMethods \o spells) \o <<"restore">> \in Seq(AuditSteps)
      /\ Ahead(PlainMethods \o spells) \subseteq Ahead((PlainMethods \o spells) \o <<"restore">>)
  BY <1>1, <1>4, BothAreAhead
<1>6. todo = (PlainMethods \o spells) \o <<"restore">>
  BY DEF spells
<1>7. Audit!Methods \subseteq Ahead(PlainMethods) \cup Ahead(SpellMethods)
  BY DEF Audit!Methods, Ahead
<1> QED  BY <1>2, <1>4, <1>5, <1>6, <1>7

LEMMA NoCommandIsOne == Audit!NoCommand \in AuditCommands
BY DEF Audit!NoCommand, AuditCommands

LEMMA AuditInitially == Audit!Init => AuditInv
<1>1. <<>> \in Seq(AuditSteps)
  OBVIOUS
<1> QED  BY <1>1, NoCommandIsOne DEF Audit!Init, AuditInv

LEMMA BindKept ==
    ASSUME AuditInv, Audit!Bind
    PROVE  AuditInv'
<1>1. /\ r10 = "bind" /\ r5' = r5 /\ r7' = r7
      /\ \/ r10' = "ended" /\ r4' = r4
         \/ /\ r10' = "step" /\ r3' \in Audit!Owned
            /\ r4' = PlainMethods \o (IF SpellMethods = <<>> THEN <<>> ELSE <<"take">> \o SpellMethods)
                         \o <<"restore">>
  BY DEF Audit!Bind, Audit!Bound, Audit!game, Audit!plan
<1>2. r10' = "step" => r4' \in Seq(AuditSteps) /\ Audit!Methods \subseteq Ahead(r4')
  BY <1>1, PlanIsWhole
<1> QED  BY <1>1, <1>2 DEF AuditInv

\* What the audit submits is a command of the item.
LEMMA SubmittedIsKnown ==
    ASSUME NEW step \in AuditSteps, r3 \in Audit!Owned
    PROVE  Audit!CommandFor(step) \in Audit!Commands
BY DEF AuditSteps, Audit!CommandFor, Audit!Commands

\* A step that is left out is none of the diagnostics.
LEMMA StepKept ==
    ASSUME AuditInv, Audit!Step
    PROVE  AuditInv'
<1>1. /\ r10 = "step" /\ r4 # <<>> /\ r3' = r3 /\ r7' = r7 /\ r3 \in Audit!Owned
      /\ \/ r10' = "clean" /\ r4' = r4 /\ r5' = r5
         \/ Audit!Needless(Head(r4)) /\ r4' = Tail(r4) /\ r5' = r5 /\ r10' = r10
         \/ Audit!Submit(Audit!CommandFor(Head(r4))) /\ r10' = "wait" /\ r4' = r4
  BY DEF Audit!Step, Audit!Abort, Audit!game, AuditInv
<1>2. /\ Tail(r4) \in Seq(AuditSteps) /\ Head(r4) \in AuditSteps
      /\ Ahead(r4) \subseteq {Head(r4)} \cup Ahead(Tail(r4))
  BY <1>1, TailIsAhead DEF AuditInv
<1>3. CASE r10' = "clean" /\ r4' = r4 /\ r5' = r5
  BY <1>1, <1>3 DEF AuditInv
<1>4. CASE Audit!Needless(Head(r4)) /\ r4' = Tail(r4) /\ r5' = r5 /\ r10' = r10
  <2>1. Head(r4) \notin Audit!Methods
    BY <1>4, ComponentConstants DEF Audit!Needless, Audit!AuditConstants
  <2>2. Audit!Methods \subseteq r7 \cup Ahead(Tail(r4))
    BY <1>1, <1>2, <2>1 DEF AuditInv
  <2> QED  BY <1>1, <1>2, <1>4, <2>2 DEF AuditInv
<1>5. CASE Audit!Submit(Audit!CommandFor(Head(r4))) /\ r10' = "wait" /\ r4' = r4
  <2>1. r5' \in AuditCommands
    BY <1>1, <1>2, <1>5, SubmittedIsKnown DEF Audit!Submit, AuditCommands
  <2> QED  BY <1>1, <1>5, <2>1 DEF AuditInv
<1> QED  BY <1>1, <1>3, <1>4, <1>5

\* A look goes on past a diagnostic only when the game has answered it.
LEMMA LookKept ==
    ASSUME AuditInv, Audit!Look
    PROVE  AuditInv'
<1>1. /\ r10 = "look" /\ r4 # <<>> /\ r3' = r3 /\ r7' = r7 /\ r3 \in Audit!Owned
      /\ r5' = Audit!NoCommand
      /\ \/ r10' = "clean" /\ r4' = r4
         \/ /\ r10' = "step" /\ r4' = Tail(r4)
            /\ Head(r4) \in {"take", "restore"} \/ Head(r4) \in r7
  BY DEF Audit!Look, Audit!Abort, Audit!Answered, Audit!game, AuditInv
<1>2. /\ Tail(r4) \in Seq(AuditSteps) /\ Head(r4) \in AuditSteps
      /\ Ahead(r4) \subseteq {Head(r4)} \cup Ahead(Tail(r4))
  BY <1>1, TailIsAhead DEF AuditInv
<1>3. r5' \in AuditCommands
  BY <1>1, NoCommandIsOne
<1>4. CASE r10' = "clean" /\ r4' = r4
  BY <1>1, <1>3, <1>4 DEF AuditInv
<1>5. CASE /\ r10' = "step" /\ r4' = Tail(r4)
           /\ Head(r4) \in {"take", "restore"} \/ Head(r4) \in r7
  <2>1. Head(r4) \notin Audit!Methods \/ Head(r4) \in r7
    BY <1>5, ComponentConstants DEF Audit!AuditConstants
  <2>2. Audit!Methods \subseteq r7 \cup Ahead(Tail(r4))
    BY <1>1, <1>2, <2>1 DEF AuditInv
  <2> QED  BY <1>1, <1>2, <1>3, <1>5, <2>2 DEF AuditInv
<1> QED  BY <1>1, <1>4, <1>5

LEMMA WaitKept ==
    ASSUME AuditInv, Audit!Wait \/ Audit!Finish
    PROVE  AuditInv'
<1>1. CASE Audit!Wait
  <2>1. r5' = r5 \/ r5' = Audit!NoCommand
    BY <1>1 DEF Audit!Wait
  <2> QED  BY <1>1, <2>1, NoCommandIsOne DEF AuditInv, Audit!Wait, Audit!game, Audit!plan
<1>2. CASE Audit!Finish
  BY <1>2 DEF AuditInv, Audit!Finish, Audit!Abort, Audit!game
<1> QED  BY <1>1, <1>2

\* The place of a cleanup exists and is the origin or safe.
LEMMA TargetIsSafe ==
    ASSUME NEW known \in BOOLEAN, r3 \in Audit!Owned
    PROVE  Audit!Target(known) \in ({r3} \cup Safest) \cap Audit!Owned
<1>1. /\ Audit!Candidates(known) \subseteq {"pack", "hand", "chest"} /\ r3 \in Audit!Candidates(known)
      /\ Audit!Candidates(known) \subseteq ({r3} \cup Safest) \cap Audit!Owned
  BY DEF Audit!Candidates, Audit!Owned
<1>2. Audit!Rank["pack"] = 1 /\ Audit!Rank["hand"] = 0 /\ Audit!Rank["chest"] = 2
  BY DEF Audit!Rank
<1>3. \E p \in Audit!Candidates(known) : \A q \in Audit!Candidates(known) : Audit!Rank[q] <= Audit!Rank[p]
  BY <1>1, <1>2
<1> HIDE DEF Audit!Candidates
<1>4. Audit!Target(known) \in Audit!Candidates(known)
  BY <1>3 DEF Audit!Target
<1> QED  BY <1>1, <1>4

LEMMA CleanupKept ==
    ASSUME AuditInv, Audit!Clean \/ Audit!Placing \/ Audit!Placed
    PROVE  AuditInv'
<1>1. CASE Audit!Clean
  <2>1. PICK known \in BOOLEAN :
            \/ r10' = "ended" /\ r5' = r5
            \/ Audit!Submit(Audit!Target(known)) /\ r10' = "placing"
    BY <1>1 DEF Audit!Clean, Audit!Ended
  <2>2. r10 = "clean" /\ r3 \in Audit!Owned /\ r3' = r3 /\ r4' = r4
    BY <1>1 DEF AuditInv, Audit!Clean, Audit!plan
  <2>3. Audit!Target(known) \in ({r3} \cup Safest) \cap Audit!Owned
    BY <2>2, TargetIsSafe
  <2>4. CASE r10' = "ended" /\ r5' = r5
    BY <2>2, <2>4 DEF AuditInv
  <2>5. CASE Audit!Submit(Audit!Target(known)) /\ r10' = "placing"
    <3>1. r5' \in AuditCommands /\ r5'.name = Audit!Target(known)
      BY <2>3, <2>5 DEF Audit!Submit, AuditCommands, Audit!Commands
    <3> QED  BY <2>2, <2>3, <2>5, <3>1 DEF AuditInv
  <2> QED  BY <2>1, <2>4, <2>5
<1>2. CASE Audit!Placing
  BY <1>2 DEF AuditInv, Audit!Placing, Audit!game, Audit!plan
<1>3. CASE Audit!Placed
  BY <1>3 DEF AuditInv, Audit!Placed, Audit!Ended, Audit!plan
<1> QED  BY <1>1, <1>2, <1>3

\* The bridge and the game change no plan; what was answered stays answered.
LEMMA BridgeKeepsAudit ==
    ASSUME AuditInv,
           Audit!Carried \/ Audit!Acknowledged \/ Audit!CarriedLate
           \/ Audit!PlayerMoves \/ Audit!SessionReplaced \/ Audit!Stopped
    PROVE  AuditInv'
<1>1. /\ r3' = r3 /\ r4' = r4 /\ r10' = r10 /\ r7 \subseteq r7'
  BY DEF Audit!Carried, Audit!Acknowledged, Audit!CarriedLate, Audit!PlayerMoves,
     Audit!SessionReplaced, Audit!Stopped, Audit!Effect, Audit!worker, Audit!plan, Audit!game
<1>2. r5' = r5 \/ \E s \in {"sent", "completed", "failed"} : r5' = [r5 EXCEPT !.status = s]
  BY DEF Audit!Carried, Audit!Acknowledged, Audit!CarriedLate, Audit!PlayerMoves,
     Audit!SessionReplaced, Audit!Stopped
<1>3. r5' \in AuditCommands /\ r5'.name = r5.name
  BY <1>2 DEF AuditInv, AuditCommands
<1> QED  BY <1>1, <1>3 DEF AuditInv

LEMMA AuditStepKept ==
    ASSUME AuditInv, Audit!Next
    PROVE  AuditInv'
BY BindKept, StepKept, LookKept, WaitKept, CleanupKept, BridgeKeepsAudit DEF Audit!Next, Audit!AuditStep

AuditHolds == component = "audit" => AuditInv

THEOREM AuditInvariance == ComponentsSpec => []AuditHolds
<1>1. ComponentsInit => AuditHolds
  BY AuditInitially DEF ComponentsInit, AuditHolds
<1>2. ASSUME AuditHolds, [ComponentsNext]_all
      PROVE  AuditHolds'
  <2>1. CASE ComponentsNext
    BY <1>2, <2>1, AuditStepKept DEF ComponentsNext, AuditHolds
  <2>2. CASE UNCHANGED all
    BY <1>2, <2>2 DEF all, registers, AuditHolds, AuditInv
  <2> QED  BY <1>2, <2>1, <2>2
<1> QED  BY <1>1, <1>2, PTL DEF ComponentsSpec

(***************************************************************************)
(* _execute_item_audit, for all diagnostics, safe places and restore       *)
(* commands: success means that every diagnostic was answered and the item *)
(* is home; an alert of the cleanup says what is true of the item, or why  *)
(* nothing was done for it, whatever stops, is late or is moved meanwhile. *)
(***************************************************************************)
THEOREM AuditsEndTruthfully == ComponentsSpec => AuditEndsTruthfully
<1>1. ASSUME AuditInv, Audit!Next
      PROVE  Audit!EndsTruthfully
  <2>1. ASSUME r10' = "succeeded", r10 # r10'
        PROVE  r1' = r3 /\ Audit!Methods \subseteq r7
    <3>1. Audit!Finish
      BY <1>1, <2>1 DEF Audit!Next, Audit!AuditStep, Audit!Bind, Audit!Step, Audit!Wait, Audit!Look,
         Audit!Clean, Audit!Placing, Audit!Placed, Audit!Ended, Audit!Abort, Audit!Carried,
         Audit!Acknowledged, Audit!CarriedLate, Audit!PlayerMoves, Audit!SessionReplaced,
         Audit!Stopped, Audit!worker
    <3>2. r10 = "step" /\ r4 = <<>> /\ r1 = r3 /\ r1' = r1
      BY <2>1, <3>1 DEF Audit!Finish, Audit!Abort, Audit!game
    <3>3. Ahead(r4) = {}
      BY <3>2 DEF Ahead
    <3> QED  BY <1>1, <3>2, <3>3 DEF AuditInv
  <2>2. ASSUME r10 = "clean", r10' = "ended"
        PROVE  \/ r11' = "retained" /\ (r1 = r3 \/ r1 \in Safest)
               \/ r11' = "no command" /\ r9 = "timed_out"
               \/ r11' = "blocked" /\ (~Audit!Bound \/ r3 \notin Restorable \/ ~(Safest \subseteq Restorable))
    <3>1. Audit!Clean
      BY <1>1, <2>2 DEF Audit!Next, Audit!AuditStep, Audit!Bind, Audit!Step, Audit!Wait, Audit!Look,
         Audit!Finish, Audit!Placing, Audit!Placed, Audit!Carried,
         Audit!Acknowledged, Audit!CarriedLate, Audit!PlayerMoves, Audit!SessionReplaced,
         Audit!Stopped, Audit!worker
    <3>2. PICK known \in BOOLEAN :
              \/ ~Audit!Bound /\ r11' = "blocked"
              \/ (r1 = r3 \/ r1 = Audit!Target(known)) /\ r11' = "retained"
              \/ r9 = "timed_out" /\ r11' = "no command"
              \/ Audit!Target(known) \notin Restorable /\ r11' = "blocked"
      BY <2>2, <3>1 DEF Audit!Clean, Audit!Ended
    <3>3. Audit!Target(known) \in {r3} \cup Safest
      BY <1>1, <2>2, TargetIsSafe DEF AuditInv
    <3> QED  BY <3>2, <3>3
  <2>3. ASSUME r11' = "secured", r11 # r11'
        PROVE  r1' \in {r3} \cup Safest
    <3>1. Audit!Placed
      BY <1>1, <2>3 DEF Audit!Next, Audit!AuditStep, Audit!Bind, Audit!Step, Audit!Wait, Audit!Look,
         Audit!Finish, Audit!Clean, Audit!Placing, Audit!Ended, Audit!Abort, Audit!Carried,
         Audit!Acknowledged, Audit!CarriedLate, Audit!PlayerMoves, Audit!SessionReplaced,
         Audit!Stopped, Audit!worker
    <3>2. r10 = "placed" /\ r1' = r1 /\ r1 = r5.name
      BY <2>3, <3>1 DEF Audit!Placed, Audit!Ended, Audit!game
    <3> QED  BY <1>1, <3>2 DEF AuditInv
  <2> QED  BY <2>1, <2>2, <2>3 DEF Audit!EndsTruthfully
<1>2. ASSUME AuditHolds, [ComponentsNext]_all
      PROVE  [component = "audit" => Audit!EndsTruthfully]_all
  BY <1>1, <1>2 DEF ComponentsNext, AuditHolds
<1> QED  BY <1>2, AuditInvariance, PTL DEF ComponentsSpec, AuditEndsTruthfully

-----------------------------------------------------------------------------
(* SemanticRanking.  The lock belongs to the question that is in a call,   *)
(* so that what is missing and available is of its windows; and its bodies *)
(* are its hits since they were read.                                      *)

Points == {"search", "read", "score", "scored"} \cup Ranking!InCall \cup Ranking!Ends

Ranked(where, hit, body, score, missing, available) ==
    /\ where \in Points
    /\ where \in {"score", "scored", "ranked"} \cup Ranking!InCall => body = hit
    /\ where = "encode" => Ranking!ToSet(missing) \cup available = Ranking!WindowsOf(body)
    /\ where \in {"scored", "ranked"} => score = Ranking!WindowsOf(hit)

Over(f, S) == f = [x \in S |-> f[x]]

RankingInv ==
    /\ Over(r2, Questions) /\ Over(r3, Questions) /\ Over(r4, Questions) /\ Over(r10, Questions)
    /\ r5 \in Questions \cup {""}
    /\ \A q \in Questions : r5 = q <=> r4[q] \in Ranking!InCall
    /\ \A q \in Questions : Ranked(r4[q], r2[q], r3[q], r10[q], r8, r9)
    /\ IsSequence(r7) /\ Len(r7) <= CacheSize /\ IsSequence(r8)

LEMMA Upto ==
    ASSUME NEW n \in Nat
    PROVE  IsFiniteSet(1..n) /\ Cardinality(1..n) = n
<1>1. /\ IsFiniteSet(1..n)
      /\ Cardinality(1..n) = IF 1 > n THEN 0 ELSE n - 1 + 1
  BY FS_Interval, 1 \in Int, n \in Int
<1> QED  BY <1>1

LEMMA RankingCardinality == \A S : Ranking!Cardinality(S) = Cardinality(S)
BY DEF Ranking!Cardinality, Cardinality

\* SetToSeq lists a finite set, each element once.
LEMMA ListedOnce ==
    ASSUME NEW S, IsFiniteSet(S)
    PROVE  /\ Ranking!SetToSeq(S) \in Seq(S)
           /\ Len(Ranking!SetToSeq(S)) = Cardinality(S) /\ Cardinality(S) \in Nat
           /\ Ranking!ToSet(Ranking!SetToSeq(S)) = S
<1> DEFINE n == Cardinality(S)
           s == Ranking!SetToSeq(S)
<1>1. n \in Nat /\ ExistsBijection(1..n, S)
  BY FS_CardinalityType
<1>2. \E g \in [1..n -> S] : \A a, b \in DOMAIN g : g[a] = g[b] => a = b
  BY <1>1 DEF ExistsBijection, Bijection, Injection, IsInjective
<1>3. s \in [1..n -> S] /\ \A a, b \in DOMAIN s : s[a] = s[b] => a = b
  BY <1>2 DEF Ranking!SetToSeq, Ranking!Cardinality, Cardinality, Ranking!IsInjective
<1>4. s \in Injection(1..n, S)
  BY <1>3 DEF Injection, IsInjective
<1>5. IsFiniteSet(1..n) /\ Cardinality(1..n) = n
  BY <1>1, Upto
<1> HIDE DEF n, s
<1>6. s \in Surjection(1..n, S)
  BY <1>4, <1>5, FS_Injection DEF n
<1>7. Ranking!ToSet(s) = S
  BY <1>3, <1>6 DEF Ranking!ToSet, Surjection
<1>8. s \in Seq(S) /\ Len(s) = n
  BY <1>1, <1>3
<1> QED  BY <1>1, <1>7, <1>8 DEF n, s

LEMMA SequencesAre ==
    ASSUME NEW A, NEW s \in Seq(A)
    PROVE  IsSequence(s)
<1> DEFINE B == {s[i] : i \in DOMAIN s}
<1>1. Len(s) \in Nat /\ DOMAIN s = 1..Len(s) /\ s = [i \in 1..Len(s) |-> s[i]]
  OBVIOUS
<1>2. \A i \in 1..Len(s) : s[i] \in B
  BY <1>1
<1> HIDE DEF B
<1>3. s \in [1..Len(s) -> B]
  BY <1>1, <1>2
<1>4. s \in Seq(B)
  BY <1>1, <1>3
<1> QED  BY <1>4 DEF IsSequence, B

LEMMA Joined ==
    ASSUME NEW s, NEW t, IsSequence(s), IsSequence(t)
    PROVE  IsSequence(s \o t) /\ Len(s \o t) = Len(s) + Len(t) /\ Len(s) \in Nat /\ Len(t) \in Nat
           /\ Ranking!ToSet(s \o t) = Ranking!ToSet(s) \cup Ranking!ToSet(t)
<1> DEFINE A == {s[i] : i \in DOMAIN s}
           B == {t[i] : i \in DOMAIN t}
<1>1. s \in Seq(A) /\ t \in Seq(B)
  BY DEF IsSequence
<1> HIDE DEF A, B
<1>2. s \in Seq(A \cup B) /\ t \in Seq(A \cup B)
  BY <1>1
<1>3. /\ s \o t \in Seq(A \cup B) /\ Len(s \o t) = Len(s) + Len(t) /\ Len(s) \in Nat /\ Len(t) \in Nat
      /\ DOMAIN (s \o t) = 1..(Len(s) + Len(t)) /\ DOMAIN s = 1..Len(s) /\ DOMAIN t = 1..Len(t)
  BY <1>2
<1>4. /\ \A i \in 1..Len(s) : (s \o t)[i] = s[i]
      /\ \A i \in 1..Len(t) : (s \o t)[Len(s) + i] = t[i]
      /\ \A i \in 1..(Len(s) + Len(t)) : i \notin 1..Len(s) => i - Len(s) \in 1..Len(t) /\ (s \o t)[i] = t[i - Len(s)]
  BY <1>2, <1>3
<1>5. Ranking!ToSet(s \o t) \subseteq Ranking!ToSet(s) \cup Ranking!ToSet(t)
  BY <1>3, <1>4 DEF Ranking!ToSet
<1>6. Ranking!ToSet(s) \subseteq Ranking!ToSet(s \o t)
  <2>1. \A i \in DOMAIN s : i \in DOMAIN (s \o t) /\ s[i] = (s \o t)[i]
    BY <1>3, <1>4
  <2> QED  BY <2>1 DEF Ranking!ToSet
<1>7. Ranking!ToSet(t) \subseteq Ranking!ToSet(s \o t)
  <2>1. \A i \in DOMAIN t : Len(s) + i \in DOMAIN (s \o t) /\ t[i] = (s \o t)[Len(s) + i]
    BY <1>3, <1>4
  <2> QED  BY <2>1 DEF Ranking!ToSet
<1>8. IsSequence(s \o t)
  BY <1>3, SequencesAre
<1> QED  BY <1>3, <1>5, <1>6, <1>7, <1>8

LEMMA PartLength ==
    ASSUME NEW A, NEW s \in Seq(A), NEW n \in Nat, NEW m \in Nat, n <= m
    PROVE  Len(SubSeq(s, n + 1, m)) = m - n
OBVIOUS

\* What follows the first n entries.
LEMMA Cut ==
    ASSUME NEW s, IsSequence(s), NEW n \in Nat, n <= Len(s)
    PROVE  LET first == SubSeq(s, 1, n)
               rest == SubSeq(s, n + 1, Len(s))
           IN  /\ IsSequence(first) /\ Len(first) = n
               /\ IsSequence(rest) /\ Len(rest) = Len(s) - n
               /\ Ranking!ToSet(s) = Ranking!ToSet(first) \cup Ranking!ToSet(rest)
<1> DEFINE A == {s[i] : i \in DOMAIN s}
           first == SubSeq(s, 1, n)
           rest == SubSeq(s, n + 1, Len(s))
<1>1. s \in Seq(A)
  BY DEF IsSequence
<1> HIDE DEF A
<1>2. Len(s) \in Nat /\ DOMAIN s = 1..Len(s)
  BY <1>1
<1>3. /\ first \in Seq(A) /\ Len(first) = n /\ DOMAIN first = 1..n
      /\ \A i \in 1..n : first[i] = s[i]
  BY <1>1, <1>2
<1>4. /\ rest \in Seq(A) /\ Len(rest) = Len(s) - n /\ DOMAIN rest = 1..(Len(s) - n)
      /\ \A i \in 1..(Len(s) - n) : rest[i] = s[n + i]
  <2>1. rest \in Seq(A)
    BY <1>1, <1>2
  <2>2. Len(rest) = Len(s) - n
    BY <1>1, <1>2, PartLength
  <2>3. \A i \in 1..(Len(s) - n) : rest[i] = s[n + i]
    BY <1>1, <1>2
  <2> QED  BY <2>1, <2>2, <2>3
<1> HIDE DEF first, rest
<1>5. \A i \in 1..Len(s) : i \notin 1..n => i - n \in 1..(Len(s) - n) /\ rest[i - n] = s[i]
  BY <1>2, <1>4
<1>6. Ranking!ToSet(s) \subseteq Ranking!ToSet(first) \cup Ranking!ToSet(rest)
  BY <1>2, <1>3, <1>4, <1>5 DEF Ranking!ToSet
<1>7. Ranking!ToSet(first) \subseteq Ranking!ToSet(s)
  <2>1. \A i \in DOMAIN first : i \in DOMAIN s /\ first[i] = s[i]
    BY <1>2, <1>3
  <2> QED  BY <2>1 DEF Ranking!ToSet
<1>8. Ranking!ToSet(rest) \subseteq Ranking!ToSet(s)
  <2>1. \A i \in DOMAIN rest : n + i \in DOMAIN s /\ rest[i] = s[n + i]
    BY <1>2, <1>4
  <2> QED  BY <2>1 DEF Ranking!ToSet
<1>9. IsSequence(first) /\ IsSequence(rest)
  BY <1>3, <1>4, SequencesAre
<1> QED  BY <1>3, <1>4, <1>6, <1>7, <1>8, <1>9 DEF first, rest

\* What is moved to the end of the cache was in it: it does not grow.
LEMMA MovingKeepsLength ==
    ASSUME NEW s, IsSequence(s), NEW W
    PROVE  /\ IsSequence(Ranking!Without(s, W)) /\ IsFiniteSet(W \cap Ranking!ToSet(s))
           /\ Len(Ranking!Without(s, W)) + Cardinality(W \cap Ranking!ToSet(s)) <= Len(s)
<1> DEFINE kept == {i \in DOMAIN s : s[i] \notin W}
           moved == DOMAIN s \ kept
           hit == W \cap Ranking!ToSet(s)
<1>1. Len(s) \in Nat /\ DOMAIN s = 1..Len(s)
  BY DEF IsSequence
<1>2. IsFiniteSet(DOMAIN s) /\ Cardinality(DOMAIN s) = Len(s)
  <2>1. IsFiniteSet(1..Len(s)) /\ Cardinality(1..Len(s)) = Len(s)
    BY <1>1, Upto
  <2> QED  BY <1>1, <2>1
<1>3. /\ IsFiniteSet(kept) /\ IsFiniteSet(moved)
      /\ Cardinality(moved) = Len(s) - Cardinality(kept)
  <2>1. IsFiniteSet(kept)
    BY <1>2, FS_Subset
  <2>2. IsFiniteSet(moved) /\ Cardinality(moved) = Cardinality(DOMAIN s) - Cardinality(DOMAIN s \cap kept)
    BY <1>2, FS_Difference
  <2>3. DOMAIN s \cap kept = kept
    OBVIOUS
  <2> QED  BY <1>2, <2>1, <2>2, <2>3
<1>4. Cardinality(kept) \in Nat /\ Cardinality(moved) \in Nat
  BY <1>3, FS_CardinalityType
<1>5. IsFiniteSet(hit) /\ Cardinality(hit) <= Cardinality(moved)
  <2> DEFINE f == [i \in moved |-> s[i]]
  <2>1. f \in [moved -> hit]
    BY DEF Ranking!ToSet
  <2>2. \A w \in hit : \E i \in moved : f[i] = w
    BY DEF Ranking!ToSet
  <2> HIDE DEF f, hit, moved
  <2>3. f \in Surjection(moved, hit)
    BY <2>1, <2>2 DEF Surjection
  <2> QED  BY <1>3, <2>3, FS_Surjection
<1>6. Cardinality(hit) \in Nat
  BY <1>5, FS_CardinalityType
<1> DEFINE r == Ranking!Without(s, W)
           n == Cardinality(kept)
<1>7. r = [k \in 1..n |-> r[k]]
  BY DEF Ranking!Without, Ranking!Cardinality, Cardinality
<1> HIDE DEF r, kept, moved, hit, n
<1>8. n \in Nat /\ n + Cardinality(hit) <= Len(s)
  BY <1>1, <1>3, <1>4, <1>5, <1>6 DEF n
<1>9. r \in Seq({r[k] : k \in 1..n}) /\ Len(r) = n
  BY <1>7, <1>8
<1>10. IsSequence(r)
  BY <1>9, SequencesAre
<1> QED  BY <1>5, <1>8, <1>9, <1>10 DEF r, hit

\* The windows of finitely many pages are finitely many.
LEMMA WindowsAreFinite ==
    ASSUME NEW versions
    PROVE  IsFiniteSet(Ranking!WindowsOf(versions))
<1> DEFINE WindowsOn(p) == {<<p, v, i>> : v \in 1..PageVersions, i \in 1..Pieces[p]}
<1>1. IsFiniteSet(Pages) /\ PageVersions \in Nat /\ Pieces \in [Pages -> Nat]
  BY ComponentConstants DEF Ranking!RankingConstants, Ranking!IsFiniteSet, IsFiniteSet
<1>2. ASSUME NEW p \in Pages
      PROVE  IsFiniteSet(WindowsOn(p))
  <2> DEFINE pairs == (1..PageVersions) \X (1..Pieces[p])
             f == [x \in pairs |-> <<p, x[1], x[2]>>]
  <2>1. IsFiniteSet(1..PageVersions) /\ IsFiniteSet(1..Pieces[p])
    BY <1>1, Upto
  <2>2. IsFiniteSet(pairs)
    BY <2>1, FS_Product
  <2>3. f \in [pairs -> WindowsOn(p)]
    OBVIOUS
  <2>4. ASSUME NEW w \in WindowsOn(p)
        PROVE  \E x \in pairs : f[x] = w
    <3>1. PICK v \in 1..PageVersions, i \in 1..Pieces[p] : w = <<p, v, i>>
      OBVIOUS
    <3>2. <<v, i>> \in pairs /\ f[<<v, i>>] = w
      BY <3>1
    <3> QED  BY <3>2
  <2> HIDE DEF f, pairs, WindowsOn
  <2>5. f \in Surjection(pairs, WindowsOn(p))
    BY <2>3, <2>4 DEF Surjection
  <2> QED  BY <2>2, <2>5, FS_Surjection
<1> DEFINE each == {WindowsOn(p) : p \in Pages}
           g == [p \in Pages |-> WindowsOn(p)]
<1>3. g \in [Pages -> each] /\ \A w \in each : \E p \in Pages : g[p] = w
  BY DEF g
<1>4. \A w \in each : IsFiniteSet(w)
  BY <1>2
<1>5. Ranking!Window = UNION each
  BY DEF Ranking!Window
<1> HIDE DEF each, g, WindowsOn
<1>6. IsFiniteSet(each)
  BY <1>1, <1>3, FS_Surjection DEF Surjection
<1>7. IsFiniteSet(Ranking!Window)
  BY <1>4, <1>5, <1>6, FS_UNION
<1>8. Ranking!WindowsOf(versions) \in SUBSET Ranking!Window
  BY DEF Ranking!WindowsOf
<1> QED  BY <1>7, <1>8, FS_Subset

LEMMA RankingInitially == Ranking!Init => RankingInv
<1> SUFFICES ASSUME Ranking!Init
             PROVE  RankingInv
  OBVIOUS
<1>1. IsSequence(<<>>) /\ Len(<<>>) = 0
  BY DEF IsSequence
<1>2. CacheSize \in Nat /\ "" \notin Questions
  BY ComponentConstants DEF Ranking!RankingConstants
<1>3. \A q \in Questions : r4[q] = "search"
  BY DEF Ranking!Init
<1>4. /\ Over(r2, Questions) /\ Over(r3, Questions) /\ Over(r4, Questions) /\ Over(r10, Questions)
      /\ r5 = "" /\ r7 = <<>> /\ r8 = <<>>
  BY DEF Ranking!Init, Over
<1>5. \A q \in Questions : Ranked(r4[q], r2[q], r3[q], r10[q], r8, r9)
  BY <1>3 DEF Ranked, Points, Ranking!InCall
<1>6. \A q \in Questions : r5 = q <=> r4[q] \in Ranking!InCall
  BY <1>2, <1>3, <1>4 DEF Ranking!InCall
<1>7. IsSequence(r7) /\ Len(r7) <= CacheSize /\ IsSequence(r8)
  <2>1. Len(<<>>) <= CacheSize
    <3>1. CacheSize \in Nat
      BY ComponentConstants DEF Ranking!RankingConstants
    <3>2. 0 <= CacheSize
      BY <3>1
    <3> QED  BY <1>1, <3>2
  <2>2. r7 = <<>> /\ r8 = <<>>
    BY <1>4
  <2> QED  BY <1>1, <2>1, <2>2, Zenon
<1>8. r5 \in Questions \cup {""}
  BY <1>4
<1> QED  BY <1>4, <1>5, <1>6, <1>7, <1>8 DEF RankingInv

\* A step of one question leaves the others where they are: only the holder
\* of the lock changes what is missing and available.
RanksOne(q, where, hit, body, score) ==
    /\ r4' = [r4 EXCEPT ![q] = where] /\ r2' = [r2 EXCEPT ![q] = hit]
    /\ r3' = [r3 EXCEPT ![q] = body] /\ r10' = [r10 EXCEPT ![q] = score]
    /\ Ranked(where, hit, body, score, r8', r9')
    /\ r5' = r5 \/ (r5 = "" /\ r5' = q) \/ (r5 = q /\ r5' = "")
    /\ r5' = q <=> where \in Ranking!InCall
    /\ (r8' = r8 /\ r9' = r9) \/ r5 = q
    /\ IsSequence(r7') /\ Len(r7') <= CacheSize /\ IsSequence(r8')

LEMMA OneRanks ==
    ASSUME RankingInv, NEW q \in Questions, NEW where, NEW hit, NEW body, NEW score,
           RanksOne(q, where, hit, body, score)
    PROVE  RankingInv'
<1>1. "" \notin Questions
  BY ComponentConstants DEF Ranking!RankingConstants
<1>2. Over(r2', Questions) /\ Over(r3', Questions) /\ Over(r4', Questions) /\ Over(r10', Questions)
  BY DEF RanksOne, RankingInv, Over
<1>3. r4'[q] = where /\ r2'[q] = hit /\ r3'[q] = body /\ r10'[q] = score
  BY DEF RanksOne, RankingInv, Over
<1>4. \A p \in Questions \ {q} : r4'[p] = r4[p] /\ r2'[p] = r2[p] /\ r3'[p] = r3[p] /\ r10'[p] = r10[p]
  BY DEF RanksOne, RankingInv, Over
<1>5. r5' \in Questions \cup {""}
  BY DEF RanksOne, RankingInv
<1>6. \A p \in Questions \ {q} : r5' = p <=> r5 = p
  BY <1>1 DEF RanksOne
<1>7. ASSUME NEW p \in Questions
      PROVE  r5' = p <=> r4'[p] \in Ranking!InCall
  <2>1. CASE p = q
    BY <1>3, <2>1 DEF RanksOne
  <2>2. CASE p # q
    <3>1. r5 = p <=> r4[p] \in Ranking!InCall
      BY DEF RankingInv
    <3> QED  BY <1>4, <1>6, <2>2, <3>1
  <2> QED  BY <2>1, <2>2
<1>8. ASSUME NEW p \in Questions \ {q}
      PROVE  Ranked(r4[p], r2[p], r3[p], r10[p], r8', r9')
  <2>1. Ranked(r4[p], r2[p], r3[p], r10[p], r8, r9)
    BY DEF RankingInv
  <2>2. CASE r8' = r8 /\ r9' = r9
    BY <2>1, <2>2, Zenon
  <2>3. CASE r5 = q
    <3>1. r4[p] # "encode"
      BY <2>3 DEF RankingInv, Ranking!InCall
    <3> QED  BY <2>1, <3>1 DEF Ranked
  <2> QED  BY <2>2, <2>3 DEF RanksOne
<1>9. \A p \in Questions : Ranked(r4'[p], r2'[p], r3'[p], r10'[p], r8', r9')
  <2>1. Ranked(r4'[q], r2'[q], r3'[q], r10'[q], r8', r9')
    BY <1>3 DEF RanksOne
  <2> QED  BY <1>4, <1>8, <2>1
<1> QED  BY <1>2, <1>5, <1>7, <1>9 DEF RankingInv, RanksOne

\* What a step of a question leaves alone.
LEMMA Unchanged ==
    ASSUME RankingInv, NEW q \in Questions
    PROVE  /\ r2' = r2 => r2' = [r2 EXCEPT ![q] = r2[q]]
           /\ r3' = r3 => r3' = [r3 EXCEPT ![q] = r3[q]]
           /\ r10' = r10 => r10' = [r10 EXCEPT ![q] = r10[q]]
           /\ r7' = r7 => IsSequence(r7') /\ Len(r7') <= CacheSize
           /\ r8' = r8 => IsSequence(r8')
           /\ IsSequence(r7) /\ Len(r7) <= CacheSize /\ IsSequence(r8)
           /\ Ranked(r4[q], r2[q], r3[q], r10[q], r8, r9)
           /\ (r5 = q <=> r4[q] \in Ranking!InCall)
BY DEF RankingInv, Over

LEMMA SearchingKept ==
    ASSUME RankingInv, NEW q \in Questions, Ranking!Search(q)
    PROVE  RankingInv'
<1>0. PICK found \in SUBSET Pages :
          /\ r2' = [r2 EXCEPT ![q] = [p \in Pages |-> IF p \in found THEN r1[p] ELSE 0]]
          /\ r4' = [r4 EXCEPT ![q] = IF found = {} THEN "lexical" ELSE "read"]
  BY DEF Ranking!Search, Ranking!Goto
<1> DEFINE hit == [p \in Pages |-> IF p \in found THEN r1[p] ELSE 0]
           where == IF found = {} THEN "lexical" ELSE "read"
<1>1. /\ where \in {"lexical", "read"} /\ r4' = [r4 EXCEPT ![q] = where]
      /\ r2' = [r2 EXCEPT ![q] = hit]
  BY <1>0
<1> HIDE DEF hit, where
<1>2. /\ r4[q] = "search" /\ r3' = r3 /\ r5' = r5 /\ r7' = r7 /\ r8' = r8 /\ r9' = r9 /\ r10' = r10
  BY DEF Ranking!Search, Ranking!reranker
<1>3. Ranked(where, hit, r3[q], r10[q], r8, r9)
  BY <1>1 DEF Ranked, Points, Ranking!Ends, Ranking!InCall
<1>4. r5 # q /\ where \notin Ranking!InCall
  BY <1>1, <1>2, Unchanged DEF Ranking!InCall
<1>20. RanksOne(q, where, hit, r3[q], r10[q])
  BY <1>1, <1>2, <1>3, <1>4, Unchanged DEF RanksOne
<1> QED  BY <1>20, OneRanks

LEMMA ReadBodiesKept ==
    ASSUME RankingInv, NEW q \in Questions, Ranking!ReadBodies(q)
    PROVE  RankingInv'
<1> DEFINE body == Ranking!Bodies(q)
<1>1. PICK where : /\ where \in {"cancelled", "lexical"} \/ (where = "score" /\ body = r2[q])
                   /\ r4' = [r4 EXCEPT ![q] = where]
  <2> DEFINE where == CASE q \in r11 -> "cancelled" [] body = r2[q] -> "score" [] OTHER -> "lexical"
  <2>1. r4' = [r4 EXCEPT ![q] = where]
    BY DEF Ranking!ReadBodies, Ranking!Goto
  <2>2. where \in {"cancelled", "lexical"} \/ (where = "score" /\ body = r2[q])
    <3> HIDE DEF body
    <3> QED  OBVIOUS
  <2> QED  BY <2>1, <2>2
<1>2. /\ r4[q] = "read" /\ r3' = [r3 EXCEPT ![q] = body] /\ r2' = r2
      /\ r5' = r5 /\ r7' = r7 /\ r8' = r8 /\ r9' = r9 /\ r10' = r10
  BY DEF Ranking!ReadBodies, Ranking!reranker
<1> HIDE DEF body
<1>3. Ranked(where, r2[q], body, r10[q], r8, r9)
  BY <1>1 DEF Ranked, Points, Ranking!Ends, Ranking!InCall
<1>4. r5 # q /\ where \notin Ranking!InCall
  BY <1>1, <1>2, Unchanged DEF Ranking!InCall
<1>20. RanksOne(q, where, r2[q], body, r10[q])
  BY <1>1, <1>2, <1>3, <1>4, Unchanged DEF RanksOne
<1> QED  BY <1>20, OneRanks

\* The lock is taken only when nobody has it.
LEMMA ScoreKept ==
    ASSUME RankingInv, NEW q \in Questions, Ranking!Score(q)
    PROVE  RankingInv'
<1>1. PICK where : /\ \/ where = "load" /\ r5 = "" /\ r5' = q
                      \/ where \in {"cancelled", "lexical"} /\ r5' = r5
                   /\ r4' = [r4 EXCEPT ![q] = where]
  BY DEF Ranking!Score, Ranking!Goto
<1>2. /\ r4[q] = "score" /\ r2' = r2 /\ r3' = r3 /\ r7' = r7 /\ r8' = r8 /\ r9' = r9 /\ r10' = r10
  BY DEF Ranking!Score, Ranking!search
<1>3. Ranked(r4[q], r2[q], r3[q], r10[q], r8, r9) /\ r5 # q
  BY <1>2, Unchanged DEF Ranking!InCall
<1>4. Ranked(where, r2[q], r3[q], r10[q], r8, r9)
  BY <1>1, <1>2, <1>3 DEF Ranked, Points, Ranking!Ends, Ranking!InCall
<1>5. r5' = q <=> where \in Ranking!InCall
  BY <1>1, <1>3 DEF Ranking!InCall
<1>20. RanksOne(q, where, r2[q], r3[q], r10[q])
  BY <1>1, <1>2, <1>4, <1>5, Unchanged DEF RanksOne
<1> QED  BY <1>20, OneRanks

LEMMA InterruptedKept ==
    ASSUME RankingInv, NEW q \in Questions, Ranking!Interrupted(q)
    PROVE  RankingInv'
<1>1. PICK where \in {"cancelled", "lexical"} : r5' = "" /\ r4' = [r4 EXCEPT ![q] = where]
  BY DEF Ranking!Interrupted, Ranking!Leave, Ranking!Goto
<1>2. /\ r5 = q /\ r2' = r2 /\ r3' = r3 /\ r7' = r7 /\ r8' = r8 /\ r9' = r9 /\ r10' = r10
  BY DEF Ranking!Interrupted, Ranking!Leave, Ranking!search
<1>3. Ranked(where, r2[q], r3[q], r10[q], r8, r9)
  BY <1>1 DEF Ranked, Points, Ranking!Ends, Ranking!InCall
<1>4. r5' # q /\ where \notin Ranking!InCall
  BY <1>1, ComponentConstants DEF Ranking!InCall, Ranking!RankingConstants
<1>20. RanksOne(q, where, r2[q], r3[q], r10[q])
  BY <1>1, <1>2, <1>3, <1>4, Unchanged DEF RanksOne
<1> QED  BY <1>20, OneRanks

LEMMA LoadKept ==
    ASSUME RankingInv, NEW q \in Questions, Ranking!Load(q)
    PROVE  RankingInv'
<1>1. /\ r4[q] = "load" /\ r4' = [r4 EXCEPT ![q] = "plan"] /\ r2' = r2 /\ r3' = r3
      /\ r5' = r5 /\ r7' = r7 /\ r8' = r8 /\ r9' = r9 /\ r10' = r10
  BY DEF Ranking!Load, Ranking!Goto, Ranking!search
<1>2. Ranked(r4[q], r2[q], r3[q], r10[q], r8, r9) /\ r5 = q
  BY <1>1, Unchanged DEF Ranking!InCall
<1>3. Ranked("plan", r2[q], r3[q], r10[q], r8, r9) /\ "plan" \in Ranking!InCall
  BY <1>1, <1>2 DEF Ranked, Points, Ranking!InCall
<1>20. RanksOne(q, "plan", r2[q], r3[q], r10[q])
  BY <1>1, <1>2, <1>3, Unchanged DEF RanksOne
<1> QED  BY <1>20, OneRanks

\* The windows of a call are those that are available and those that are not.
LEMMA PlanKept ==
    ASSUME RankingInv, NEW q \in Questions, Ranking!Plan(q)
    PROVE  RankingInv'
<1> DEFINE windows == Ranking!WindowsOf(r3[q])
           known == windows \cap Ranking!ToSet(r7)
<1>1. /\ r4[q] = "plan" /\ r4' = [r4 EXCEPT ![q] = "encode"] /\ r2' = r2 /\ r3' = r3
      /\ r5' = r5 /\ r10' = r10
      /\ r9' = known /\ r8' = Ranking!SetToSeq(windows \ known)
      /\ r7' = Ranking!Without(r7, windows) \o Ranking!SetToSeq(known)
  BY DEF Ranking!Plan, Ranking!Goto, Ranking!Known, Ranking!search
<1>2. Ranked(r4[q], r2[q], r3[q], r10[q], r8, r9) /\ r5 = q
      /\ IsSequence(r7) /\ Len(r7) <= CacheSize
  BY <1>1, Unchanged DEF Ranking!InCall
<1>3. IsFiniteSet(windows)
  BY WindowsAreFinite
<1> HIDE DEF windows
<1>4. /\ IsSequence(Ranking!Without(r7, windows)) /\ IsFiniteSet(known)
      /\ Len(Ranking!Without(r7, windows)) + Cardinality(known) <= Len(r7)
  BY <1>2, MovingKeepsLength
<1> HIDE DEF known
<1>5. IsFiniteSet(windows \ known)
  BY <1>3, FS_Subset
<1>6. /\ IsSequence(Ranking!SetToSeq(known)) /\ Len(Ranking!SetToSeq(known)) = Cardinality(known)
      /\ IsSequence(r8') /\ Ranking!ToSet(r8') = windows \ known
  BY <1>1, <1>4, <1>5, ListedOnce, SequencesAre
<1>7. IsSequence(r7') /\ Len(r7') = Len(Ranking!Without(r7, windows)) + Cardinality(known)
  BY <1>1, <1>4, <1>6, Joined
<1>8. CacheSize \in Nat /\ Len(r7) \in Nat
  <2>1. CacheSize \in Nat
    BY ComponentConstants DEF Ranking!RankingConstants
  <2>2. Len(r7) \in Nat
    BY <1>2 DEF IsSequence
  <2> QED  BY <2>1, <2>2
<1>9. Len(r7') <= CacheSize
  <2>1. Cardinality(known) \in Nat /\ Len(Ranking!Without(r7, windows)) \in Nat
    BY <1>4, FS_CardinalityType DEF IsSequence
  <2> QED  BY <1>2, <1>4, <1>7, <1>8, <2>1
<1>10. Ranking!ToSet(r8') \cup r9' = windows
  <2>1. known \subseteq windows
    BY DEF known
  <2> QED  BY <1>1, <1>6, <2>1
<1>11. Ranked("encode", r2[q], r3[q], r10[q], r8', r9') /\ "encode" \in Ranking!InCall
  BY <1>1, <1>2, <1>10 DEF Ranked, Points, Ranking!InCall, windows
<1>20. RanksOne(q, "encode", r2[q], r3[q], r10[q])
  BY <1>1, <1>2, <1>6, <1>7, <1>9, <1>11, Unchanged DEF RanksOne
<1> QED  BY <1>20, OneRanks

\* A batch moves from the missing windows to the available ones.
LEMMA EncodeKept ==
    ASSUME RankingInv, NEW q \in Questions, Ranking!Encode(q)
    PROVE  RankingInv'
<1> DEFINE n == IF Len(r8) < Batch THEN Len(r8) ELSE Batch
           batch == SubSeq(r8, 1, n)
           rest == SubSeq(r8, n + 1, Len(r8))
           longer == r7 \o batch
           excess == IF Len(longer) > CacheSize THEN Len(longer) - CacheSize ELSE 0
<1>1. /\ r4[q] = "encode" /\ r4' = r4 /\ r2' = r2 /\ r3' = r3 /\ r5' = r5 /\ r10' = r10
      /\ r8' = rest /\ r9' = r9 \cup Ranking!ToSet(batch)
      /\ r7' = SubSeq(longer, excess + 1, Len(longer))
  BY DEF Ranking!Encode, Ranking!Store, Ranking!search
<1>2. /\ Ranked(r4[q], r2[q], r3[q], r10[q], r8, r9) /\ r5 = q
      /\ IsSequence(r7) /\ IsSequence(r8)
  BY <1>1, Unchanged DEF Ranking!InCall
<1>3. CacheSize \in Nat /\ Batch \in Nat
  BY ComponentConstants DEF Ranking!RankingConstants
<1>4. n \in Nat /\ n <= Len(r8)
  <2>1. Len(r8) \in Nat
    BY <1>2 DEF IsSequence
  <2> QED  BY <1>3, <2>1
<1> HIDE DEF n
<1>5. /\ IsSequence(batch) /\ IsSequence(rest)
      /\ Ranking!ToSet(r8) = Ranking!ToSet(batch) \cup Ranking!ToSet(rest)
  BY <1>2, <1>4, Cut
<1> HIDE DEF batch, rest
<1>6. IsSequence(longer) /\ Len(longer) \in Nat
  <2>1. IsSequence(longer)
    BY <1>2, <1>5, Joined
  <2> HIDE DEF longer
  <2> QED  BY <2>1 DEF IsSequence
<1> HIDE DEF longer
<1>7. excess \in Nat /\ excess <= Len(longer) /\ Len(longer) - excess <= CacheSize
  BY <1>3, <1>6
<1> HIDE DEF excess
<1>8. IsSequence(r7') /\ Len(r7') = Len(longer) - excess
  BY <1>1, <1>6, <1>7, Cut
<1>9. Ranked("encode", r2[q], r3[q], r10[q], r8', r9')
  BY <1>1, <1>2, <1>5 DEF Ranked
<1>10. r4' = [r4 EXCEPT ![q] = "encode"]
  BY <1>1 DEF RankingInv, Over
<1>11. Len(r7') <= CacheSize
  BY <1>7, <1>8
<1>12. RanksOne(q, "encode", r2[q], r3[q], r10[q])
  BY <1>1, <1>2, <1>5, <1>8, <1>9, <1>10, <1>11, Unchanged DEF RanksOne, Ranking!InCall
<1> QED  BY <1>12, OneRanks

\* The scores rest on all windows of the bodies, which are the hits.
LEMMA RankKept ==
    ASSUME RankingInv, NEW q \in Questions, Ranking!Rank(q)
    PROVE  RankingInv'
<1>1. /\ r4[q] = "encode" /\ r8 = <<>> /\ r4' = [r4 EXCEPT ![q] = "scored"]
      /\ r10' = [r10 EXCEPT ![q] = r9] /\ r5' = ""
      /\ r2' = r2 /\ r3' = r3 /\ r7' = r7 /\ r8' = r8 /\ r9' = r9
  BY DEF Ranking!Rank, Ranking!Goto, Ranking!search
<1>2. Ranked("encode", r2[q], r3[q], r10[q], r8, r9) /\ r5 = q
  BY <1>1, Unchanged DEF Ranking!InCall
<1>3. Ranking!ToSet(r8) = {}
  <2>1. DOMAIN <<>> = {}
    OBVIOUS
  <2>2. DOMAIN r8 = {}
    BY <1>1, <2>1, Zenon
  <2> QED  BY <2>2 DEF Ranking!ToSet
<1>4. r9 = Ranking!WindowsOf(r3[q]) /\ r3[q] = r2[q]
  BY <1>2, <1>3 DEF Ranked, Ranking!InCall
<1>5. Ranked("scored", r2[q], r3[q], r9, r8, r9)
  BY <1>4 DEF Ranked, Points, Ranking!InCall
<1>6. r5' # q
  BY <1>1, ComponentConstants DEF Ranking!RankingConstants
<1>7. RanksOne(q, "scored", r2[q], r3[q], r9)
  BY <1>1, <1>2, <1>5, <1>6, Unchanged DEF RanksOne, Ranking!InCall
<1> QED  BY <1>7, OneRanks

LEMMA ReorderKept ==
    ASSUME RankingInv, NEW q \in Questions, Ranking!Reorder(q)
    PROVE  RankingInv'
<1>1. PICK where \in {"cancelled", "ranked"} : r4' = [r4 EXCEPT ![q] = where]
  BY DEF Ranking!Reorder, Ranking!Goto
<1>2. /\ r4[q] = "scored" /\ r2' = r2 /\ r3' = r3 /\ r5' = r5 /\ r7' = r7 /\ r8' = r8 /\ r9' = r9 /\ r10' = r10
  BY DEF Ranking!Reorder, Ranking!search, Ranking!reranker
<1>3. Ranked(r4[q], r2[q], r3[q], r10[q], r8, r9) /\ r5 # q
  BY <1>2, Unchanged DEF Ranking!InCall
<1>4. Ranked(where, r2[q], r3[q], r10[q], r8, r9)
  BY <1>1, <1>2, <1>3 DEF Ranked, Points, Ranking!Ends, Ranking!InCall
<1>5. where \notin Ranking!InCall
  BY <1>1 DEF Ranking!InCall
<1>6. RanksOne(q, where, r2[q], r3[q], r10[q])
  BY <1>1, <1>2, <1>3, <1>4, <1>5, Unchanged DEF RanksOne
<1> QED  BY <1>6, OneRanks

LEMMA RankingStepKept ==
    ASSUME RankingInv, Ranking!Next
    PROVE  RankingInv'
<1>1. ASSUME \E p \in Pages : Ranking!Sync(p)
      PROVE  RankingInv'
  BY <1>1 DEF Ranking!Sync, Ranking!search, Ranking!reranker, RankingInv
<1>2. ASSUME NEW q \in Questions, Ranking!Cancel(q)
      PROVE  RankingInv'
  BY <1>2 DEF Ranking!Cancel, Ranking!search, Ranking!reranker, RankingInv
<1>3. ASSUME NEW q \in Questions,
             Ranking!Search(q) \/ Ranking!ReadBodies(q) \/ Ranking!Score(q) \/ Ranking!Interrupted(q)
      PROVE  RankingInv'
  BY <1>3, SearchingKept, ReadBodiesKept, ScoreKept, InterruptedKept
<1>4. ASSUME NEW q \in Questions,
             Ranking!Load(q) \/ Ranking!Plan(q) \/ Ranking!Encode(q) \/ Ranking!Rank(q) \/ Ranking!Reorder(q)
      PROVE  RankingInv'
  BY <1>4, LoadKept, PlanKept, EncodeKept, RankKept, ReorderKept
<1> QED  BY <1>1, <1>2, <1>3, <1>4 DEF Ranking!Next

RankingHolds == component = "ranking" => RankingInv

THEOREM RankingInvariance == ComponentsSpec => []RankingHolds
<1>1. ComponentsInit => RankingHolds
  BY RankingInitially DEF ComponentsInit, RankingHolds
<1>2. ASSUME RankingHolds, [ComponentsNext]_all
      PROVE  RankingHolds'
  <2>1. CASE ComponentsNext
    BY <1>2, <2>1, RankingStepKept DEF ComponentsNext, RankingHolds
  <2>2. CASE UNCHANGED all
    BY <1>2, <2>2 DEF all, registers, RankingHolds, RankingInv
  <2> QED  BY <1>2, <2>1, <2>2
<1> QED  BY <1>1, <1>2, PTL DEF ComponentsSpec

(***************************************************************************)
(* _rerank_research and SemanticReranker, for every number of questions,   *)
(* page sizes, cache and batch sizes: an order rests on all windows of the *)
(* versions that were found, the lock is held by exactly the question that *)
(* is in a call, and the cache keeps to its limit.                         *)
(***************************************************************************)
THEOREM RankingsAreWhole == ComponentsSpec => []RankingIsWhole
<1>1. RankingInv => Ranking!RankingIsWhole
  BY DEF RankingInv, Ranked, Ranking!RankingIsWhole
<1>2. RankingHolds => RankingIsWhole
  BY <1>1 DEF RankingHolds, RankingIsWhole
<1> QED  BY <1>2, RankingInvariance, PTL

-----------------------------------------------------------------------------
(* Recursive functions over the positions of a sequence.                   *)

\* Induction, for sets instead of predicates.
LEMMA UptoInduction ==
    ASSUME NEW N \in Nat, NEW T \in SUBSET (0..N), 0 \in T,
           \A n \in 0..(N - 1) : n \in T => n + 1 \in T
    PROVE  T = 0..N
<1> DEFINE R == {ss \in Nat \X Nat : ss[1] < ss[2]}
<1>1. IsWellFoundedOn(R, Nat)
  BY NatLessThanWellFounded DEF OpToRel
<1>2. SUFFICES ASSUME (0..N) \ T # {}
               PROVE  FALSE
  OBVIOUS
<1>3. (0..N) \ T \subseteq Nat
  OBVIOUS
<1> HIDE DEF R
<1>4. PICK x \in (0..N) \ T : \A y \in (0..N) \ T : ~(<<y, x>> \in R)
  BY <1>1, <1>2, <1>3, WFMin
<1>5. x # 0 /\ x - 1 \in 0..(N - 1) /\ x - 1 < x /\ (x - 1) + 1 = x
  BY <1>4
<1>6. <<x - 1, x>> \in R
  BY <1>4, <1>5 DEF R
<1>7. x - 1 \in T
  BY <1>4, <1>5, <1>6
<1> QED  BY <1>4, <1>5, <1>7

\* A function is defined by its first value and a step from each to the next.
Steps(step, N, S) == step \in [1..N -> [S -> S]]
Stepwise(f, N, S, base, step) ==
    f \in [0..N -> S] /\ f[0] = base /\ \A n \in 1..N : f[n] = step[n][f[n - 1]]

LEMMA Recursion ==
    ASSUME NEW N \in Nat, NEW S, NEW base \in S, NEW step, Steps(step, N, S)
    PROVE  \E f : Stepwise(f, N, S, base, step)
<1>0. step \in [1..N -> [S -> S]]
  BY DEF Steps
<1> DEFINE Reaches(m, f) == f = [n \in 0..m |-> IF n = 0 THEN base ELSE step[n][f[n - 1]]]
           T == {m \in 0..N : \E f \in [0..m -> S] : Reaches(m, f)}
<1>1. \E f \in [0..0 -> S] : Reaches(0, f)
  <2> WITNESS [n \in 0..0 |-> base] \in [0..0 -> S]
  <2> QED  OBVIOUS
<1>2. ASSUME NEW m \in 0..(N - 1), NEW f \in [0..m -> S], Reaches(m, f)
      PROVE  \E g \in [0..(m + 1) -> S] : Reaches(m + 1, g)
  <2> DEFINE g == [n \in 0..(m + 1) |-> IF n = m + 1 THEN step[m + 1][f[m]] ELSE f[n]]
  <2>1. m \in Nat /\ m \in 0..m /\ m + 1 \in 1..N
    OBVIOUS
  <2>2. step[m + 1][f[m]] \in S
    BY <1>0, <2>1
  <2>3. \A n \in 0..(m + 1) : n # m + 1 => n \in 0..m /\ (n # 0 => n - 1 \in 0..m /\ n - 1 # m + 1)
    BY <2>1
  <2>4. g \in [0..(m + 1) -> S]
    BY <2>2, <2>3
  <2>5. ASSUME NEW n \in 0..(m + 1)
        PROVE  g[n] = IF n = 0 THEN base ELSE step[n][g[n - 1]]
    <3>1. CASE n = m + 1
      <4>1. n # 0 /\ n - 1 = m /\ m # m + 1 /\ m \in 0..(m + 1)
        BY <3>1, <2>1
      <4> QED  BY <3>1, <4>1
    <3>2. CASE n # m + 1 /\ n # 0
      <4>1. n - 1 \in 0..m /\ n - 1 # m + 1 /\ n - 1 \in 0..(m + 1) /\ n \in 0..m
        BY <3>2, <2>3, <2>1
      <4>2. f[n] = step[n][f[n - 1]]
        BY <1>2, <3>2, <4>1
      <4> QED  BY <3>2, <4>1, <4>2
    <3>3. CASE n = 0 /\ n # m + 1
      <4>1. 0 \in 0..m
        BY <2>1
      <4>2. f[0] = base
        BY <1>2, <4>1
      <4> QED  BY <3>3, <4>2
    <3> QED  BY <3>1, <3>2, <3>3
  <2>6. Reaches(m + 1, g)
    <3> HIDE DEF g
    <3> QED  BY <2>4, <2>5
  <2> QED  BY <2>4, <2>6
<1>3. T = 0..N
  <2> HIDE DEF Reaches
  <2>1. \A m \in 0..(N - 1) : m + 1 \in 0..N
    OBVIOUS
  <2>2. 0 \in T /\ T \in SUBSET (0..N) /\ \A m \in 0..(N - 1) : m \in T => m + 1 \in T
    BY <1>1, <1>2, <2>1
  <2> HIDE DEF T
  <2> QED  BY <2>2, UptoInduction
<1> HIDE DEF Reaches
<1>4. N \in 0..N
  OBVIOUS
<1>5. \E f \in [0..N -> S] : Reaches(N, f)
  BY <1>3, <1>4
<1>6. PICK f \in [0..N -> S] : Reaches(N, f)
  BY <1>5
<1>7. f[0] = base
  BY <1>6, 0 \in 0..N DEF Reaches
<1>8. \A n \in 1..N : n \in 0..N /\ n # 0
  OBVIOUS
<1>9. \A n \in 1..N : f[n] = step[n][f[n - 1]]
  BY <1>6, <1>8 DEF Reaches
<1> QED  BY <1>6, <1>7, <1>9 DEF Stepwise

\* What holds first, and after every step when before it, holds throughout.
LEMMA StaysIn ==
    ASSUME NEW N \in Nat, NEW S, NEW f, f[0] \in S, \A n \in 1..N : f[n - 1] \in S => f[n] \in S
    PROVE  \A n \in 0..N : f[n] \in S
<1> DEFINE T == {n \in 0..N : f[n] \in S}
<1>1. T \in SUBSET (0..N) /\ 0 \in T
  OBVIOUS
<1>2. ASSUME NEW n \in 0..(N - 1), n \in T
      PROVE  n + 1 \in T
  <2>1. n + 1 \in 1..N /\ n + 1 \in 0..N /\ (n + 1) - 1 = n
    OBVIOUS
  <2>2. f[(n + 1) - 1] \in S
    BY <1>2, <2>1
  <2> QED  BY <2>1, <2>2
<1>3. T = 0..N
  <2> HIDE DEF T
  <2> QED  BY <1>1, <1>2, UptoInduction
<1> QED  BY <1>3

-----------------------------------------------------------------------------
(***************************************************************************)
(* AlertReducer.  A code that is active at the end of a snapshot was said  *)
(* to be so by it or was active before and not spoken of; and a corpse     *)
(* that is not reported was counted at most as often as it was seen on     *)
(* end.                                                                    *)
(***************************************************************************)
Severities == {"warning", "critical"}
Activity == [Alerts!Codes -> {""} \cup Severities]
Saying == Alerts!Codes \X BOOLEAN \X Severities
CorpseCode(c) == Alerts!Code("corpse", c)

\* AlertsAreBorneOut, kind by kind.
BorneOut(active, seen, known, stayed) ==
    /\ active[Alerts!Encumbrance] # "" =>
         \E n \in known.level : n >= Warning /\ (active[Alerts!Encumbrance] = "critical" <=> n >= Emergency)
    /\ \A s \in Spells : active[Alerts!Code("spell", s)] # "" =>
         s \in seen /\ \E there \in known.spells : s \notin there
    /\ \A o \in Owners : active[Alerts!Code("script", o)] # "" =>
         \E lane \in known.lane : lane.owner \in {o, Alerts!NoOwner} /\ o \notin lane.running
    /\ \A c \in Corpses : active[CorpseCode(c)] # "" => c \in stayed

AlertsInv ==
    /\ r1 \in Activity /\ r2 \in [Corpses -> 0..Persistence]
    /\ r5.streak \in [Corpses -> 0..Persistence]
    /\ \A c \in Corpses : IF r1[CorpseCode(c)] = "" THEN r2[c] <= r5.streak[c] ELSE r2[c] = Persistence
    /\ BorneOut(r1, r3, r5, r6)

LEMMA AlertsInitially ==
    ASSUME Alerts!ReducerConstants, Alerts!Init
    PROVE  AlertsInv
<1>1. r1 \in Activity
  BY DEF Alerts!Init, Activity
<1>2. \A c \in Corpses : CorpseCode(c) \in Alerts!Codes
  BY DEF Alerts!Codes, CorpseCode
<1>3. r2 = [c \in Corpses |-> 0] /\ r5.streak = [c \in Corpses |-> 0] /\ r1 = [c \in Alerts!Codes |-> ""]
  BY DEF Alerts!Init, Alerts!NothingKnown
<1>4. \A c \in Corpses : r1[CorpseCode(c)] = ""
  BY <1>2, <1>3
<1>5. BorneOut(r1, r3, r5, r6)
  BY <1>3, <1>4 DEF BorneOut, Alerts!Codes
<1>6. 0 \in 0..Persistence
  BY DEF Alerts!ReducerConstants
<1>7. r2 \in [Corpses -> 0..Persistence] /\ r5.streak \in [Corpses -> 0..Persistence]
  BY <1>3, <1>6
<1>8. \A c \in Corpses : r2[c] <= r5.streak[c]
  <2>1. \A c \in Corpses : r2[c] = 0 /\ r5.streak[c] = 0
    BY <1>3
  <2> QED  BY <2>1, 0 <= 0
<1> QED  BY <1>1, <1>4, <1>5, <1>7, <1>8 DEF AlertsInv

\* What the activity of the codes owes to what was said of them.
Borne(now, said) ==
    \A c \in Alerts!Codes :
        IF now[c] = "" THEN r1[c] = "" \/ \E w \in Severities : <<c, FALSE, w>> \in said
        ELSE <<c, TRUE, now[c]>> \in said \/ (now[c] = r1[c] /\ \A s \in said : s[1] # c)

LEMMA OneIsSaid ==
    ASSUME NEW now \in Activity, NEW said \in SUBSET Saying, Borne(now, said), NEW s \in Saying
    PROVE  Alerts!SetCondition(now, s) \in Activity /\ Borne(Alerts!SetCondition(now, s), said \cup {s})
<1> DEFINE then == Alerts!SetCondition(now, s)
<1>1. PICK c \in Alerts!Codes, yes \in BOOLEAN, w \in Severities : s = <<c, yes, w>>
  BY DEF Saying
<1>2. then \in Activity
  BY <1>1 DEF Alerts!SetCondition, Activity
<1>3. \A d \in Alerts!Codes : d # c => then[d] = now[d]
  BY <1>1 DEF Alerts!SetCondition, Activity
<1>4. IF then[c] = "" THEN now[c] = "" \/ ~yes ELSE yes /\ then[c] = w
  <2>1. CASE ~yes
    BY <1>1, <2>1 DEF Alerts!SetCondition, Activity
  <2>2. CASE yes
    <3>1. then \in {now, [now EXCEPT ![c] = w]} /\ (then = now => now[c] = "" \/ now[c] = w)
      BY <1>1, <2>2 DEF Alerts!SetCondition, Activity
    <3> QED  BY <1>1, <2>2, <3>1 DEF Activity, Severities
  <2> QED  BY <2>1, <2>2
<1> HIDE DEF then
<1>5. ASSUME NEW d \in Alerts!Codes
      PROVE  IF then[d] = "" THEN r1[d] = "" \/ \E v \in Severities : <<d, FALSE, v>> \in said \cup {s}
             ELSE <<d, TRUE, then[d]>> \in said \cup {s} \/ (then[d] = r1[d] /\ \A t \in said \cup {s} : t[1] # d)
  <2>1. CASE d # c
    <3>1. then[d] = now[d] /\ s[1] # d
      BY <1>1, <1>3, <2>1
    <3>2. \A t \in said \cup {s} : t \in said \/ t = s
      OBVIOUS
    <3> QED  BY <3>1, <3>2 DEF Borne
  <2>2. CASE d = c
    BY <1>1, <1>4, <2>2 DEF Borne
  <2> QED  BY <2>1, <2>2
<1> QED  BY <1>2, <1>5 DEF then, Borne

LEMMA AllIsSaid ==
    ASSUME r1 \in Activity, NEW says \in Seq(Saying)
    PROVE  Alerts!After(says) \in Activity /\ Borne(Alerts!After(says), Alerts!ToSet(says))
<1> DEFINE step == [n \in 1..Len(says) |-> [now \in Activity |-> Alerts!SetCondition(now, says[n])]]
           Upwards(f) == f = [n \in 0..Len(says) |-> IF n = 0 THEN r1 ELSE Alerts!SetCondition(f[n - 1], says[n])]
           upTo == CHOOSE f : Upwards(f)
           First(n) == {says[i] : i \in 1..n}
           Good == {n \in 0..Len(says) : upTo[n] \in Activity /\ Borne(upTo[n], First(n))}
<1>1. Len(says) \in Nat /\ DOMAIN says = 1..Len(says) /\ \A i \in 1..Len(says) : says[i] \in Saying
  OBVIOUS
<1>2. ASSUME NEW now \in Activity, NEW s \in Saying
      PROVE  Alerts!SetCondition(now, s) \in Activity
  BY DEF Alerts!SetCondition, Activity, Saying
<1>3. step \in [1..Len(says) -> [Activity -> Activity]]
  BY <1>1, <1>2
<1>4. \E f : Upwards(f)
  <2>1. PICK f : Stepwise(f, Len(says), Activity, r1, step)
    <3>1. Steps(step, Len(says), Activity) /\ Len(says) \in Nat /\ r1 \in Activity
      BY <1>1, <1>3 DEF Steps
    <3> HIDE DEF step
    <3> QED  BY <3>1, Recursion
  <2>2. \A n \in 1..Len(says) : n - 1 \in 0..Len(says) /\ step[n][f[n - 1]] = Alerts!SetCondition(f[n - 1], says[n])
    <3>1. \A n \in 1..Len(says) : n - 1 \in 0..Len(says)
      BY <1>1
    <3> QED  BY <2>1, <3>1 DEF Stepwise
  <2>3. \A n \in 0..Len(says) : f[n] = IF n = 0 THEN r1 ELSE Alerts!SetCondition(f[n - 1], says[n])
    <3> HIDE DEF step
    <3>1. \A n \in 0..Len(says) : n # 0 => n \in 1..Len(says)
      BY <1>1
    <3> QED  BY <2>1, <2>2, <3>1 DEF Stepwise
  <2>4. Upwards(f)
    BY <2>1, <2>3 DEF Stepwise
  <2> QED  BY <2>4
<1>5. Upwards(upTo)
  BY <1>4
<1>6. Alerts!After(says) = upTo[Len(says)]
  BY DEF Alerts!After
<1> HIDE DEF upTo
<1>7. 0 \in Good
  <2>1. upTo[0] = r1
    BY <1>1, <1>5
  <2>2. 0 \in 0..Len(says) /\ First(0) = {}
    BY <1>1
  <2>3. Borne(r1, {})
    BY DEF Borne
  <2> QED
    <3> HIDE DEF First
    <3> QED  BY <2>1, <2>2, <2>3
<1>8. ASSUME NEW n \in 0..(Len(says) - 1), n \in Good
      PROVE  n + 1 \in Good
  <2>1. n + 1 \in 0..Len(says) /\ n + 1 \in 1..Len(says) /\ (n + 1) - 1 = n /\ n + 1 # 0
    BY <1>1
  <2>2. upTo[n + 1] = Alerts!SetCondition(upTo[n], says[n + 1])
    BY <1>5, <2>1
  <2>3. First(n + 1) = First(n) \cup {says[n + 1]} /\ First(n) \in SUBSET Saying /\ says[n + 1] \in Saying
    <3>1. \A i \in 1..(n + 1) : i \in 1..n \/ i = n + 1
      BY <2>1
    <3>2. n + 1 \in 1..(n + 1) /\ \A i \in 1..n : i \in 1..(n + 1) /\ i \in 1..Len(says)
      BY <1>1
    <3> QED  BY <1>1, <2>1, <3>1, <3>2
  <2> QED
    <3> HIDE DEF First
    <3> QED  BY <1>8, <2>1, <2>2, <2>3, OneIsSaid
<1>9. Good = 0..Len(says)
  <2> HIDE DEF Good
  <2>1. Good \in SUBSET (0..Len(says))
    BY DEF Good
  <2> QED  BY <1>1, <1>7, <1>8, <2>1, UptoInduction
<1>10. Len(says) \in 0..Len(says)
  BY <1>1
<1>11. First(Len(says)) = Alerts!ToSet(says)
  BY <1>1 DEF Alerts!ToSet
<1> QED  BY <1>6, <1>9, <1>10, <1>11

-----------------------------------------------------------------------------
\* The listings of the two modules are the same.
LEMMA SameListings ==
    /\ \A S : Alerts!SetToSeq(S) = Ranking!SetToSeq(S)
    /\ \A s : Alerts!ToSet(s) = Ranking!ToSet(s)
    /\ \A S : Alerts!IsFiniteSet(S) <=> IsFiniteSet(S)
<1>1. \A S : Alerts!Cardinality(S) = Ranking!Cardinality(S)
  BY DEF Alerts!Cardinality, Ranking!Cardinality
<1>2. \A S : Alerts!SetToSeq(S) = Ranking!SetToSeq(S)
  BY <1>1 DEF Alerts!SetToSeq, Ranking!SetToSeq, Alerts!IsInjective, Ranking!IsInjective
<1>3. \A s : Alerts!ToSet(s) = Ranking!ToSet(s)
  BY DEF Alerts!ToSet, Ranking!ToSet
<1>4. \A S : Alerts!IsFiniteSet(S) <=> IsFiniteSet(S)
  BY DEF Alerts!IsFiniteSet, IsFiniteSet
<1> QED  BY <1>2, <1>3, <1>4

LEMMA Listed ==
    ASSUME NEW S \in SUBSET Saying, IsFiniteSet(S)
    PROVE  /\ Alerts!SetToSeq(S) \in Seq(Saying)
           /\ Alerts!ToSet(Alerts!SetToSeq(S)) = S
<1>1. Alerts!SetToSeq(S) \in Seq(S)
  BY ListedOnce, SameListings
<1> QED  BY <1>1, ListedOnce, SameListings

LEMMA SaidTogether ==
    ASSUME NEW s \in Seq(Saying), NEW t \in Seq(Saying)
    PROVE  s \o t \in Seq(Saying) /\ Alerts!ToSet(s \o t) = Alerts!ToSet(s) \cup Alerts!ToSet(t)
<1>1. IsSequence(s) /\ IsSequence(t)
  BY SequencesAre
<1>2. Alerts!ToSet(s \o t) = Alerts!ToSet(s) \cup Alerts!ToSet(t)
  BY <1>1, Joined, SameListings
<1> QED  BY <1>2

LEMMA GoneAreLast ==
    ASSUME NEW S \in SUBSET Saying, IsFiniteSet(S)
    PROVE  Alerts!GoneLast(S) \in Seq(Saying) /\ Alerts!ToSet(Alerts!GoneLast(S)) = S
<1> DEFINE there == {s \in S : s[2]}
           gone == {s \in S : ~s[2]}
<1>1. there \in SUBSET Saying /\ gone \in SUBSET Saying /\ IsFiniteSet(there) /\ IsFiniteSet(gone)
  BY FS_Subset
<1>2. there \cup gone = S
  OBVIOUS
<1>3. Alerts!GoneLast(S) = Alerts!SetToSeq(there) \o Alerts!SetToSeq(gone)
  BY DEF Alerts!GoneLast
<1> HIDE DEF there, gone
<1>4. /\ Alerts!SetToSeq(there) \in Seq(Saying) /\ Alerts!ToSet(Alerts!SetToSeq(there)) = there
      /\ Alerts!SetToSeq(gone) \in Seq(Saying) /\ Alerts!ToSet(Alerts!SetToSeq(gone)) = gone
  BY <1>1, Listed
<1> QED  BY <1>2, <1>3, <1>4, SaidTogether

LEMMA ImageIsFinite ==
    ASSUME NEW S, IsFiniteSet(S), NEW f
    PROVE  IsFiniteSet({f[x] : x \in S})
<1> DEFINE T == {f[x] : x \in S}
<1>1. [x \in S |-> f[x]] \in Surjection(S, T)
  BY DEF Surjection
<1> QED  BY <1>1, FS_Surjection

\* What a snapshot says, as sets.
LevelSaid(level) ==
    {<<Alerts!Encumbrance, n >= Warning, IF n >= Emergency THEN "critical" ELSE "warning">> : n \in level}
SpellSaid(spells) == [s \in Spells |-> <<Alerts!Code("spell", s), s \in r3 \ UNION spells, "warning">>]
SpellsSaid(spells) == {SpellSaid(spells)[s] : s \in Spells}
ScriptsSaid(field) == {<<Alerts!Code("script", o), Alerts!Missed(o, lane), "warning">> : o \in Owners, lane \in field}
CorpsesSaid(corpses) ==
    {<<CorpseCode(c), Alerts!CountsAfter(corpses)[c] = Persistence, "warning">> :
        c \in IF corpses = Alerts!Unknown THEN {} ELSE Corpses}

LEMMA MaySay ==
    ASSUME NEW c \in Alerts!Codes, NEW yes \in BOOLEAN, NEW w \in Severities
    PROVE  <<c, yes, w>> \in Saying
BY DEF Saying

LEMMA LevelTold ==
    ASSUME NEW level \in Alerts!Field(Alerts!Levels), Alerts!ReducerConstants
    PROVE  Alerts!EncumbranceSays(level) \in Seq(Saying) /\ Alerts!ToSet(Alerts!EncumbranceSays(level)) = LevelSaid(level)
<1>1. level = {} \/ \E n \in Alerts!Levels : level = {n}
  BY DEF Alerts!Field, Alerts!Unknown
<1>2. LevelSaid(level) \in SUBSET Saying
  <2>1. \A n \in level : (n >= Warning) \in BOOLEAN
                           /\ (IF n >= Emergency THEN "critical" ELSE "warning") \in Severities
    BY DEF Severities
  <2>2. Alerts!Encumbrance \in Alerts!Codes
    BY DEF Alerts!Codes
  <2>3. \A n \in level :
          <<Alerts!Encumbrance, n >= Warning, IF n >= Emergency THEN "critical" ELSE "warning">> \in Saying
    BY <2>1, <2>2, MaySay
  <2> QED  BY <2>3, Zenon DEF LevelSaid
<1>3. IsFiniteSet(LevelSaid(level))
  <2>1. CASE level = {}
    <3>1. LevelSaid(level) = {}
      BY <2>1 DEF LevelSaid
    <3> QED  BY <3>1, FS_EmptySet
  <2>2. ASSUME NEW n, level = {n}
        PROVE  IsFiniteSet(LevelSaid(level))
    <3>1. PICK s : LevelSaid(level) = {s}
      BY <2>2 DEF LevelSaid
    <3> QED  BY <3>1, FS_Singleton
  <2> QED  BY <1>1, <2>1, <2>2
<1>4. Alerts!EncumbranceSays(level) = Alerts!SetToSeq(LevelSaid(level))
  BY DEF Alerts!EncumbranceSays, LevelSaid
<1> QED  BY <1>2, <1>3, <1>4, Listed

LEMMA SpellsTold ==
    ASSUME NEW spells, Alerts!ReducerConstants
    PROVE  Alerts!SpellsSay(spells) \in Seq(Saying) /\ Alerts!ToSet(Alerts!SpellsSay(spells)) = SpellsSaid(spells)
<1> DEFINE listed == Alerts!SetToSeq(Spells)
<1>1. listed \in Seq(Spells) /\ Alerts!ToSet(listed) = Spells
  <2>1. IsFiniteSet(Spells)
    BY SameListings DEF Alerts!ReducerConstants
  <2> QED  BY <2>1, ListedOnce, SameListings
<1>2. Alerts!SpellsSay(spells) = [i \in DOMAIN listed |-> <<Alerts!Code("spell", listed[i]), listed[i] \in r3 \ UNION spells, "warning">>]
  BY DEF Alerts!SpellsSay
<1> HIDE DEF listed
<1>3. \A i \in DOMAIN listed : listed[i] \in Spells
  BY <1>1
<1>4. Alerts!SpellsSay(spells) = [i \in DOMAIN listed |-> SpellSaid(spells)[listed[i]]]
  BY <1>2, <1>3 DEF SpellSaid
<1>5. \A s \in Spells : SpellSaid(spells)[s] \in Saying
  <2>1. \A s \in Spells : Alerts!Code("spell", s) \in Alerts!Codes /\ (s \in r3 \ UNION spells) \in BOOLEAN
                            /\ "warning" \in Severities
    BY DEF Alerts!Codes, Severities
  <2>2. \A s \in Spells : <<Alerts!Code("spell", s), s \in r3 \ UNION spells, "warning">> \in Saying
    BY <2>1, MaySay
  <2> QED  BY <2>2 DEF SpellSaid
<1>6. DOMAIN listed = 1..Len(listed) /\ Len(listed) \in Nat
  BY <1>1
<1>7. Alerts!SpellsSay(spells) \in Seq(Saying)
  BY <1>3, <1>4, <1>5, <1>6
<1>8. Spells = {listed[i] : i \in DOMAIN listed}
  BY <1>1 DEF Alerts!ToSet
<1>9. Alerts!ToSet(Alerts!SpellsSay(spells)) = {SpellSaid(spells)[listed[i]] : i \in DOMAIN listed}
  BY <1>4 DEF Alerts!ToSet
<1>10. SpellsSaid(spells) = {SpellSaid(spells)[listed[i]] : i \in DOMAIN listed}
  BY <1>8 DEF SpellsSaid
<1> QED  BY <1>7, <1>9, <1>10

LEMMA ScriptsTold ==
    ASSUME NEW lane \in Alerts!Field(Alerts!Lanes), Alerts!ReducerConstants
    PROVE  Alerts!ScriptsSay(lane) \in Seq(Saying) /\ Alerts!ToSet(Alerts!ScriptsSay(lane)) = ScriptsSaid(lane)
<1>1. lane = {} \/ \E l \in Alerts!Lanes : lane = {l}
  BY DEF Alerts!Field, Alerts!Unknown
<1>2. \A o \in Owners, l \in Alerts!Lanes : Alerts!Missed(o, l) \in BOOLEAN
  BY DEF Alerts!Missed
<1>3. ScriptsSaid(lane) \in SUBSET Saying
  BY <1>1, <1>2 DEF ScriptsSaid, Saying, Alerts!Codes, Severities
<1>4. IsFiniteSet(ScriptsSaid(lane))
  <2>1. CASE lane = {}
    <3>1. ScriptsSaid(lane) = {}
      BY <2>1 DEF ScriptsSaid
    <3> QED  BY <3>1, FS_EmptySet
  <2>2. ASSUME NEW l, lane = {l}
        PROVE  IsFiniteSet(ScriptsSaid(lane))
    <3> DEFINE f == [o \in Owners |-> <<Alerts!Code("script", o), Alerts!Missed(o, l), "warning">>]
    <3>1. ScriptsSaid(lane) = {f[o] : o \in Owners}
      BY <2>2 DEF ScriptsSaid
    <3>2. IsFiniteSet(Owners)
      BY SameListings DEF Alerts!ReducerConstants
    <3> HIDE DEF f
    <3> QED  BY <3>1, <3>2, ImageIsFinite
  <2> QED  BY <1>1, <2>1, <2>2
<1>5. Alerts!ScriptsSay(lane) = Alerts!GoneLast(ScriptsSaid(lane))
  BY DEF Alerts!ScriptsSay, ScriptsSaid
<1> QED  BY <1>3, <1>4, <1>5, GoneAreLast

LEMMA CorpsesTold ==
    ASSUME NEW corpses, Alerts!ReducerConstants
    PROVE  Alerts!CorpsesSay(corpses) \in Seq(Saying) /\ Alerts!ToSet(Alerts!CorpsesSay(corpses)) = CorpsesSaid(corpses)
<1> DEFINE S == IF corpses = Alerts!Unknown THEN {} ELSE Corpses
           f == [c \in S |-> <<CorpseCode(c), Alerts!CountsAfter(corpses)[c] = Persistence, "warning">>]
<1>1. CorpsesSaid(corpses) = {f[c] : c \in S}
  BY DEF CorpsesSaid
<1>2. IsFiniteSet(S)
  BY SameListings, FS_EmptySet DEF Alerts!ReducerConstants
<1>3. CorpsesSaid(corpses) \in SUBSET Saying
  <2>1. \A c \in Corpses : CorpseCode(c) \in Alerts!Codes /\ (Alerts!CountsAfter(corpses)[c] = Persistence) \in BOOLEAN
                             /\ "warning" \in Severities
    BY DEF Alerts!Codes, Severities, CorpseCode
  <2>2. \A c \in Corpses : <<CorpseCode(c), Alerts!CountsAfter(corpses)[c] = Persistence, "warning">> \in Saying
    BY <2>1, MaySay
  <2> QED  BY <2>2, Zenon DEF CorpsesSaid
<1>4. IsFiniteSet(CorpsesSaid(corpses))
  <2> HIDE DEF f, S
  <2> QED  BY <1>1, <1>2, ImageIsFinite
<1>5. Alerts!CorpsesSay(corpses) = Alerts!GoneLast(CorpsesSaid(corpses))
  BY DEF Alerts!CorpsesSay, CorpsesSaid, CorpseCode
<1> QED  BY <1>3, <1>4, <1>5, GoneAreLast

-----------------------------------------------------------------------------
LEMMA KindByKind ==
    ASSUME BorneOut(r1, r3, r5, r6)
    PROVE  Alerts!AlertsAreBorneOut
<1>1. /\ Alerts!Encumbrance \in Alerts!Codes /\ Alerts!Encumbrance[1] = "encumbrance"
      /\ \A s : Alerts!Code("spell", s)[1] = "spell" /\ Alerts!Code("spell", s)[2] = s
      /\ \A o : Alerts!Code("script", o)[1] = "script" /\ Alerts!Code("script", o)[2] = o
      /\ \A c : CorpseCode(c)[1] = "corpse" /\ CorpseCode(c)[2] = c
  BY DEF Alerts!Codes, Alerts!Encumbrance, Alerts!Code, CorpseCode
<1>2. /\ \A s \in Spells : Alerts!Code("spell", s) \in Alerts!Codes
      /\ \A o \in Owners : Alerts!Code("script", o) \in Alerts!Codes
      /\ \A c \in Corpses : CorpseCode(c) \in Alerts!Codes
      /\ \A code \in Alerts!Codes :
           \/ code = Alerts!Encumbrance
           \/ \E s \in Spells : code = Alerts!Code("spell", s)
           \/ \E o \in Owners : code = Alerts!Code("script", o)
           \/ \E c \in Corpses : code = CorpseCode(c)
  BY DEF Alerts!Codes, CorpseCode
<1>3. "encumbrance" # "spell" /\ "encumbrance" # "script" /\ "encumbrance" # "corpse"
      /\ "spell" # "script" /\ "spell" # "corpse" /\ "script" # "corpse"
  OBVIOUS
<1> SUFFICES ASSUME NEW code \in Alerts!Codes, r1[code] # ""
             PROVE  CASE code[1] = "encumbrance" -> \E n \in r5.level :
                             n >= Warning /\ (r1[code] = "critical" <=> n >= Emergency)
                      [] code[1] = "spell" -> code[2] \in r3 /\ \E there \in r5.spells : code[2] \notin there
                      [] code[1] = "script" -> \E lane \in r5.lane :
                             lane.owner \in {code[2], Alerts!NoOwner} /\ code[2] \notin lane.running
                      [] OTHER -> code[2] \in r6
  BY DEF Alerts!AlertsAreBorneOut
<1>4. CASE code = Alerts!Encumbrance
  BY <1>1, <1>4 DEF BorneOut
<1>5. ASSUME NEW s \in Spells, code = Alerts!Code("spell", s)
      PROVE  code[1] = "spell" /\ code[2] \in r3 /\ \E there \in r5.spells : code[2] \notin there
  BY <1>1, <1>5 DEF BorneOut
<1>6. ASSUME NEW o \in Owners, code = Alerts!Code("script", o)
      PROVE  code[1] = "script" /\ \E lane \in r5.lane : lane.owner \in {code[2], Alerts!NoOwner} /\ code[2] \notin lane.running
  BY <1>1, <1>6 DEF BorneOut
<1>7. ASSUME NEW c \in Corpses, code = CorpseCode(c)
      PROVE  code[1] = "corpse" /\ code[2] \in r6
  BY <1>1, <1>7 DEF BorneOut
<1> QED  BY <1>2, <1>3, <1>4, <1>5, <1>6, <1>7

LEMMA ReduceKept ==
    ASSUME AlertsInv, Alerts!ReducerConstants,
           NEW level \in Alerts!Field(Alerts!Levels), NEW spells \in Alerts!Field(SUBSET Spells),
           NEW lane \in Alerts!Field(Alerts!Lanes), NEW corpses \in Alerts!Field(SUBSET Corpses),
           Alerts!Reduce(level, spells, lane, corpses)
    PROVE  AlertsInv'
<1> DEFINE ofSpells == IF spells = {} THEN {} ELSE SpellsSaid(spells)
           said == LevelSaid(level) \cup ofSpells \cup ScriptsSaid(lane) \cup CorpsesSaid(corpses)
<1>1. r1' \in Activity /\ Borne(r1', said)
  <2> DEFINE spellsSay == IF spells = Alerts!Unknown THEN <<>> ELSE Alerts!SpellsSay(spells)
             says == Alerts!EncumbranceSays(level) \o spellsSay \o Alerts!ScriptsSay(lane) \o Alerts!CorpsesSay(corpses)
  <2>1. r1' = Alerts!After(says)
    BY DEF Alerts!Reduce
  <2>2. spellsSay \in Seq(Saying) /\ Alerts!ToSet(spellsSay) = ofSpells
    <3>1. CASE spells = {}
      <4>1. <<>> \in Seq(Saying) /\ Alerts!ToSet(<<>>) = {}
        BY DEF Alerts!ToSet
      <4> QED  BY <3>1, <4>1 DEF Alerts!Unknown
    <3>2. CASE spells # {}
      BY <3>2, SpellsTold DEF Alerts!Unknown
    <3> QED  BY <3>1, <3>2
  <2> HIDE DEF spellsSay, ofSpells
  <2>3. says \in Seq(Saying) /\ Alerts!ToSet(says) = said
    <3> DEFINE first == Alerts!EncumbranceSays(level)
               third == Alerts!ScriptsSay(lane)
               fourth == Alerts!CorpsesSay(corpses)
    <3>1. /\ first \in Seq(Saying) /\ third \in Seq(Saying) /\ fourth \in Seq(Saying)
          /\ Alerts!ToSet(first) = LevelSaid(level) /\ Alerts!ToSet(third) = ScriptsSaid(lane)
          /\ Alerts!ToSet(fourth) = CorpsesSaid(corpses)
      BY LevelTold, ScriptsTold, CorpsesTold
    <3> HIDE DEF first, third, fourth
    <3>2. first \o spellsSay \in Seq(Saying)
          /\ Alerts!ToSet(first \o spellsSay) = LevelSaid(level) \cup ofSpells
      BY <3>1, <2>2, SaidTogether
    <3>3. first \o spellsSay \o third \in Seq(Saying)
          /\ Alerts!ToSet(first \o spellsSay \o third) = LevelSaid(level) \cup ofSpells \cup ScriptsSaid(lane)
      BY <3>1, <3>2, SaidTogether
    <3>4. first \o spellsSay \o third \o fourth \in Seq(Saying)
          /\ Alerts!ToSet(first \o spellsSay \o third \o fourth) = said
      BY <3>1, <3>3, SaidTogether
    <3> QED  BY <3>4 DEF first, third, fourth
  <2>4. r1 \in Activity
    BY DEF AlertsInv
  <2> HIDE DEF says, said
  <2> QED  BY <2>1, <2>3, <2>4, AllIsSaid
<1>2. /\ Alerts!Encumbrance \in Alerts!Codes
      /\ \A s \in Spells : Alerts!Code("spell", s) \in Alerts!Codes
      /\ \A o \in Owners : Alerts!Code("script", o) \in Alerts!Codes
      /\ \A c \in Corpses : CorpseCode(c) \in Alerts!Codes
  BY DEF Alerts!Codes, CorpseCode
<1>3. /\ BorneOut(r1, r3, r5, r6) /\ r1 \in Activity
      /\ r2 \in [Corpses -> 0..Persistence] /\ r5.streak \in [Corpses -> 0..Persistence]
      /\ \A c \in Corpses : IF r1[CorpseCode(c)] = "" THEN r2[c] <= r5.streak[c] ELSE r2[c] = Persistence
  BY DEF AlertsInv
\* What is said of each kind of code.
<1>4. ASSUME NEW s \in said
      PROVE  \/ s \in LevelSaid(level) /\ s[1] = Alerts!Encumbrance
             \/ s \in ofSpells /\ \E x \in Spells : s[1] = Alerts!Code("spell", x)
             \/ s \in ScriptsSaid(lane) /\ \E o \in Owners : s[1] = Alerts!Code("script", o)
             \/ s \in CorpsesSaid(corpses) /\ \E c \in Corpses : s[1] = CorpseCode(c)
  <2>1. CASE s \in LevelSaid(level)
    BY <2>1 DEF LevelSaid
  <2>2. CASE s \in ofSpells
    BY <2>2 DEF SpellsSaid, SpellSaid
  <2>3. CASE s \in ScriptsSaid(lane)
    BY <2>3 DEF ScriptsSaid
  <2>4. CASE s \in CorpsesSaid(corpses)
    BY <2>4 DEF CorpsesSaid
  <2> QED  BY <2>1, <2>2, <2>3, <2>4
<1>5. /\ \A x : Alerts!Encumbrance # Alerts!Code("spell", x) /\ Alerts!Encumbrance # Alerts!Code("script", x)
                /\ Alerts!Encumbrance # CorpseCode(x)
      /\ \A x, y : Alerts!Code("spell", x) # Alerts!Code("script", y) /\ Alerts!Code("spell", x) # CorpseCode(y)
                   /\ Alerts!Code("script", x) # CorpseCode(y)
      /\ \A x, y : (Alerts!Code("spell", x) = Alerts!Code("spell", y) => x = y)
                   /\ (Alerts!Code("script", x) = Alerts!Code("script", y) => x = y)
                   /\ (CorpseCode(x) = CorpseCode(y) => x = y)
  BY DEF Alerts!Encumbrance, Alerts!Code, CorpseCode
<1> HIDE DEF ofSpells, said
<1>6. ASSUME NEW c \in Alerts!Codes, r1'[c] # ""
      PROVE  <<c, TRUE, r1'[c]>> \in said \/ (r1'[c] = r1[c] /\ \A s \in said : s[1] # c)
  BY <1>1, <1>6 DEF Borne
<1>7. /\ r5'.level = IF level = {} THEN r5.level ELSE level
      /\ r5'.spells = IF spells = {} THEN r5.spells ELSE spells
      /\ r5'.lane = IF lane = {} THEN r5.lane ELSE lane
      /\ r5'.streak = Alerts!Counted(corpses, r5.streak)
      /\ r3' = r3 \cup UNION spells /\ r2' = Alerts!CountsAfter(corpses)
      /\ r6' = {c \in Corpses : \/ r5'.streak[c] = Persistence
                                \/ c \in r6 /\ (corpses = {} \/ c \in UNION corpses)}
  BY DEF Alerts!Reduce, Alerts!Latest, Alerts!Unknown
<1>8. ASSUME r1'[Alerts!Encumbrance] # ""
      PROVE  \E n \in r5'.level : n >= Warning /\ (r1'[Alerts!Encumbrance] = "critical" <=> n >= Emergency)
  <2>1. CASE <<Alerts!Encumbrance, TRUE, r1'[Alerts!Encumbrance]>> \in said
    <3>1. <<Alerts!Encumbrance, TRUE, r1'[Alerts!Encumbrance]>> \in LevelSaid(level)
      BY <2>1, <1>4, <1>5
    <3>2. PICK n \in level : <<Alerts!Encumbrance, TRUE, r1'[Alerts!Encumbrance]>>
                             = <<Alerts!Encumbrance, n >= Warning, IF n >= Emergency THEN "critical" ELSE "warning">>
      BY <3>1 DEF LevelSaid
    <3>3. TRUE = (n >= Warning) /\ r1'[Alerts!Encumbrance] = IF n >= Emergency THEN "critical" ELSE "warning"
      BY <3>2
    <3>4. n >= Warning /\ n \in r5'.level
      BY <3>2, <3>3, <1>7
    <3> QED  BY <3>3, <3>4
  <2>2. CASE r1'[Alerts!Encumbrance] = r1[Alerts!Encumbrance] /\ \A s \in said : s[1] # Alerts!Encumbrance
    <3>1. level = {}
      <4>1. \A s \in LevelSaid(level) : s \in said /\ s[1] = Alerts!Encumbrance
        BY DEF LevelSaid, said
      <4>2. LevelSaid(level) = {}
        BY <2>2, <4>1
      <4> QED  BY <4>2 DEF LevelSaid
    <3> QED  BY <1>3, <1>7, <1>8, <2>2, <3>1 DEF BorneOut
  <2> QED  BY <1>2, <1>6, <1>8, <2>1, <2>2
<1>9. ASSUME NEW x \in Spells, r1'[Alerts!Code("spell", x)] # ""
      PROVE  x \in r3' /\ \E there \in r5'.spells : x \notin there
  <2> DEFINE c == Alerts!Code("spell", x)
  <2>1. CASE <<c, TRUE, r1'[c]>> \in said
    <3>1. <<c, TRUE, r1'[c]>> \in ofSpells
      BY <2>1, <1>4, <1>5
    <3>2. spells # {} /\ \E y \in Spells : <<c, TRUE, r1'[c]>> = <<Alerts!Code("spell", y), y \in r3 \ UNION spells, "warning">>
      BY <3>1 DEF ofSpells, SpellsSaid, SpellSaid
    <3>3. PICK y \in Spells : <<c, TRUE, r1'[c]>> = <<Alerts!Code("spell", y), y \in r3 \ UNION spells, "warning">>
      BY <3>2
    <3>4. c = Alerts!Code("spell", y) /\ TRUE = (y \in r3 \ UNION spells)
      BY <3>3
    <3>5. x \in r3 /\ x \notin UNION spells
      BY <3>4, <1>5
    <3>6. \E there \in spells : x \notin there
      BY <3>2, <3>5
    <3> QED  BY <3>2, <3>5, <3>6, <1>7
  <2>2. CASE r1'[c] = r1[c] /\ \A s \in said : s[1] # c
    <3>1. spells = {}
      <4>1. SUFFICES ASSUME spells # {}
                     PROVE  FALSE
        OBVIOUS
      <4>2. SpellSaid(spells)[x] \in said /\ SpellSaid(spells)[x][1] = c
        BY <4>1 DEF said, ofSpells, SpellsSaid, SpellSaid
      <4> QED  BY <2>2, <4>2
    <3> QED  BY <1>3, <1>7, <1>9, <2>2, <3>1 DEF BorneOut
  <2> QED  BY <1>2, <1>6, <1>9, <2>1, <2>2
<1>10. ASSUME NEW o \in Owners, r1'[Alerts!Code("script", o)] # ""
       PROVE  \E l \in r5'.lane : l.owner \in {o, Alerts!NoOwner} /\ o \notin l.running
  <2> DEFINE c == Alerts!Code("script", o)
  <2>1. CASE <<c, TRUE, r1'[c]>> \in said
    <3>1. <<c, TRUE, r1'[c]>> \in ScriptsSaid(lane)
      BY <2>1, <1>4, <1>5
    <3>2. PICK p \in Owners, l \in lane : <<c, TRUE, r1'[c]>> = <<Alerts!Code("script", p), Alerts!Missed(p, l), "warning">>
      <4>1. PICK m : lane = {m}
        <5>1. lane # {}
          <6>1. lane = {} => ScriptsSaid(lane) = {}
            BY DEF ScriptsSaid
          <6> QED  BY <3>1, <6>1
        <5> QED  BY <5>1 DEF Alerts!Field, Alerts!Unknown
      <4> DEFINE f == [p \in Owners |-> <<Alerts!Code("script", p), Alerts!Missed(p, m), "warning">>]
      <4>2. ScriptsSaid(lane) = {f[p] : p \in Owners}
        BY <4>1 DEF ScriptsSaid
      <4>3. PICK p \in Owners : <<c, TRUE, r1'[c]>> = f[p]
        <5> HIDE DEF f, c
        <5> QED  BY <3>1, <4>2
      <4> QED  BY <4>1, <4>3
    <3>3. c = Alerts!Code("script", p) /\ TRUE = Alerts!Missed(p, l)
      BY <3>2
    <3>4. p = o /\ Alerts!Missed(o, l)
      BY <3>3, <1>5
    <3>5. l.owner \in {o, Alerts!NoOwner} /\ o \notin l.running
      BY <3>4 DEF Alerts!Missed
    <3> QED  BY <3>2, <3>5, <1>7
  <2>2. CASE r1'[c] = r1[c] /\ \A s \in said : s[1] # c
    <3>1. lane = {}
      <4>1. \A l \in lane : <<c, Alerts!Missed(o, l), "warning">> \in said
        BY DEF said, ScriptsSaid
      <4> QED  BY <2>2, <4>1
    <3> QED  BY <1>3, <1>7, <1>10, <2>2, <3>1 DEF BorneOut
  <2> QED  BY <1>2, <1>6, <1>10, <2>1, <2>2
<1>0. 0 <= 0
  OBVIOUS
<1>11. /\ Persistence \in Nat \ {0}
       /\ \A n \in 0..Persistence : Alerts!CountUp(n) \in 0..Persistence
       /\ \A m, n \in 0..Persistence : m <= n => Alerts!CountUp(m) <= Alerts!CountUp(n)
       /\ \A m, n \in 0..Persistence : m <= n /\ Alerts!CountUp(m) = Persistence => Alerts!CountUp(n) = Persistence
       /\ Alerts!CountUp(Persistence) = Persistence
  BY DEF Alerts!ReducerConstants, Alerts!CountUp
<1>12. /\ r5'.streak = [c \in Corpses |-> IF c \in UNION corpses THEN Alerts!CountUp(r5.streak[c]) ELSE 0]
       /\ corpses = {} => r2' = [c \in Corpses |-> IF r1[CorpseCode(c)] = "" THEN 0 ELSE r2[c]]
       /\ corpses # {} => r2' = [c \in Corpses |-> IF c \in UNION corpses THEN Alerts!CountUp(r2[c]) ELSE 0]
  BY <1>7 DEF Alerts!Counted, Alerts!CountsAfter, Alerts!Unknown, CorpseCode
<1>13. r2' \in [Corpses -> 0..Persistence] /\ r5'.streak \in [Corpses -> 0..Persistence]
  <2>1. 0 \in 0..Persistence
    BY <1>11
  <2>2. \A c \in Corpses : r2[c] \in 0..Persistence /\ r5.streak[c] \in 0..Persistence
    BY <1>3
  <2>3. \A c \in Corpses : Alerts!CountUp(r2[c]) \in 0..Persistence /\ Alerts!CountUp(r5.streak[c]) \in 0..Persistence
    BY <1>11, <2>2
  <2>4. \A c \in Corpses : r5'.streak[c] \in 0..Persistence
    <3>1. ASSUME NEW c \in Corpses
          PROVE  r5'.streak[c] \in {0, Alerts!CountUp(r5.streak[c])}
      BY <1>12
    <3> QED  BY <2>1, <2>3, <3>1
  <2>5. \A c \in Corpses : r2'[c] \in 0..Persistence
    <3>1. ASSUME NEW c \in Corpses
          PROVE  r2'[c] \in {0, r2[c], Alerts!CountUp(r2[c])}
      BY <1>12
    <3> QED  BY <2>1, <2>2, <2>3, <3>1
  <2>6. r2' = [c \in Corpses |-> r2'[c]] /\ r5'.streak = [c \in Corpses |-> r5'.streak[c]]
    BY <1>12
  <2> QED  BY <2>4, <2>5, <2>6
<1>14. ASSUME NEW c \in Corpses
       PROVE  IF r1'[CorpseCode(c)] = "" THEN r2'[c] <= r5'.streak[c]
              ELSE r2'[c] = Persistence /\ c \in r6'
  <2> DEFINE code == CorpseCode(c)
  <2>1. code \in Alerts!Codes
    BY <1>2
  <2>2. /\ r1'[code] = "" => r1[code] = "" \/ \E w \in Severities : <<code, FALSE, w>> \in said
        /\ r1'[code] # "" => <<code, TRUE, r1'[code]>> \in said \/ (r1'[code] = r1[code] /\ \A s \in said : s[1] # code)
    BY <1>1, <2>1 DEF Borne
  <2>3. r2[c] \in 0..Persistence /\ r5.streak[c] \in 0..Persistence
        /\ (r1[code] = "" => r2[c] <= r5.streak[c]) /\ (r1[code] # "" => r2[c] = Persistence /\ c \in r6)
    BY <1>3 DEF BorneOut
  <2>4. ASSUME NEW s \in said, s[1] = code
        PROVE  corpses # {} /\ s[2] = (r2'[c] = Persistence)
    <3>1. s \in CorpsesSaid(corpses)
      BY <2>4, <1>4, <1>5
    <3>2. corpses # {} /\ \E d \in Corpses : s = <<CorpseCode(d), Alerts!CountsAfter(corpses)[d] = Persistence, "warning">>
      BY <3>1, Zenon DEF CorpsesSaid, Alerts!Unknown
    <3>3. PICK d \in Corpses : s = <<CorpseCode(d), Alerts!CountsAfter(corpses)[d] = Persistence, "warning">>
      BY <3>2
    <3>4. s[1] = CorpseCode(d) /\ s[2] = (Alerts!CountsAfter(corpses)[d] = Persistence)
      BY <3>3
    <3>5. d = c
      BY <2>4, <3>4, <1>5
    <3> QED  BY <3>2, <3>4, <3>5, <1>7
  <2>5. (\E w \in Severities : <<code, FALSE, w>> \in said) => corpses # {} /\ r2'[c] # Persistence
    BY <2>4
  <2>6. <<code, TRUE, r1'[code]>> \in said => corpses # {} /\ r2'[c] = Persistence
    BY <2>4
  <2>7. corpses # {} => ~\A s \in said : s[1] # code
    <3>1. ASSUME corpses # {}
          PROVE  <<code, Alerts!CountsAfter(corpses)[c] = Persistence, "warning">> \in said
      BY <3>1, Zenon DEF said, CorpsesSaid, Alerts!Unknown
    <3> QED  BY <3>1
  <2>8. CASE corpses = {}
    <3>1. r5'.streak[c] = 0 /\ r2'[c] = IF r1[code] = "" THEN 0 ELSE r2[c]
      BY <2>8, <1>12
    <3>2. c \in r6 => c \in r6'
      BY <2>8, <1>7
    <3>3. CASE r1'[code] = ""
      <4>1. r1[code] = ""
        BY <2>2, <2>5, <2>8, <3>3
      <4> QED  BY <3>1, <3>3, <4>1, <1>0
    <3>4. CASE r1'[code] # ""
      <4>1. r1[code] # ""
        BY <2>2, <2>6, <2>8, <3>4
      <4> QED  BY <2>3, <3>1, <3>2, <3>4, <4>1
    <3> QED  BY <3>3, <3>4
  <2>9. CASE corpses # {}
    <3>1. /\ r5'.streak[c] = IF c \in UNION corpses THEN Alerts!CountUp(r5.streak[c]) ELSE 0
          /\ r2'[c] = IF c \in UNION corpses THEN Alerts!CountUp(r2[c]) ELSE 0
      BY <2>9, <1>12
    <3>2. c \in r6' <=> r5'.streak[c] = Persistence \/ (c \in r6 /\ c \in UNION corpses)
      BY <2>9, <1>7
    <3>3. CASE r1'[code] = ""
      <4>1. CASE r1[code] = ""
        <5>1. r2[c] <= r5.streak[c] /\ Alerts!CountUp(r2[c]) <= Alerts!CountUp(r5.streak[c])
          <6> HIDE DEF code
          <6> QED  BY <4>1, <2>3, <1>11
        <5> QED  BY <3>1, <3>3, <5>1, <1>0
      <4>2. CASE r1[code] # ""
        <5>1. r2'[c] # Persistence /\ r2[c] = Persistence
          BY <4>2, <2>2, <2>3, <2>5, <3>3
        <5>2. c \notin UNION corpses
          BY <5>1, <3>1, <1>11
        <5> QED  BY <5>2, <3>1, <3>3, <1>0
      <4> QED  BY <4>1, <4>2
    <3>4. CASE r1'[code] # ""
      <4>1. r2'[c] = Persistence
        BY <2>2, <2>6, <2>7, <2>9, <3>4
      <4>2. c \in UNION corpses
        BY <4>1, <3>1, <1>11
      <4>3. CASE r1[code] = ""
        <5>1. r2[c] <= r5.streak[c] /\ Alerts!CountUp(r2[c]) = Persistence
          BY <4>1, <4>2, <4>3, <2>3, <3>1
        <5>2. Alerts!CountUp(r5.streak[c]) = Persistence
          BY <5>1, <2>3, <1>11
        <5> QED  BY <5>2, <3>1, <3>2, <3>4, <4>1, <4>2
      <4>4. CASE r1[code] # ""
        BY <4>1, <4>2, <4>4, <2>3, <3>2, <3>4
      <4> QED  BY <4>3, <4>4
    <3> QED  BY <3>3, <3>4
  <2> QED  BY <2>8, <2>9
<1>15. BorneOut(r1', r3', r5', r6')
  BY <1>8, <1>9, <1>10, <1>14 DEF BorneOut
<1> QED  BY <1>1, <1>13, <1>14, <1>15 DEF AlertsInv

LEMMA AlertsStepKept ==
    ASSUME AlertsInv, Alerts!ReducerConstants, Alerts!Next
    PROVE  AlertsInv'
<1>1. CASE Alerts!NewGeneration
  <2>1. r1' = [c \in Alerts!Codes |-> ""] /\ r2' = [c \in Corpses |-> 0] /\ r5'.streak = [c \in Corpses |-> 0]
    BY <1>1 DEF Alerts!NewGeneration, Alerts!NothingKnown
  <2>2. r1' \in Activity
    BY <2>1 DEF Activity
  <2>3. \A c \in Corpses : r1'[CorpseCode(c)] = ""
    BY <2>1 DEF Alerts!Codes, CorpseCode
  <2>4. BorneOut(r1', r3', r5', r6')
    BY <2>1, <2>3 DEF BorneOut, Alerts!Codes
  <2>5. 0 \in 0..Persistence
    BY DEF Alerts!ReducerConstants
  <2>6. r2' \in [Corpses -> 0..Persistence] /\ r5'.streak \in [Corpses -> 0..Persistence]
    BY <2>1, <2>5
  <2>7. \A c \in Corpses : r2'[c] <= r5'.streak[c]
    <3>1. \A c \in Corpses : r2'[c] = 0 /\ r5'.streak[c] = 0
      BY <2>1
    <3> QED  BY <3>1, 0 <= 0
  <2> QED  BY <2>2, <2>3, <2>4, <2>6, <2>7 DEF AlertsInv
<1> QED  BY <1>1, ReduceKept DEF Alerts!Next

AlertsHold == component = "alerts" => AlertsInv

THEOREM AlertsInvariance == ComponentsSpec => []AlertsHold
<1>1. ComponentsInit => AlertsHold
  BY AlertsInitially, ComponentConstants DEF ComponentsInit, AlertsHold
<1>2. ASSUME AlertsHold, [ComponentsNext]_all
      PROVE  AlertsHold'
  <2>1. CASE ComponentsNext
    BY <1>2, <2>1, AlertsStepKept, ComponentConstants DEF ComponentsNext, AlertsHold
  <2>2. CASE UNCHANGED all
    BY <1>2, <2>2 DEF all, registers, AlertsHold, AlertsInv, BorneOut
  <2> QED  BY <1>2, <2>1, <2>2
<1> QED  BY <1>1, <1>2, PTL DEF ComponentsSpec

(***************************************************************************)
(* WatcherReducer.reduce of watchers.py, for every set of spells, owners   *)
(* and corpses, every threshold and every limit on active alerts: however  *)
(* many snapshots knew nothing of it, an active alert is borne out by what *)
(* was last known in this generation.                                      *)
(***************************************************************************)
THEOREM AlertsRestOnWhatIsKnown == ComponentsSpec => []AlertsAreBorneOut
<1>1. AlertsHold => AlertsAreBorneOut
  BY KindByKind DEF AlertsHold, AlertsInv, AlertsAreBorneOut
<1> QED  BY <1>1, AlertsInvariance, PTL

-----------------------------------------------------------------------------
(***************************************************************************)
(* EvidenceLoop.  What this batch wants last and most is before every      *)
(* other entry, so that it is selected first; it fits beside the manifest  *)
(* of the others, because the constructor leaves room for it.              *)
(***************************************************************************)
Entries == [request : Requests, touched : Nat, again : BOOLEAN]

LoopTypes(rounds, used, finalOnly, entries, index, batch, executed, turns, wanted) ==
    /\ rounds \in 0..MaxRounds /\ used \in 0..MaxRequests /\ finalOnly \in BOOLEAN /\ turns \in Nat
    /\ entries \in Seq(Entries) /\ batch \in Seq(Requests) /\ Len(entries) + Len(batch) <= used
    /\ index \in [Requests -> 0..Len(entries)] /\ executed \in [Requests -> Nat]
    /\ wanted \in 0..Len(entries)

\* The turns are bounded by the rounds, and one turn without tools.
TurnsBounded(at, rounds, finalOnly, turns) ==
    /\ turns <= MaxRounds + 1
    /\ at = "turn" => turns <= MaxRounds /\ (~finalOnly => turns <= rounds /\ rounds < MaxRounds)
    /\ at = "model" /\ ~finalOnly => turns <= rounds + 1 /\ rounds < MaxRounds
    /\ at \in {"run", "busy"} => ~finalOnly /\ turns <= rounds

\* What was executed is in the index, but for the request in progress.
ExecutedOnce(at, index, batch, executed) ==
    \A q \in Requests :
        /\ executed[q] <= 1
        /\ at \in {"turn", "model", "run"} => (executed[q] = 0 \/ index[q] # 0)
        /\ at = "busy" => (executed[q] = 0 \/ index[q] # 0 \/ q = Head(batch))

RankIn(entries, i) == IF entries[i].again THEN 4 ELSE Priority[entries[i].request]
BeforeIn(entries, i, j) ==
    \/ RankIn(entries, i) > RankIn(entries, j)
    \/ RankIn(entries, i) = RankIn(entries, j) /\ entries[i].touched > entries[j].touched

\* What is wanted is before every other entry, and is again when any is.
WantedFirst(entries, wanted) ==
    /\ wanted # 0 => RankIn(entries, wanted) >= Loop!Read
                     /\ \A j \in DOMAIN entries : j # wanted => BeforeIn(entries, wanted, j)
    /\ \A j \in DOMAIN entries : entries[j].again => wanted # 0 /\ entries[wanted].again

\* An entry is as old as its last request, and a request shares it with the
\* same identity only.
Stored(used, entries, index, batch) ==
    /\ \A i \in DOMAIN entries : entries[i].touched < used - Len(batch)
    /\ \A q \in Requests : index[q] # 0 => Identity[entries[index[q]].request] = Identity[q]

LoopInv ==
    /\ LoopTypes(r2, r3, r4, r5, r6, r8, r9, r10, r12)
    /\ r1 \in {"turn", "model"} => r8 = <<>>
    /\ r1 = "busy" => r8 # <<>>
    /\ r1 \in {"turn", "model", "run", "busy"} =>
         Stored(r3, r5, r6, r8)
    /\ TurnsBounded(r1, r2, r4, r10)
    /\ ExecutedOnce(r1, r6, r8, r9)
    /\ r1 \in {"turn", "run", "busy"} => WantedFirst(r5, r12)
    /\ r1 = "model" => (\A i \in DOMAIN r5 : ~r5[i].again) /\ Loop!Fits(r7) /\ (r12 # 0 => r12 \in r7)
    /\ r1 = "invalid" => Loop!Executions = r13

LEMMA TotalIs ==
    ASSUME NEW sizes \in Seq(Nat)
    PROVE  \E f : /\ Loop!Total(sizes) = f[Len(sizes)] /\ f[0] = 0
                  /\ \A n \in 1..Len(sizes) : f[n] = f[n - 1] + sizes[n]
<1> DEFINE N == Len(sizes)
           step == [n \in 1..N |-> [sum \in Nat |-> sum + sizes[n]]]
           Upwards(f) == f = [n \in 0..N |-> IF n = 0 THEN 0 ELSE f[n - 1] + sizes[n]]
           upTo == CHOOSE f : Upwards(f)
<1>1. N \in Nat /\ Steps(step, N, Nat)
  <2>1. N \in Nat
    OBVIOUS
  <2>2. ASSUME NEW n \in 1..N
        PROVE  [sum \in Nat |-> sum + sizes[n]] \in [Nat -> Nat]
    <3>1. sizes[n] \in Nat
      OBVIOUS
    <3>2. \A sum \in Nat : sum + sizes[n] \in Nat
      BY <3>1
    <3> QED  BY <3>2
  <2>3. step \in [1..N -> [Nat -> Nat]]
    BY <2>2
  <2> QED  BY <2>1, <2>3 DEF Steps
<1> HIDE DEF N
<1>2. \E f : Upwards(f)
  <2>1. PICK f : Stepwise(f, N, Nat, 0, step)
    <3> HIDE DEF step
    <3> QED  BY <1>1, 0 \in Nat, Recursion
  <2>2. \A n \in 1..N : n - 1 \in 0..N
    BY <1>1
  <2>3. \A n \in 1..N : step[n][f[n - 1]] = f[n - 1] + sizes[n]
    BY <2>1, <2>2 DEF Stepwise
  <2> HIDE DEF step
  <2>4. \A n \in 0..N : n # 0 => n \in 1..N
    BY <1>1
  <2>5. \A n \in 0..N : f[n] = IF n = 0 THEN 0 ELSE f[n - 1] + sizes[n]
    BY <2>1, <2>3, <2>4 DEF Stepwise
  <2>6. Upwards(f)
    BY <2>1, <2>5 DEF Stepwise
  <2> QED  BY <2>6
<1>3. Upwards(upTo)
  BY <1>2
<1>4. Loop!Total(sizes) = upTo[N]
  BY DEF Loop!Total, N
<1> HIDE DEF upTo
<1>5. upTo[0] = 0 /\ \A n \in 1..N : upTo[n] = upTo[n - 1] + sizes[n]
  <2>1. 0 \in 0..N /\ \A n \in 1..N : n \in 0..N /\ n # 0
    BY <1>1
  <2> QED  BY <1>3, <2>1
<1> QED  BY <1>4, <1>5 DEF N

\* When only one size is more than an entry of the manifest.
LEMMA TotalIsBounded ==
    ASSUME NEW sizes \in Seq(Nat), NEW m \in Nat \ {0}, NEW w \in Nat,
           \A i \in DOMAIN sizes : IF i = w THEN sizes[i] <= m ELSE sizes[i] <= 1
    PROVE  Loop!Total(sizes) \in Nat /\ Loop!Total(sizes) <= IF sizes = <<>> THEN 0 ELSE Len(sizes) - 1 + m
<1> DEFINE N == Len(sizes)
<1>1. PICK f : /\ Loop!Total(sizes) = f[N] /\ f[0] = 0
               /\ \A n \in 1..N : f[n] = f[n - 1] + sizes[n]
  BY TotalIs
<1>2. N \in Nat /\ DOMAIN sizes = 1..N /\ \A n \in 1..N : sizes[n] \in Nat
  OBVIOUS
<1> DEFINE Most(n) == n + (IF 1 <= w /\ w <= n THEN m - 1 ELSE 0)
           T == {n \in 0..N : f[n] \in Nat /\ f[n] <= Most(n)}
<1>3. T \in SUBSET (0..N) /\ 0 \in T
  BY <1>1, <1>2
<1>4. ASSUME NEW n \in 0..(N - 1), n \in T
      PROVE  n + 1 \in T
  <2>1. n + 1 \in 1..N /\ n + 1 \in 0..N /\ (n + 1) - 1 = n /\ n \in Nat
    BY <1>2
  <2>2. f[n + 1] = f[n] + sizes[n + 1] /\ sizes[n + 1] \in Nat
    BY <1>1, <1>2, <2>1
  <2>3. IF n + 1 = w THEN sizes[n + 1] <= m ELSE sizes[n + 1] <= 1
    BY <1>2, <2>1
  <2>4. f[n] \in Nat /\ f[n] <= Most(n)
    BY <1>4
  <2>5. f[n + 1] \in Nat /\ f[n + 1] <= Most(n + 1)
    <3>1. CASE n + 1 = w
      BY <2>1, <2>2, <2>3, <2>4, <3>1
    <3>2. CASE n + 1 # w
      BY <2>1, <2>2, <2>3, <2>4, <3>2
    <3> QED  BY <3>1, <3>2
  <2> HIDE DEF Most
  <2> QED  BY <2>1, <2>5
<1>5. T = 0..N
  <2> HIDE DEF T, N
  <2> QED  BY <1>2, <1>3, <1>4, UptoInduction
<1>6. N \in T
  BY <1>2, <1>5
<1>7. f[N] \in Nat /\ f[N] <= Most(N)
  BY <1>6
<1>8. Most(N) <= IF sizes = <<>> THEN 0 ELSE N - 1 + m
  <2>1. CASE sizes = <<>>
    BY <2>1
  <2>2. CASE sizes # <<>>
    <3>1. N >= 1
      BY <2>2
    <3> QED  BY <2>2, <3>1, <1>2
  <2> QED  BY <2>1, <2>2
<1> QED  BY <1>1, <1>2, <1>7, <1>8

EntriesOK == r5 \in Seq(Entries) /\ Len(r5) <= MaxRequests

LEMMA EntryTypes ==
    ASSUME NEW s \in Seq(Entries)
    PROVE  /\ Len(s) \in Nat /\ DOMAIN s = 1..Len(s)
           /\ \A i \in DOMAIN s : s[i] \in Entries /\ s[i].request \in Requests /\ s[i].touched \in Nat
                                  /\ s[i].again \in BOOLEAN
<1>1. Len(s) \in Nat /\ DOMAIN s = 1..Len(s) /\ \A i \in DOMAIN s : s[i] \in Entries
  OBVIOUS
<1>2. \A e \in Entries : e.request \in Requests /\ e.touched \in Nat /\ e.again \in BOOLEAN
  BY DEF Entries
<1> QED  BY <1>1, <1>2

\* Nothing in full, or one record, fits.
LEMMA OneFits ==
    ASSUME Loop!LoopLimits, EntriesOK, NEW w \in Nat, NEW shown \in {{}, {w}}
    PROVE  Loop!Fits(shown)
<1> DEFINE sizes == [i \in DOMAIN r5 |-> IF i \in shown THEN Loop!FullSize(i) ELSE 1]
<1>1. Len(r5) \in Nat /\ DOMAIN r5 = 1..Len(r5) /\ \A i \in DOMAIN r5 : r5[i].request \in Requests
  BY EntryTypes DEF EntriesOK
<1>2. /\ MaxResult \in Nat \ {0} /\ MaxRequests \in Nat \ {0} /\ MaxContext \in Nat
      /\ MaxResult + MaxRequests - 1 <= MaxContext /\ Len(r5) <= MaxRequests
      /\ \A q \in Requests : Size[q] \in Nat
  BY DEF Loop!LoopLimits, EntriesOK
<1>3. ASSUME NEW i \in DOMAIN r5
      PROVE  Loop!FullSize(i) \in Nat /\ Loop!FullSize(i) <= MaxResult
  BY <1>1, <1>2 DEF Loop!FullSize, Loop!Omitted
<1>4. \A i \in DOMAIN r5 : sizes[i] \in Nat /\ IF i = w THEN sizes[i] <= MaxResult ELSE sizes[i] <= 1
  BY <1>2, <1>3
<1>5. DOMAIN sizes = DOMAIN r5 /\ sizes = [i \in DOMAIN r5 |-> sizes[i]]
  OBVIOUS
<1>6. Loop!Fits(shown) <=> Loop!Total(sizes) <= MaxContext
  BY DEF Loop!Fits, Loop!Cost
<1> HIDE DEF sizes
<1>7. sizes \in Seq(Nat) /\ Len(sizes) = Len(r5)
  BY <1>1, <1>4, <1>5
<1>8. Loop!Total(sizes) \in Nat /\ Loop!Total(sizes) <= IF sizes = <<>> THEN 0 ELSE Len(sizes) - 1 + MaxResult
  BY <1>2, <1>4, <1>5, <1>7, TotalIsBounded
<1> QED  BY <1>1, <1>2, <1>6, <1>7, <1>8

LEMMA WantedIsMostWanted ==
    ASSUME Loop!LoopLimits, EntriesOK, r12 \in DOMAIN r5, WantedFirst(r5, r12)
    PROVE  Loop!MostWanted(DOMAIN r5) = r12
<1>1. \A i \in DOMAIN r5 : Loop!Rank(i) \in Nat /\ r5[i].touched \in Nat
  <2>1. \A i \in DOMAIN r5 : r5[i].request \in Requests /\ r5[i].touched \in Nat
    BY EntryTypes DEF EntriesOK
  <2>2. \A q \in Requests : Priority[q] \in Nat
    BY DEF Loop!LoopLimits, Loop!Read
  <2> QED  BY <2>1, <2>2 DEF Loop!Rank
<1>2. \A j \in DOMAIN r5 : j # r12 => Loop!Before(r12, j)
  <2>1. r12 # 0
    BY EntryTypes DEF EntriesOK
  <2>2. \A i : Loop!Rank(i) = RankIn(r5, i)
    BY DEF Loop!Rank, RankIn
  <2>3. \A j \in DOMAIN r5 : j # r12 => BeforeIn(r5, r12, j)
    BY <2>1 DEF WantedFirst
  <2> QED  BY <2>2, <2>3 DEF BeforeIn, Loop!Before
<1>3. \A j \in DOMAIN r5 : Loop!Before(r12, j) => ~Loop!Before(j, r12)
  BY <1>1 DEF Loop!Before
<1>4. \A i \in DOMAIN r5 : (\A j \in DOMAIN r5 \ {i} : Loop!Before(i, j)) <=> i = r12
  BY <1>2, <1>3
<1> QED  BY <1>4 DEF Loop!MostWanted

LEMMA SelectionHolds ==
    ASSUME Loop!LoopLimits, EntriesOK, r12 \in 0..Len(r5), WantedFirst(r5, r12)
    PROVE  Loop!Fits(Loop!Selection) /\ (r12 # 0 => r12 \in Loop!Selection)
<1> DEFINE N == Len(r5)
           Places == DOMAIN r5
           V == Places \cup {Loop!MostWanted(left) : left \in SUBSET Places}
           S == [shown : SUBSET V, left : SUBSET Places]
           Wider(s) == s.shown \cup {Loop!MostWanted(s.left)}
           After(s) == [shown |-> IF Loop!Fits(Wider(s)) THEN Wider(s) ELSE s.shown,
                        left  |-> s.left \ {Loop!MostWanted(s.left)}]
           base == [shown |-> {}, left |-> Places]
           step == [n \in 1..N |-> [s \in S |-> After(s)]]
           Upwards(f) == f = [n \in 0..N |-> IF n = 0 THEN base ELSE After(f[n - 1])]
           upTo == CHOOSE f : Upwards(f)
           \* The wanted entry is shown as soon as anything was considered.
           Good == {s \in S : Loop!Fits(s.shown) /\ (r12 # 0 => s = base \/ r12 \in s.shown)}
<1>1. N \in Nat /\ Places = 1..N /\ base \in S
  BY DEF EntriesOK
<1>2. ASSUME NEW s \in S
      PROVE  After(s) \in S
  <2>1. s.shown \subseteq V /\ s.left \subseteq Places /\ Loop!MostWanted(s.left) \in V
    OBVIOUS
  <2> HIDE DEF V, Places
  <2> QED  BY <2>1
<1>3. Loop!Selection = upTo[N].shown
  BY DEF Loop!Selection
<1>4. base \in Good
  <2>1. Loop!Fits({})
    BY OneFits, 0 \in Nat
  <2> QED  BY <1>1, <2>1
<1>5. ASSUME NEW s \in Good
      PROVE  After(s) \in Good /\ (r12 # 0 => r12 \in After(s).shown)
  <2>1. After(s) \in S /\ Loop!Fits(s.shown)
    BY <1>2
  <2>2. Loop!Fits(After(s).shown)
    BY <2>1
  <2>3. ASSUME r12 # 0
        PROVE  r12 \in After(s).shown
    <3>1. CASE r12 \in s.shown
      BY <3>1
    <3>2. CASE s = base
      <4>1. r12 \in DOMAIN r5 /\ r12 \in Nat
        BY <2>3 DEF EntriesOK
      <4>2. Loop!MostWanted(s.left) = r12
        BY <3>2, <4>1, WantedIsMostWanted
      <4>3. Wider(s) = {r12}
        BY <3>2, <4>2
      <4>4. Loop!Fits(Wider(s))
        BY <4>1, <4>3, OneFits
      <4> QED  BY <4>3, <4>4
    <3> QED  BY <2>3, <3>1, <3>2
  <2> HIDE DEF After
  <2> QED  BY <2>1, <2>2, <2>3
<1> HIDE DEF N, S, V, Places, After, base
<1>6. \E f : Upwards(f)
  <2>1. PICK f : Stepwise(f, N, S, base, step)
    <3>1. Steps(step, N, S)
      BY <1>2 DEF Steps
    <3> HIDE DEF step
    <3> QED  BY <1>1, <3>1, Recursion
  <2>2. \A n \in 1..N : n - 1 \in 0..N
    BY <1>1
  <2>3. \A n \in 1..N : step[n][f[n - 1]] = After(f[n - 1])
    BY <2>1, <2>2 DEF Stepwise
  <2> HIDE DEF step
  <2>4. \A n \in 0..N : n # 0 => n \in 1..N
    BY <1>1
  <2>5. \A n \in 0..N : f[n] = IF n = 0 THEN base ELSE After(f[n - 1])
    BY <2>1, <2>3, <2>4 DEF Stepwise
  <2>6. Upwards(f)
    BY <2>1, <2>5 DEF Stepwise
  <2> QED  BY <2>6
<1>7. Upwards(upTo)
  BY <1>6
<1> HIDE DEF upTo
<1>8. upTo[0] = base /\ \A n \in 1..N : upTo[n] = After(upTo[n - 1])
  <2>1. 0 \in 0..N /\ \A n \in 1..N : n \in 0..N /\ n # 0
    BY <1>1
  <2> QED  BY <1>7, <2>1
<1>9. upTo[0] \in Good /\ \A n \in 1..N : upTo[n - 1] \in Good => upTo[n] \in Good
  <2> HIDE DEF Good
  <2> QED  BY <1>4, <1>5, <1>8
<1>10. \A n \in 0..N : upTo[n] \in Good
  <2> HIDE DEF Good
  <2> QED  BY <1>1, <1>9, StaysIn
<1>11. Loop!Fits(upTo[N].shown)
  <2>1. N \in 0..N
    BY <1>1
  <2> QED  BY <1>10, <2>1
<1>12. ASSUME r12 # 0
       PROVE  r12 \in upTo[N].shown
  <2>1. N \in 1..N /\ N - 1 \in 0..N
    BY <1>1, <1>12 DEF N
  <2>2. upTo[N - 1] \in Good /\ upTo[N] = After(upTo[N - 1])
    BY <1>8, <1>10, <2>1
  <2> HIDE DEF Good
  <2> QED  BY <1>5, <1>12, <2>2
<1> QED  BY <1>3, <1>11, <1>12

-----------------------------------------------------------------------------
LEMMA LoopInitially ==
    ASSUME Loop!LoopLimits, Loop!Init
    PROVE  LoopInv
<1>1. /\ r1 = "turn" /\ r2 = 0 /\ r3 = 0 /\ r4 = FALSE /\ r5 = <<>> /\ r6 = [q \in Requests |-> 0] /\ r7 = {}
      /\ r8 = <<>> /\ r9 = [q \in Requests |-> 0] /\ r10 = 0 /\ r12 = 0 /\ r13 = 0
  BY DEF Loop!Init
<1>2. MaxRounds \in Nat \ {0} /\ MaxRequests \in Nat \ {0}
  BY DEF Loop!LoopLimits
<1>3. LoopTypes(r2, r3, r4, r5, r6, r8, r9, r10, r12)
  <2>1. <<>> \in Seq(Entries) /\ <<>> \in Seq(Requests) /\ Len(<<>>) = 0
    OBVIOUS
  <2>2. r6 \in [Requests -> 0..0] /\ r9 \in [Requests -> Nat]
    BY <1>1
  <2>3. 0 \in 0..MaxRounds /\ 0 \in 0..MaxRequests /\ 0 \in 0..0 /\ 0 \in Nat /\ 0 + 0 <= 0
    BY <1>2
  <2> QED  BY <1>1, <2>1, <2>2, <2>3 DEF LoopTypes
<1>4. Stored(r3, r5, r6, r8) /\ WantedFirst(r5, r12)
  BY <1>1 DEF Stored, WantedFirst
<1>5. TurnsBounded(r1, r2, r4, r10)
  BY <1>1, <1>2 DEF TurnsBounded
<1>6. ExecutedOnce(r1, r6, r8, r9)
  <2>1. \A q \in Requests : r9[q] = 0
    BY <1>1
  <2> QED  BY <1>1, <2>1, 0 <= 1 DEF ExecutedOnce
<1> QED  BY <1>1, <1>3, <1>4, <1>5, <1>6 DEF LoopInv

\* Nothing changes any more when the loop ends.
LEMMA EndKept ==
    ASSUME LoopInv, UNCHANGED <<r2, r3, r4, r5, r6, r8, r9, r10>>, r12' \in {0, r12},
           r1' \in Loop!Ends, r1' = "invalid" => Loop!Executions' = r13'
    PROVE  LoopInv'
<1>1. r1' \notin {"turn", "model", "run", "busy"}
  BY DEF Loop!Ends
<1>2. LoopTypes(r2, r3, r4, r5, r6, r8, r9, r10, r12)'
  BY DEF LoopInv, LoopTypes
<1>3. TurnsBounded(r1, r2, r4, r10)' /\ ExecutedOnce(r1, r6, r8, r9)'
  BY <1>1 DEF LoopInv, TurnsBounded, ExecutedOnce
<1> QED  BY <1>1, <1>2, <1>3 DEF LoopInv

\* One entry, at i, is asked for now, and the others stay.
Renewed(e, f, i, clock) ==
    /\ i \in DOMAIN f /\ f[i].touched = clock
    /\ \A j \in DOMAIN f : j # i => j \in DOMAIN e /\ f[j] = e[j]

LEMMA Ranks ==
    ASSUME Loop!LoopLimits, NEW e \in Seq(Entries), NEW i \in DOMAIN e
    PROVE  /\ RankIn(e, i) \in Nat /\ RankIn(e, i) <= 4 /\ Priority[e[i].request] \in 0..3
           /\ e[i].again => RankIn(e, i) = 4
           /\ ~e[i].again => RankIn(e, i) = Priority[e[i].request]
<1>1. e[i].request \in Requests
  BY EntryTypes
<1>2. Priority[e[i].request] \in 0..3
  BY <1>1 DEF Loop!LoopLimits, Loop!Read
<1> QED  BY <1>2 DEF RankIn

\* It comes first when nothing ranks above it.
LEMMA NewestFirst ==
    ASSUME Loop!LoopLimits, NEW e \in Seq(Entries), NEW f \in Seq(Entries), NEW i, NEW clock \in Nat,
           Renewed(e, f, i, clock), \A j \in DOMAIN e : e[j].touched < clock,
           RankIn(f, i) >= 3,
           \A j \in DOMAIN e : e[j].again => f[i].again
    PROVE  WantedFirst(f, i)
<1>1. i \in DOMAIN f /\ f[i].touched = clock /\ i # 0
  BY EntryTypes DEF Renewed
<1>2. ASSUME NEW j \in DOMAIN f, j # i
      PROVE  BeforeIn(f, i, j)
  <2>1. j \in DOMAIN e /\ f[j] = e[j] /\ f[j].touched < f[i].touched
    BY <1>1, <1>2 DEF Renewed
  <2>2. RankIn(f, j) <= RankIn(f, i)
    <3>1. CASE f[j].again
      <4>1. f[i].again
        BY <2>1, <3>1
      <4> QED  BY <1>1, <3>1, <4>1, Ranks
    <3>2. CASE ~f[j].again
      <4>1. RankIn(f, j) \in 0..3 /\ RankIn(f, i) \in Nat
        BY <1>1, <3>2, Ranks
      <4> QED  BY <4>1
    <3> QED  BY <3>1, <3>2
  <2>3. RankIn(f, i) \in Nat /\ RankIn(f, j) \in Nat /\ f[i].touched \in Nat /\ f[j].touched \in Nat
    BY <1>1, Ranks, EntryTypes
  <2> QED  BY <2>1, <2>2, <2>3 DEF BeforeIn
<1>3. ASSUME NEW j \in DOMAIN f, f[j].again
      PROVE  f[i].again
  BY <1>3 DEF Renewed
<1> QED  BY <1>1, <1>2, <1>3 DEF WantedFirst, Loop!Read

\* What was wanted stays first when the other ranks below it.
LEMMA WantedStaysFirst ==
    ASSUME Loop!LoopLimits, NEW e \in Seq(Entries), NEW f \in Seq(Entries), NEW i, NEW clock \in Nat, NEW w,
           Renewed(e, f, i, clock), DOMAIN e \subseteq DOMAIN f, WantedFirst(e, w), w = 0 \/ w \in DOMAIN e,
           ~f[i].again, w # 0 => w # i /\ RankIn(f, i) < RankIn(e, w)
    PROVE  WantedFirst(f, w)
<1>1. ASSUME w # 0
      PROVE  RankIn(f, w) >= Loop!Read /\ f[w] = e[w]
  <2>1. w \in DOMAIN f /\ f[w] = e[w]
    BY <1>1 DEF Renewed
  <2> QED  BY <1>1, <2>1 DEF WantedFirst, RankIn
<1>2. ASSUME NEW j \in DOMAIN f, w # 0, j # w
      PROVE  BeforeIn(f, w, j)
  <2>1. f[w] = e[w] /\ RankIn(f, w) = RankIn(e, w)
    BY <1>1, <1>2 DEF RankIn
  <2>2. CASE j = i
    BY <1>2, <2>1, <2>2 DEF BeforeIn
  <2>3. CASE j # i
    <3>1. j \in DOMAIN e /\ f[j] = e[j] /\ RankIn(f, j) = RankIn(e, j)
      BY <2>3 DEF Renewed, RankIn
    <3>2. BeforeIn(e, w, j)
      BY <1>2, <3>1 DEF WantedFirst
    <3> QED  BY <2>1, <3>1, <3>2 DEF BeforeIn
  <2> QED  BY <2>2, <2>3
<1>3. ASSUME NEW j \in DOMAIN f, f[j].again
      PROVE  w # 0 /\ f[w].again
  <2>1. j # i
    BY <1>3
  <2>2. j \in DOMAIN e /\ e[j].again
    BY <1>3, <2>1 DEF Renewed
  <2>3. w # 0 /\ e[w].again
    BY <2>2 DEF WantedFirst
  <2> QED  BY <2>3, <1>1
<1> QED  BY <1>1, <1>2, <1>3 DEF WantedFirst

LEMMA TurnKept ==
    ASSUME LoopInv, Loop!LoopLimits, Loop!Turn
    PROVE  LoopInv'
<1>1. r1 = "turn" /\ UNCHANGED <<r8, r11, r13>>
  BY DEF Loop!Turn
<1>2. CASE Loop!Stops
  BY <1>1, <1>2, EndKept DEF Loop!Turn, Loop!Stops, Loop!budget, Loop!store, Loop!Ends
<1>3. CASE ~Loop!Stops
  <2>1. /\ r1' = "model" /\ r10' = r10 + 1 /\ r7' = Loop!Selection
        /\ r5' = [i \in DOMAIN r5 |-> [r5[i] EXCEPT !.again = FALSE]]
        /\ UNCHANGED <<r2, r3, r4, r6, r9, r12>>
    BY <1>1, <1>3 DEF Loop!Turn, Loop!Stops
  <2>2. LoopTypes(r2, r3, r4, r5, r6, r8, r9, r10, r12) /\ Stored(r3, r5, r6, r8) /\ WantedFirst(r5, r12) /\ r8 = <<>>
    BY <1>1 DEF LoopInv
  <2>3. r5 \in Seq(Entries) /\ Len(r5) \in Nat /\ DOMAIN r5 = 1..Len(r5) /\ r12 \in 0..Len(r5) /\ Len(r5) <= MaxRequests
        /\ r3 \in Nat
    <3>1. r5 \in Seq(Entries) /\ r8 \in Seq(Requests) /\ Len(r5) + Len(r8) <= r3 /\ r3 \in 0..MaxRequests /\ r12 \in 0..Len(r5)
          /\ MaxRequests \in Nat
      BY <2>2 DEF LoopTypes, Loop!LoopLimits
    <3> QED  BY <3>1, EntryTypes
  <2>4. ASSUME NEW i \in DOMAIN r5
        PROVE  r5'[i] \in Entries /\ r5'[i].request = r5[i].request /\ r5'[i].touched = r5[i].touched /\ ~r5'[i].again
    <3>1. r5[i] \in Entries /\ r5'[i] = [r5[i] EXCEPT !.again = FALSE]
      BY <2>1, <2>3
    <3> QED  BY <3>1 DEF Entries
  <2>5. DOMAIN r5' = DOMAIN r5 /\ r5' \in Seq(Entries) /\ Len(r5') = Len(r5)
    <3>1. DOMAIN r5' = 1..Len(r5) /\ r5' = [i \in 1..Len(r5) |-> r5'[i]]
      BY <2>1, <2>3
    <3> QED  BY <2>3, <2>4, <3>1
  <2>6. LoopTypes(r2, r3, r4, r5, r6, r8, r9, r10, r12)'
    BY <1>1, <2>1, <2>2, <2>5 DEF LoopTypes
  <2>7. Stored(r3, r5, r6, r8)'
    <3>1. \A q \in Requests : r6[q] # 0 => r6[q] \in DOMAIN r5
      BY <2>2, <2>3 DEF LoopTypes
    <3> QED  BY <1>1, <2>1, <2>2, <2>4, <2>5, <3>1 DEF Stored
  <2>8. TurnsBounded(r1, r2, r4, r10)'
    <3>1. r2 \in Nat /\ r10 \in Nat /\ MaxRounds \in Nat /\ r10 <= MaxRounds /\ (~r4 => r10 <= r2 /\ r2 < MaxRounds)
      BY <1>1, <2>2 DEF LoopInv, TurnsBounded, LoopTypes, Loop!LoopLimits
    <3> QED  BY <2>1, <3>1 DEF TurnsBounded
  <2>9. ExecutedOnce(r1, r6, r8, r9)'
    BY <1>1, <2>1 DEF LoopInv, ExecutedOnce
  <2>10. Loop!Fits(Loop!Selection) /\ (r12 # 0 => r12 \in Loop!Selection)
    BY <2>2, <2>3, SelectionHolds DEF EntriesOK
  <2>11. Loop!Fits(r7)'
    <3>1. \A i \in DOMAIN r5 : Loop!FullSize(i)' = Loop!FullSize(i)
      BY <2>4 DEF Loop!FullSize
    <3>2. [i \in DOMAIN r5 |-> IF i \in Loop!Selection THEN Loop!FullSize(i) ELSE 1]
          = [i \in DOMAIN r5' |-> IF i \in r7' THEN Loop!FullSize(i)' ELSE 1]
      BY <2>1, <2>5, <3>1
    <3> QED  BY <2>10, <3>2 DEF Loop!Fits, Loop!Cost
  <2> QED  BY <1>1, <2>1, <2>2, <2>4, <2>5, <2>6, <2>7, <2>8, <2>9, <2>10, <2>11 DEF LoopInv
<1> QED  BY <1>2, <1>3

LEMMA RespondsKept ==
    ASSUME LoopInv, Loop!LoopLimits, Loop!Responds
    PROVE  LoopInv'
<1>1. r1 = "model" /\ r8 = <<>> /\ r12' = 0 /\ r13' = Loop!Executions /\ UNCHANGED <<r5, r6, r7, r9, r11>>
  BY DEF Loop!Responds, LoopInv
<1>2. Loop!Executions' = Loop!Executions
  BY <1>1 DEF Loop!Executions
<1>3. /\ LoopTypes(r2, r3, r4, r5, r6, r8, r9, r10, r12) /\ Stored(r3, r5, r6, r8) /\ TurnsBounded(r1, r2, r4, r10)
      /\ ExecutedOnce(r1, r6, r8, r9) /\ \A i \in DOMAIN r5 : ~r5[i].again
  BY <1>1 DEF LoopInv
<1>4. CASE r1' \in Loop!Ends
  <2>1. UNCHANGED <<r2, r3, r4, r8, r10>>
    BY <1>4 DEF Loop!Responds, Loop!Stops, Loop!budget, Loop!Ends
  <2> QED  BY <1>1, <1>2, <1>4, <2>1, EndKept
<1>5. CASE r1' = "turn"
  <2>1. ~r4 /\ r4' = TRUE /\ UNCHANGED <<r2, r3, r8, r10>>
    BY <1>5 DEF Loop!Responds, Loop!Stops, Loop!budget, Loop!Ends
  <2>2. TurnsBounded(r1, r2, r4, r10)'
    <3>1. r2 \in Nat /\ r10 \in Nat /\ MaxRounds \in Nat /\ r10 <= r2 + 1 /\ r2 < MaxRounds
      BY <1>1, <1>3, <2>1 DEF TurnsBounded, LoopTypes, Loop!LoopLimits
    <3> QED  BY <1>5, <2>1, <3>1 DEF TurnsBounded
  <2>3. WantedFirst(r5, r12)'
    BY <1>1, <1>3 DEF WantedFirst
  <2>4. LoopTypes(r2, r3, r4, r5, r6, r8, r9, r10, r12)'
    <3>1. 0 \in 0..Len(r5)
      BY <1>3, EntryTypes DEF LoopTypes
    <3> QED  BY <1>1, <1>3, <2>1, <3>1 DEF LoopTypes
  <2>5. Stored(r3, r5, r6, r8)' /\ ExecutedOnce(r1, r6, r8, r9)'
    BY <1>1, <1>3, <1>5, <2>1 DEF Stored, ExecutedOnce
  <2> QED  BY <1>1, <1>5, <2>1, <2>2, <2>3, <2>4, <2>5 DEF LoopInv
<1>6. CASE r1' = "run"
  <2>1. PICK asked \in Loop!Batches :
          /\ r3 + Len(asked) <= MaxRequests /\ ~r4
          /\ r2' = r2 + 1 /\ r3' = r3 + Len(asked) /\ r8' = asked /\ UNCHANGED <<r4, r10>>
    BY <1>6 DEF Loop!Responds, Loop!Stops, Loop!budget, Loop!Ends
  <2>2. asked \in Seq(Requests) /\ Len(asked) \in Nat
    BY DEF Loop!Batches, Loop!LoopLimits
  <2>3. r3 \in Nat /\ r2 \in Nat /\ r10 \in Nat /\ MaxRounds \in Nat /\ MaxRequests \in Nat /\ r10 <= r2 + 1 /\ r2 < MaxRounds
        /\ Len(r5) \in Nat /\ Len(r8) = 0 /\ Len(r5) <= r3
    <3>1. r5 \in Seq(Entries) /\ Len(r5) + Len(r8) <= r3 /\ r3 \in Nat
      BY <1>3 DEF LoopTypes, Loop!LoopLimits
    <3>2. r3 \in Nat /\ r2 \in Nat /\ r10 \in Nat /\ MaxRounds \in Nat /\ MaxRequests \in Nat /\ r10 <= r2 + 1 /\ r2 < MaxRounds
      BY <1>1, <1>3, <2>1 DEF TurnsBounded, LoopTypes, Loop!LoopLimits
    <3> QED  BY <1>1, <3>1, <3>2
  <2>4. LoopTypes(r2, r3, r4, r5, r6, r8, r9, r10, r12)'
    <3>1. r2' \in 0..MaxRounds /\ r3' \in 0..MaxRequests /\ Len(r5) + Len(asked) <= r3' /\ 0 \in 0..Len(r5)
      BY <2>1, <2>2, <2>3
    <3> QED  BY <1>1, <1>3, <2>1, <2>2, <3>1 DEF LoopTypes
  <2>5. Stored(r3, r5, r6, r8)'
    <3>1. r3' - Len(r8') = r3 - Len(r8)
      BY <2>1, <2>2, <2>3
    <3> QED  BY <1>1, <1>3, <3>1 DEF Stored
  <2>6. TurnsBounded(r1, r2, r4, r10)'
    BY <1>6, <2>1, <2>3 DEF TurnsBounded
  <2>7. ExecutedOnce(r1, r6, r8, r9)' /\ WantedFirst(r5, r12)'
    BY <1>1, <1>3, <1>6 DEF ExecutedOnce, WantedFirst
  <2> QED  BY <1>6, <2>4, <2>5, <2>6, <2>7 DEF LoopInv
<1>7. r1' \in Loop!Ends \cup {"turn", "run"}
  BY DEF Loop!Responds, Loop!Stops, Loop!Ends
<1> QED  BY <1>4, <1>5, <1>6, <1>7

\* The clock of a batch, before and after its first member.
LEMMA BatchClock ==
    ASSUME Loop!LoopLimits, LoopTypes(r2, r3, r4, r5, r6, r8, r9, r10, r12), r8 # <<>>
    PROVE  /\ r5 \in Seq(Entries) /\ Len(r5) \in Nat /\ DOMAIN r5 = 1..Len(r5) /\ r12 \in 0..Len(r5)
           /\ Head(r8) \in Requests /\ Tail(r8) \in Seq(Requests) /\ Len(Tail(r8)) \in Nat
           /\ Loop!Clock \in Nat /\ r3 \in Nat
           /\ r3 - Len(Tail(r8)) = Loop!Clock + 1 /\ Len(r5) + Len(Tail(r8)) + 1 <= r3
<1>1. /\ r5 \in Seq(Entries) /\ r8 \in Seq(Requests) /\ Len(r5) + Len(r8) <= r3 /\ r3 \in 0..MaxRequests
      /\ r12 \in 0..Len(r5) /\ MaxRequests \in Nat
  BY DEF LoopTypes, Loop!LoopLimits
<1>2. Len(r8) \in Nat /\ Len(r8) > 0 /\ Head(r8) \in Requests /\ Tail(r8) \in Seq(Requests) /\ Len(Tail(r8)) = Len(r8) - 1
  BY <1>1
<1>3. Len(r5) \in Nat /\ DOMAIN r5 = 1..Len(r5)
  BY <1>1, EntryTypes
<1> QED  BY <1>1, <1>2, <1>3 DEF Loop!Clock

\* Touching an entry moves nothing else.
LEMMA Touched ==
    ASSUME Loop!LoopLimits, LoopTypes(r2, r3, r4, r5, r6, r8, r9, r10, r12), Stored(r3, r5, r6, r8), r8 # <<>>,
           NEW i \in DOMAIN r5, NEW again \in BOOLEAN, Loop!Touch(i, again)
    PROVE  /\ r5' \in Seq(Entries) /\ DOMAIN r5' = DOMAIN r5 /\ Len(r5') = Len(r5)
           /\ Renewed(r5, r5', i, Loop!Clock)
           /\ r5'[i].again <=> r5[i].again \/ again
           /\ \A j \in DOMAIN r5 : r5'[j].request = r5[j].request /\ r5'[j].touched < r3 - Len(Tail(r8))
<1>1. r5 \in Seq(Entries) /\ Loop!Clock \in Nat /\ DOMAIN r5 = 1..Len(r5) /\ Len(r5) \in Nat
      /\ r3 - Len(Tail(r8)) = Loop!Clock + 1
  BY BatchClock
<1> DEFINE clock == Loop!Clock
<1>2. r5' = [r5 EXCEPT ![i] = [r5[i] EXCEPT !.touched = clock, !.again = @ \/ again]]
  BY DEF Loop!Touch
<1>3. r5[i] \in Entries /\ clock \in Nat
  BY <1>1, EntryTypes
<1> HIDE DEF clock
<1>4. r5'[i] \in Entries /\ r5'[i].request = r5[i].request /\ r5'[i].touched = clock
  BY <1>2, <1>3 DEF Entries
<1>5. r5'[i].again <=> r5[i].again \/ again
  BY <1>2, <1>3, Zenon DEF Entries
<1>6. \A j \in DOMAIN r5 : j # i => r5'[j] = r5[j]
  BY <1>2
<1>7. DOMAIN r5' = DOMAIN r5 /\ \A j \in DOMAIN r5 : r5'[j] \in Entries
  BY <1>1, <1>2, <1>4, <1>6, EntryTypes
<1>8. r5' \in Seq(Entries) /\ Len(r5') = Len(r5)
  <2>1. DOMAIN r5' = 1..Len(r5) /\ r5' = [j \in 1..Len(r5) |-> r5'[j]]
    BY <1>1, <1>2
  <2> QED  BY <1>1, <1>7, <2>1
<1>9. Renewed(r5, r5', i, Loop!Clock)
  BY <1>4, <1>6, <1>7 DEF Renewed, clock
<1>10. ASSUME NEW j \in DOMAIN r5
       PROVE  r5'[j].request = r5[j].request /\ r5'[j].touched < r3 - Len(Tail(r8))
  <2>1. CASE j = i
    BY <1>1, <1>4, <2>1 DEF clock
  <2>2. CASE j # i
    <3>1. r5[j].touched \in Nat /\ r5[j].touched < Loop!Clock
      BY <1>1, EntryTypes DEF Stored, Loop!Clock
    <3> QED  BY <1>1, <1>6, <2>2, <3>1
  <2> QED  BY <2>1, <2>2
<1> QED  BY <1>5, <1>7, <1>8, <1>9, <1>10

LEMMA RunMemberKept ==
    ASSUME LoopInv, Loop!LoopLimits, Loop!RunMember
    PROVE  LoopInv'
<1>1. r1 = "run" /\ r8 # <<>> /\ UNCHANGED <<r2, r3, r4, r7, r10, r11, r13>>
  BY DEF Loop!RunMember, Loop!budget
<1>2. /\ LoopTypes(r2, r3, r4, r5, r6, r8, r9, r10, r12) /\ Stored(r3, r5, r6, r8) /\ TurnsBounded(r1, r2, r4, r10)
      /\ ExecutedOnce(r1, r6, r8, r9) /\ WantedFirst(r5, r12)
  BY <1>1 DEF LoopInv
<1>3. Head(r8) \in Requests /\ r6 \in [Requests -> 0..Len(r5)] /\ r9 \in [Requests -> Nat]
  BY <1>1, <1>2, BatchClock DEF LoopTypes
<1>4. CASE Loop!Stops /\ UNCHANGED <<r5, r6, r8, r9, r12>>
  <2>1. r1' = "cancelled"
    BY <1>4 DEF Loop!Stops
  <2> QED  BY <1>1, <1>4, <2>1, EndKept DEF Loop!Ends
<1>5. CASE r6[Head(r8)] # 0 /\ r8' = Tail(r8) /\ Loop!Activate(Head(r8)) /\ UNCHANGED r1
  <2> DEFINE i == r6[Head(r8)]
  <2>1. i \in DOMAIN r5 /\ r12' = i /\ UNCHANGED <<r6, r9>> /\ Loop!Touch(i, TRUE)
    <3>1. i \in 0..Len(r5) /\ i # 0
      BY <1>3, <1>5
    <3>2. Len(r5) \in Nat /\ DOMAIN r5 = 1..Len(r5)
      BY <1>1, <1>2, BatchClock
    <3>3. i \in DOMAIN r5
      BY <3>1, <3>2
    <3> QED  BY <1>5, <3>3, Zenon DEF Loop!Activate
  <2>2. /\ r5' \in Seq(Entries) /\ DOMAIN r5' = DOMAIN r5 /\ Len(r5') = Len(r5)
        /\ Renewed(r5, r5', i, Loop!Clock) /\ r5'[i].again
        /\ \A j \in DOMAIN r5 : r5'[j].request = r5[j].request /\ r5'[j].touched < r3 - Len(Tail(r8))
    BY <1>1, <1>2, <2>1, TRUE \in BOOLEAN, Touched
  <2> HIDE DEF i
  <2>3. WantedFirst(r5', i)
    <3>1. i \in DOMAIN r5' /\ r5 \in Seq(Entries) /\ Loop!Clock \in Nat
      BY <1>1, <1>2, <2>1, <2>2, BatchClock
    <3>2. RankIn(r5', i) >= 3
      BY <2>2, <3>1, Ranks
    <3>3. \A j \in DOMAIN r5 : r5[j].touched < Loop!Clock
      BY <1>2 DEF Stored, Loop!Clock
    <3> QED  BY <2>2, <3>1, <3>2, <3>3, NewestFirst
  <2>4. LoopTypes(r2, r3, r4, r5, r6, r8, r9, r10, r12)'
    <3>1. i \in 0..Len(r5)
      BY <1>1, <1>2, <2>1, BatchClock
    <3>2. Len(r5) + Len(Tail(r8)) <= r3 /\ Tail(r8) \in Seq(Requests)
      BY <1>1, <1>2, BatchClock
    <3> QED  BY <1>1, <1>2, <1>5, <2>1, <2>2, <3>1, <3>2 DEF LoopTypes
  <2>5. Stored(r3, r5, r6, r8)'
    <3>1. \A q \in Requests : r6[q] # 0 => r6[q] \in DOMAIN r5
      BY <1>1, <1>2, <1>3, BatchClock
    <3> QED  BY <1>1, <1>2, <1>5, <2>1, <2>2, <3>1 DEF Stored
  <2>6. TurnsBounded(r1, r2, r4, r10)' /\ ExecutedOnce(r1, r6, r8, r9)'
    BY <1>1, <1>2, <1>5, <2>1 DEF TurnsBounded, ExecutedOnce
  <2> QED  BY <1>1, <1>5, <2>1, <2>3, <2>4, <2>5, <2>6 DEF LoopInv
<1>6. CASE /\ r6[Head(r8)] = 0 /\ r9' = [r9 EXCEPT ![Head(r8)] = @ + 1] /\ r1' = "busy"
           /\ UNCHANGED <<r5, r6, r12, r8>>
  <2>1. \A q \in Requests : r9'[q] = IF q = Head(r8) THEN r9[q] + 1 ELSE r9[q]
    BY <1>3, <1>6
  <2>2. r9' \in [Requests -> Nat]
    BY <1>3, <1>6
  <2>3. r9[Head(r8)] = 0
    BY <1>1, <1>2, <1>3, <1>6 DEF ExecutedOnce
  <2>4. ExecutedOnce(r1, r6, r8, r9)'
    BY <1>1, <1>2, <1>6, <2>1, <2>3 DEF ExecutedOnce
  <2>5. LoopTypes(r2, r3, r4, r5, r6, r8, r9, r10, r12)'
    BY <1>1, <1>2, <1>6, <2>2 DEF LoopTypes
  <2>6. Stored(r3, r5, r6, r8)' /\ TurnsBounded(r1, r2, r4, r10)' /\ WantedFirst(r5, r12)'
    BY <1>1, <1>2, <1>6 DEF Stored, TurnsBounded, WantedFirst, BeforeIn, RankIn
  <2> QED  BY <1>1, <1>6, <2>4, <2>5, <2>6 DEF LoopInv
<1> QED  BY <1>4, <1>5, <1>6 DEF Loop!RunMember, Loop!store

\* A twin is an entry of the same identity.
LEMMA TwinIs ==
    ASSUME Loop!LoopLimits, LoopTypes(r2, r3, r4, r5, r6, r8, r9, r10, r12), Stored(r3, r5, r6, r8),
           NEW q \in Requests, Loop!Twin(q) # 0
    PROVE  /\ Loop!Twin(q) \in DOMAIN r5 /\ Identity[r5[Loop!Twin(q)].request] = Identity[q]
           /\ Priority[r5[Loop!Twin(q)].request] = Priority[q]
<1> DEFINE twins == {t \in Requests : r6[t] # 0 /\ Identity[t] = Identity[q] /\ ~Loop!Omitted(t)}
<1>1. Loop!Twin(q) = r6[CHOOSE t \in twins : TRUE] /\ twins # {}
  BY DEF Loop!Twin
<1>2. PICK t \in twins : Loop!Twin(q) = r6[t]
  BY <1>1
<1>3. t \in Requests /\ r6[t] # 0 /\ Identity[t] = Identity[q]
  BY <1>2
<1>4. r5 \in Seq(Entries) /\ r6[t] \in 0..Len(r5)
  BY <1>3 DEF LoopTypes
<1>5. r6[t] \in DOMAIN r5 /\ r5[r6[t]].request \in Requests
  BY <1>3, <1>4, EntryTypes
<1>6. Identity[r5[r6[t]].request] = Identity[q]
  BY <1>3 DEF Stored
<1> QED  BY <1>2, <1>5, <1>6 DEF Loop!LoopLimits

\* A result at i, whose entry is e's, is wanted when nothing above it is.
LEMMA ResultWanted ==
    ASSUME Loop!LoopLimits, r5 \in Seq(Entries), NEW f \in Seq(Entries), NEW i, NEW clock \in Nat, NEW q \in Requests,
           NEW again \in BOOLEAN,
           Renewed(r5, f, i, clock), DOMAIN r5 \subseteq DOMAIN f, \A j \in DOMAIN r5 : r5[j].touched < clock,
           WantedFirst(r5, r12), r12 = 0 \/ r12 \in DOMAIN r5,
           f[i].again <=> again, Priority[f[i].request] = Priority[q],
           i \in DOMAIN r5 => r5[i].again = again /\ Priority[r5[i].request] = Priority[q],
           Loop!NowWanted(i, q, again)
    PROVE  WantedFirst(f, r12') /\ r12' \in {i, r12}
<1>1. i \in DOMAIN f /\ i # 0 /\ RankIn(f, i) \in Nat
  BY Ranks, EntryTypes DEF Renewed
<1>2. r12 # 0 => r12 \in DOMAIN r5
  OBVIOUS
<1>3. CASE again
  <2>1. r12' = i
    BY <1>3, Zenon DEF Loop!NowWanted
  <2>2. RankIn(f, i) >= 3
    BY <1>1, <1>3, Ranks
  <2>3. \A j \in DOMAIN r5 : r5[j].again => f[i].again
    BY <1>3
  <2>4. WantedFirst(f, i)
    BY <2>2, <2>3, NewestFirst
  <2> QED  BY <2>1, <2>4
<1>4. CASE ~again /\ Priority[q] = 3 /\ (r12 = 0 \/ ~r5[r12].again)
  <2>1. r12' = i
    BY <1>4, Zenon DEF Loop!NowWanted, Loop!Read
  <2>2. RankIn(f, i) >= 3
    BY <1>1, <1>4, Ranks
  <2>3. \A j \in DOMAIN r5 : r5[j].again => f[i].again
    BY <1>4 DEF WantedFirst
  <2>4. WantedFirst(f, i)
    BY <2>2, <2>3, NewestFirst
  <2> QED  BY <2>1, <2>4
<1>5. CASE ~again /\ ~(Priority[q] = 3 /\ (r12 = 0 \/ ~r5[r12].again))
  <2>1. r12' = r12
    BY <1>5, Zenon DEF Loop!NowWanted, Loop!Read
  <2>2. RankIn(f, i) = Priority[q] /\ Priority[q] \in 0..3
    BY <1>1, <1>5, Ranks
  <2>3. ASSUME r12 # 0
        PROVE  r12 # i /\ RankIn(f, i) < RankIn(r5, r12)
    <3>1. r12 \in DOMAIN r5 /\ RankIn(r5, r12) >= 3
      BY <1>2, <2>3 DEF WantedFirst, Loop!Read
    <3>2. CASE r5[r12].again
      <4>1. RankIn(r5, r12) = 4 /\ r12 # i
        BY <1>5, <3>1, <3>2, Ranks
      <4> QED  BY <2>2, <4>1
    <3>3. CASE ~r5[r12].again
      <4>1. Priority[q] < 3 /\ RankIn(r5, r12) = Priority[r5[r12].request]
        BY <1>5, <2>2, <2>3, <3>1, <3>3, Ranks
      <4>2. RankIn(f, i) < RankIn(r5, r12)
        BY <2>2, <3>1, <4>1, Ranks
      <4> QED  BY <2>2, <3>1, <4>1, <4>2, Ranks
    <3> QED  BY <3>2, <3>3
  <2>4. ~f[i].again
    BY <1>5
  <2>5. WantedFirst(f, r12)
    BY <2>3, <2>4, WantedStaysFirst
  <2> QED  BY <2>1, <2>5
<1> QED  BY <1>3, <1>4, <1>5

LEMMA ExecutedKept ==
    ASSUME LoopInv, Loop!LoopLimits, Loop!Executed
    PROVE  LoopInv'
<1>1. r1 = "busy" /\ r8 # <<>> /\ UNCHANGED <<r2, r3, r4, r7, r10, r11, r13>>
  BY DEF Loop!Executed, Loop!budget, LoopInv
<1>2. /\ LoopTypes(r2, r3, r4, r5, r6, r8, r9, r10, r12) /\ Stored(r3, r5, r6, r8) /\ TurnsBounded(r1, r2, r4, r10)
      /\ ExecutedOnce(r1, r6, r8, r9) /\ WantedFirst(r5, r12)
  BY <1>1 DEF LoopInv
<1> DEFINE q == Head(r8)
<1>3. /\ q \in Requests /\ r6 \in [Requests -> 0..Len(r5)] /\ r9 \in [Requests -> Nat]
      /\ r5 \in Seq(Entries) /\ Len(r5) \in Nat /\ DOMAIN r5 = 1..Len(r5) /\ r12 \in 0..Len(r5)
      /\ Tail(r8) \in Seq(Requests) /\ Loop!Clock \in Nat /\ r3 \in Nat /\ Len(Tail(r8)) \in Nat
      /\ r3 - Len(Tail(r8)) = Loop!Clock + 1 /\ Len(r5) + Len(Tail(r8)) + 1 <= r3
  BY <1>1, <1>2, BatchClock DEF LoopTypes
<1>4. \A j \in DOMAIN r5 : r5[j].touched < Loop!Clock
  BY <1>2 DEF Stored, Loop!Clock
<1>5. r12 = 0 \/ r12 \in DOMAIN r5
  BY <1>3
<1>6. CASE r1' \in {"cancelled", "failed"} /\ UNCHANGED <<r5, r6, r8, r9, r12>>
  <2>1. r1' \in Loop!Ends /\ r1' # "invalid"
    BY <1>6 DEF Loop!Ends
  <2> QED  BY <1>1, <1>6, <2>1, EndKept
<1>7. CASE r1' = "run" /\ r8' = Tail(r8) /\ Loop!Add(q)
  <2>1. PICK i \in DOMAIN r5' :
          /\ r5' \in Seq(Entries) /\ DOMAIN r5 \subseteq DOMAIN r5' /\ Len(r5') \in {Len(r5), Len(r5) + 1}
          /\ DOMAIN r5' = 1..Len(r5')
          /\ \A j \in DOMAIN r5 : r5'[j].request = r5[j].request
          /\ \A j \in DOMAIN r5' : r5'[j].touched < r3 - Len(Tail(r8))
          /\ Identity[r5'[i].request] = Identity[q] /\ r6' = [r6 EXCEPT ![q] = i] /\ r9' = r9
          /\ WantedFirst(r5', r12') /\ r12' \in {i, r12}
    <3>1. CASE Loop!Twin(q) # 0
      <4> DEFINE i == Loop!Twin(q)
      <4>1. /\ i \in DOMAIN r5 /\ Identity[r5[i].request] = Identity[q] /\ Priority[r5[i].request] = Priority[q]
        BY <1>2, <1>3, <3>1, TwinIs
      <4>2. /\ Loop!Touch(i, FALSE) /\ r6' = [r6 EXCEPT ![q] = i] /\ Loop!NowWanted(i, q, r5[i].again) /\ r9' = r9
        BY <1>7, <3>1, Zenon DEF Loop!Add
      <4> HIDE DEF i, q
      <4>3. FALSE \in BOOLEAN /\ r5[i].again \in BOOLEAN
        BY <1>3, <4>1, EntryTypes
      <4>4. /\ r5' \in Seq(Entries) /\ DOMAIN r5' = DOMAIN r5 /\ Len(r5') = Len(r5)
            /\ Renewed(r5, r5', i, Loop!Clock)
            /\ r5'[i].again <=> r5[i].again \/ FALSE
            /\ \A j \in DOMAIN r5 : r5'[j].request = r5[j].request /\ r5'[j].touched < r3 - Len(Tail(r8))
        BY <1>1, <1>2, <4>1, <4>2, <4>3, Touched
      <4>5. /\ r5'[i].again <=> r5[i].again
            /\ Priority[r5'[i].request] = Priority[q] /\ DOMAIN r5 \subseteq DOMAIN r5'
            /\ i \in DOMAIN r5 => r5[i].again = r5[i].again /\ Priority[r5[i].request] = Priority[q]
        BY <4>1, <4>4, Zenon
      <4>6. WantedFirst(r5', r12') /\ r12' \in {i, r12}
        BY <1>2, <1>3, <1>4, <1>5, <4>2, <4>3, <4>4, <4>5, ResultWanted
      <4> QED  BY <1>3, <4>1, <4>2, <4>4, <4>5, <4>6
    <3>2. CASE Loop!Twin(q) = 0
      <4> DEFINE i == Len(r5) + 1
                 new == [request |-> q, touched |-> Loop!Clock, again |-> FALSE]
      <4>1. /\ r5' = Append(r5, new) /\ r6' = [r6 EXCEPT ![q] = i] /\ Loop!NowWanted(i, q, FALSE) /\ r9' = r9
        BY <1>7, <3>2, Zenon DEF Loop!Add
      <4>2. new \in Entries /\ new.request = q /\ new.touched = Loop!Clock /\ new.again = FALSE
        BY <1>3 DEF Entries
      <4> HIDE DEF new, q
      <4>3. /\ r5' \in Seq(Entries) /\ Len(r5') = i /\ DOMAIN r5' = 1..i /\ r5'[i] = new
            /\ \A j \in DOMAIN r5 : r5'[j] = r5[j]
        BY <1>3, <4>1, <4>2
      <4>4. DOMAIN r5 \subseteq DOMAIN r5' /\ i \in DOMAIN r5' /\ i \notin DOMAIN r5
            /\ \A j \in DOMAIN r5' : j # i => j \in DOMAIN r5
        <5> DEFINE N == Len(r5)
        <5>1. N \in Nat /\ DOMAIN r5 = 1..N /\ DOMAIN r5' = 1..i /\ i = N + 1
          BY <1>3, <4>3
        <5> HIDE DEF N, i
        <5> QED  BY <5>1
      <4> HIDE DEF i
      <4>5. Renewed(r5, r5', i, Loop!Clock)
        BY <4>2, <4>3, <4>4 DEF Renewed
      <4>6. \A j \in DOMAIN r5' : r5'[j].touched < r3 - Len(Tail(r8))
        <5>1. ASSUME NEW j \in DOMAIN r5
              PROVE  r5'[j].touched < r3 - Len(Tail(r8))
          <6>1. r5[j].touched \in Nat /\ r5[j].touched < Loop!Clock
            BY <1>3, <1>4, EntryTypes
          <6> QED  BY <1>3, <4>3, <6>1
        <5>2. r5'[i].touched < r3 - Len(Tail(r8))
          BY <1>3, <4>2, <4>3
        <5> QED  BY <4>4, <5>1, <5>2
      <4>7. FALSE \in BOOLEAN /\ (r5'[i].again <=> FALSE) /\ Priority[r5'[i].request] = Priority[q]
        BY <4>2, <4>3
      <4>8. i \in DOMAIN r5 => r5[i].again = FALSE /\ Priority[r5[i].request] = Priority[q]
        BY <4>4
      <4>9. WantedFirst(r5', r12') /\ r12' \in {i, r12}
        BY <1>2, <1>3, <1>4, <1>5, <4>1, <4>3, <4>4, <4>5, <4>7, <4>8, ResultWanted
      <4> QED  BY <1>3, <4>1, <4>2, <4>3, <4>4, <4>6, <4>9 DEF i
    <3> QED  BY <3>1, <3>2
  <2> HIDE DEF q
  <2>2. i \in 1..Len(r5') /\ i # 0 /\ r12' \in 0..Len(r5') /\ Len(r5') + Len(Tail(r8)) <= r3 /\ r6' \in [Requests -> 0..Len(r5')]
    <3> DEFINE N == Len(r5)  M == Len(r5')  T == Len(Tail(r8))
    <3>1. i \in 1..M /\ N \in Nat /\ (M = N \/ M = N + 1) /\ T \in Nat /\ r3 \in Nat /\ N + T + 1 <= r3
          /\ r12 \in 0..N /\ r12' \in {i, r12} /\ r6 \in [Requests -> 0..N] /\ r6' = [r6 EXCEPT ![q] = i]
      BY <1>3, <2>1
    <3> HIDE DEF N, M, T
    <3>2. M \in Nat /\ M + T <= r3 /\ \A n \in 0..N : n \in 0..M
      BY <3>1
    <3>3. i \in 0..M /\ i # 0 /\ r12' \in 0..M
      BY <3>1, <3>2
    <3>4. r6' \in [Requests -> 0..M]
      BY <3>1, <3>2, <3>3
    <3> QED  BY <3>1, <3>2, <3>3, <3>4 DEF M, T
  <2>3. LoopTypes(r2, r3, r4, r5, r6, r8, r9, r10, r12)'
    BY <1>1, <1>2, <1>3, <1>7, <2>1, <2>2 DEF LoopTypes
  <2>4. \A p \in Requests : r6'[p] = IF p = q THEN i ELSE r6[p]
    BY <1>3, <2>1
  <2>5. Stored(r3, r5, r6, r8)'
    <3>1. ASSUME NEW p \in Requests, r6'[p] # 0
          PROVE  Identity[r5'[r6'[p]].request] = Identity[p]
      <4>1. CASE p = q
        BY <2>1, <2>4, <4>1
      <4>2. CASE p # q
        <5>1. r6'[p] = r6[p] /\ r6[p] \in DOMAIN r5
          BY <1>3, <2>4, <3>1, <4>2
        <5> QED  BY <1>2, <2>1, <3>1, <5>1 DEF Stored
      <4> QED  BY <4>1, <4>2
    <3> QED  BY <1>1, <1>7, <2>1, <3>1 DEF Stored
  <2>6. TurnsBounded(r1, r2, r4, r10)'
    BY <1>1, <1>2, <1>7 DEF TurnsBounded
  <2>7. ExecutedOnce(r1, r6, r8, r9)'
    BY <1>1, <1>2, <1>7, <2>1, <2>2, <2>4 DEF ExecutedOnce, q
  <2> QED  BY <1>7, <2>1, <2>3, <2>5, <2>6, <2>7 DEF LoopInv
<1> QED  BY <1>6, <1>7 DEF Loop!Executed, Loop!store, Loop!Stops, Loop!NoResult

LEMMA BatchEndsKept ==
    ASSUME LoopInv, Loop!LoopLimits, Loop!BatchEnds
    PROVE  LoopInv'
<1>1. /\ r1 = "run" /\ r8 = <<>> /\ r1' = "turn"
      /\ r4' = (r4 \/ r2 >= MaxRounds \/ r3 >= MaxRequests)
      /\ UNCHANGED <<r2, r3, r5, r6, r7, r8, r9, r10, r11, r12, r13>>
  BY DEF Loop!BatchEnds, Loop!store
<1>2. /\ LoopTypes(r2, r3, r4, r5, r6, r8, r9, r10, r12) /\ Stored(r3, r5, r6, r8) /\ TurnsBounded(r1, r2, r4, r10)
      /\ ExecutedOnce(r1, r6, r8, r9) /\ WantedFirst(r5, r12)
  BY <1>1 DEF LoopInv
<1>3. r2 \in Nat /\ r2 <= MaxRounds /\ MaxRounds \in Nat /\ r10 \in Nat /\ r10 <= r2 /\ r10 <= MaxRounds + 1
  BY <1>1, <1>2 DEF LoopTypes, TurnsBounded, Loop!LoopLimits
<1>4. TurnsBounded(r1, r2, r4, r10)'
  <2>1. r10 <= MaxRounds /\ (~(r2 >= MaxRounds) => r2 < MaxRounds)
    BY <1>3
  <2>2. ~r4' => ~(r2 >= MaxRounds)
    BY <1>1, Zenon
  <2> QED  BY <1>1, <1>3, <2>1, <2>2 DEF TurnsBounded
<1>5. r4' \in BOOLEAN
  BY <1>1, Zenon
<1>6. LoopTypes(r2, r3, r4, r5, r6, r8, r9, r10, r12)'
  BY <1>1, <1>2, <1>5 DEF LoopTypes
<1>7. Stored(r3, r5, r6, r8)' /\ ExecutedOnce(r1, r6, r8, r9)' /\ WantedFirst(r5, r12)'
  BY <1>1, <1>2 DEF Stored, ExecutedOnce, WantedFirst, BeforeIn, RankIn
<1> QED  BY <1>1, <1>4, <1>6, <1>7 DEF LoopInv

LEMMA LoopStays ==
    ASSUME LoopInv, UNCHANGED <<r1, r2, r3, r4, r5, r6, r7, r8, r9, r10, r12, r13>>
    PROVE  LoopInv'
<1>1. /\ LoopTypes(r2, r3, r4, r5, r6, r8, r9, r10, r12)' /\ TurnsBounded(r1, r2, r4, r10)'
      /\ ExecutedOnce(r1, r6, r8, r9)'
  BY DEF LoopInv, LoopTypes, TurnsBounded, ExecutedOnce
<1>2. r1' \in {"turn", "model", "run", "busy"} => Stored(r3, r5, r6, r8)'
  BY DEF LoopInv, Stored
<1>3. r1' \in {"turn", "run", "busy"} => WantedFirst(r5, r12)'
  BY DEF LoopInv, WantedFirst, BeforeIn, RankIn
<1>4. r1' = "model" => (\A i \in DOMAIN r5' : ~r5'[i].again) /\ Loop!Fits(r7)' /\ (r12' # 0 => r12' \in r7')
  BY DEF LoopInv, Loop!Fits, Loop!Cost, Loop!FullSize
<1>5. r1' = "invalid" => Loop!Executions' = r13'
  BY DEF LoopInv, Loop!Executions
<1>6. (r1' \in {"turn", "model"} => r8' = <<>>) /\ (r1' = "busy" => r8' # <<>>)
  BY DEF LoopInv
<1> QED  BY <1>1, <1>2, <1>3, <1>4, <1>5, <1>6 DEF LoopInv

LEMMA LoopStepKept ==
    ASSUME LoopInv, Loop!LoopLimits, Loop!Next
    PROVE  LoopInv'
<1>1. CASE Loop!CancelQuestion
  BY <1>1, LoopStays DEF Loop!CancelQuestion, Loop!budget, Loop!store
<1> QED  BY <1>1, TurnKept, RespondsKept, RunMemberKept, ExecutedKept, BatchEndsKept DEF Loop!Next

LoopHolds == component = "loop" => LoopInv

THEOREM LoopInvariance == ComponentsSpec => []LoopHolds
<1>1. ComponentsInit => LoopHolds
  BY LoopInitially, ComponentConstants DEF ComponentsInit, LoopHolds
<1>2. ASSUME LoopHolds, [ComponentsNext]_all
      PROVE  LoopHolds'
  <2>1. CASE ComponentsNext
    BY <1>2, <2>1, LoopStepKept, ComponentConstants DEF ComponentsNext, LoopHolds
  <2>2. CASE UNCHANGED all
    BY <1>2, <2>2, LoopStays DEF all, registers, LoopHolds
  <2> QED  BY <1>2, <2>1, <2>2
<1> QED  BY <1>1, <1>2, PTL DEF ComponentsSpec

(***************************************************************************)
(* EvidenceLoop.run, for every request, every priority and size of the     *)
(* results and every limit, whatever the model answers: its prompts stay   *)
(* within the limit, no request is executed twice, the turns are bounded,  *)
(* a rejected batch has executed nothing, and what was asked for last is   *)
(* before the model in its next turn.                                      *)
(***************************************************************************)
THEOREM EvidenceIsCounted == ComponentsSpec => []EvidenceIsAccounted
<1>1. ASSUME LoopInv
      PROVE  Loop!EvidenceIsAccounted
  <2>1. \A q \in Requests : r9[q] <= 1
    BY <1>1 DEF LoopInv, ExecutedOnce
  <2>2. r10 <= MaxRounds + 1
    BY <1>1 DEF LoopInv, TurnsBounded
  <2>3. r1 = "model" => Loop!Cost(r7) <= MaxContext /\ (r12 # 0 => r12 \in r7)
    BY <1>1 DEF LoopInv, Loop!Fits
  <2>4. r1 = "invalid" => Loop!Executions = r13
    BY <1>1 DEF LoopInv
  <2> QED  BY <2>1, <2>2, <2>3, <2>4 DEF Loop!EvidenceIsAccounted
<1>2. LoopHolds => EvidenceIsAccounted
  BY <1>1 DEF LoopHolds, EvidenceIsAccounted
<1> QED  BY <1>2, LoopInvariance, PTL

-----------------------------------------------------------------------------
(***************************************************************************)
(* ContextAssembly.  The prompt owes each of its parts to the snapshot it  *)
(* was begun with, whatever is admitted between two reads; and no section  *)
(* takes more than is left of the budget.                                  *)
(***************************************************************************)
Generation(g) == g \in Nat /\ g >= 1
Sampled(snapshot) == snapshot = Context!NoSnapshot \/ Generation(snapshot.generation)

\* What the prompt holds after each read.
Gathered(at, prompt) ==
    /\ DOMAIN prompt = DOMAIN Context!NoPrompt
    /\ Sampled(prompt.state)
    /\ at \in {"events", "alerts", "render", "done"} /\ prompt.current =>
         /\ prompt.build.generation = prompt.state.generation
         /\ prompt.asOf - prompt.build.at <= MaxAge
         /\ prompt.state.info.level \in {0, prompt.build.level}
    /\ at \in {"alerts", "render", "done"} => prompt.events \in Seq({prompt.state.generation})
    /\ at \in {"render", "done"} /\ prompt.state # Context!NoSnapshot => prompt.alerts \in {0, prompt.state.generation}
    /\ at = "done" => prompt.size <= MaxPrompt

ContextInv ==
    /\ Generation(r2) /\ Sampled(r5) /\ r6 \in Seq(Nat)
    /\ Gathered(r9, r10)

LEMMA ContextInitially == Context!Init => ContextInv
BY DEF Context!Init, ContextInv, Generation, Sampled, Gathered, Context!NoPrompt, Context!NoSnapshot

LEMMA EventsAreOf ==
    ASSUME NEW g, r6 \in Seq(Nat)
    PROVE  Context!EventsOf(g) \in Seq({g})
<1> DEFINE N == Len(r6)
           step == [n \in 1..N |-> [own \in Seq({g}) |-> IF r6[n] = g THEN Append(own, r6[n]) ELSE own]]
           Upwards(f) == f = [n \in 0..N |-> IF n = 0 THEN <<>>
                                             ELSE IF r6[n] = g THEN Append(f[n - 1], r6[n]) ELSE f[n - 1]]
           upTo == CHOOSE f : Upwards(f)
<1>1. N \in Nat /\ <<>> \in Seq({g})
  OBVIOUS
<1>2. Steps(step, N, Seq({g}))
  <2>1. \A n \in 1..N, own \in Seq({g}) : (IF r6[n] = g THEN Append(own, r6[n]) ELSE own) \in Seq({g})
    OBVIOUS
  <2> QED  BY <2>1 DEF Steps
<1> HIDE DEF N
<1>3. \E f : Upwards(f)
  <2>1. PICK f : Stepwise(f, N, Seq({g}), <<>>, step)
    <3> HIDE DEF step
    <3> QED  BY <1>1, <1>2, Recursion
  <2>2. \A n \in 1..N : n - 1 \in 0..N
    BY <1>1
  <2>3. \A n \in 1..N : step[n][f[n - 1]] = IF r6[n] = g THEN Append(f[n - 1], r6[n]) ELSE f[n - 1]
    BY <2>1, <2>2 DEF Stepwise
  <2> HIDE DEF step
  <2>4. \A n \in 0..N : n # 0 => n \in 1..N
    BY <1>1
  <2>5. \A n \in 0..N : f[n] = IF n = 0 THEN <<>> ELSE IF r6[n] = g THEN Append(f[n - 1], r6[n]) ELSE f[n - 1]
    BY <2>1, <2>3, <2>4 DEF Stepwise
  <2>6. Upwards(f)
    BY <2>1, <2>5 DEF Stepwise
  <2> QED  BY <2>6
<1>4. Upwards(upTo)
  BY <1>3
<1>5. Context!EventsOf(g) = upTo[N]
  BY DEF Context!EventsOf, N
<1> HIDE DEF upTo
<1>6. upTo[0] = <<>> /\ \A n \in 1..N : upTo[n] = IF r6[n] = g THEN Append(upTo[n - 1], r6[n]) ELSE upTo[n - 1]
  <2>1. 0 \in 0..N /\ \A n \in 1..N : n \in 0..N /\ n # 0
    BY <1>1
  <2> QED  BY <1>4, <2>1
<1>7. ASSUME NEW n \in 1..N, upTo[n - 1] \in Seq({g})
      PROVE  upTo[n] \in Seq({g})
  <2>1. r6[n] = g => Append(upTo[n - 1], r6[n]) \in Seq({g})
    BY <1>7
  <2> QED  BY <1>6, <1>7, <2>1
<1>8. upTo[0] \in Seq({g}) /\ N \in 0..N /\ \A n \in 1..N : upTo[n - 1] \in Seq({g}) => upTo[n] \in Seq({g})
  BY <1>1, <1>6, <1>7
<1> DEFINE S == Seq({g})
<1>9. upTo[0] \in S /\ \A n \in 1..N : upTo[n - 1] \in S => upTo[n] \in S
  BY <1>8
<1> HIDE DEF S
<1>10. upTo[N] \in S
  BY <1>1, <1>8, <1>9, StaysIn
<1> QED  BY <1>5, <1>10 DEF S

\* A section stays within its share.
Sections(maximum) == [used : Context!Frame..maximum, lines : Seq(Nat), stopped : BOOLEAN]

LEMMA SectionFits ==
    ASSUME NEW sizes \in Seq(Nat), NEW maximum \in Nat, maximum >= Context!Frame, NEW fair \in BOOLEAN
    PROVE  Context!Section(sizes, maximum, fair) \in Sections(maximum)
<1> DEFINE N == Len(sizes)
           S == Sections(maximum)
           Room(used, n) == IF maximum < used + 1 THEN 0
                            ELSE (maximum - used - 1) \div (IF fair THEN N - n + 1 ELSE 1)
           Line(used, n) == Context!Bounded(sizes[n], Room(used, n), fair)
           After(s, n) == IF s.stopped \/ s.used + Line(s.used, n) + 1 > maximum THEN [s EXCEPT !.stopped = TRUE]
                          ELSE [s EXCEPT !.used = @ + Line(s.used, n) + 1, !.lines = Append(@, Line(s.used, n))]
           base == [used |-> Context!Frame, lines |-> <<>>, stopped |-> FALSE]
           step == [n \in 1..N |-> [s \in S |-> After(s, n)]]
           Upwards(f) == f = [n \in 0..N |-> IF n = 0 THEN base ELSE After(f[n - 1], n)]
           upTo == CHOOSE f : Upwards(f)
<1>1. N \in Nat /\ base \in S
  BY DEF Sections, Context!Frame
<1>2. ASSUME NEW s \in S, NEW n \in 1..N
      PROVE  After(s, n) \in S
  <2>1. s.used \in Nat /\ s.used >= Context!Frame /\ s.used <= maximum /\ s.lines \in Seq(Nat) /\ s.stopped \in BOOLEAN
        /\ s = [used |-> s.used, lines |-> s.lines, stopped |-> s.stopped]
    BY DEF Sections, Context!Frame
  <2>2. Room(s.used, n) \in Int
    <3>1. N - n + 1 \in Nat \ {0}
      BY <1>1
    <3> HIDE DEF N
    <3> QED  BY <2>1, <3>1
  <2>3. sizes[n] \in Nat
    BY <1>1
  <2> HIDE DEF Room
  <2>4. Line(s.used, n) \in Nat
    BY <2>2, <2>3 DEF Context!Bounded, Context!Stub
  <2> HIDE DEF Line
  <2>5. CASE s.stopped \/ s.used + Line(s.used, n) + 1 > maximum
    <3>1. After(s, n) = [used |-> s.used, lines |-> s.lines, stopped |-> TRUE]
      BY <2>1, <2>5
    <3> QED  BY <2>1, <3>1 DEF Sections, Context!Frame
  <2>6. CASE ~(s.stopped \/ s.used + Line(s.used, n) + 1 > maximum)
    <3>1. After(s, n) = [used |-> s.used + Line(s.used, n) + 1, lines |-> Append(s.lines, Line(s.used, n)), stopped |-> s.stopped]
      BY <2>1, <2>6
    <3>2. s.used + Line(s.used, n) + 1 \in Context!Frame..maximum
      BY <2>1, <2>4, <2>6 DEF Context!Frame
    <3>3. Append(s.lines, Line(s.used, n)) \in Seq(Nat)
      BY <2>1, <2>4
    <3> QED  BY <2>1, <3>1, <3>2, <3>3 DEF Sections
  <2> QED  BY <2>5, <2>6
<1>3. Context!Section(sizes, maximum, fair) = upTo[N]
  BY DEF Context!Section
<1> HIDE DEF N, S, After, base
<1>4. \E f : Upwards(f)
  <2>1. PICK f : Stepwise(f, N, S, base, step)
    <3>1. Steps(step, N, S)
      BY <1>2 DEF Steps
    <3> HIDE DEF step
    <3> QED  BY <1>1, <3>1, Recursion
  <2>2. \A n \in 1..N : n - 1 \in 0..N
    BY <1>1
  <2>3. \A n \in 1..N : step[n][f[n - 1]] = After(f[n - 1], n)
    BY <2>1, <2>2 DEF Stepwise
  <2> HIDE DEF step
  <2>4. \A n \in 0..N : n # 0 => n \in 1..N
    BY <1>1
  <2>5. \A n \in 0..N : f[n] = IF n = 0 THEN base ELSE After(f[n - 1], n)
    BY <2>1, <2>3, <2>4 DEF Stepwise
  <2>6. Upwards(f)
    BY <2>1, <2>5 DEF Stepwise
  <2> QED  BY <2>6
<1>5. Upwards(upTo)
  BY <1>4
<1> HIDE DEF upTo
<1>6. upTo[0] = base /\ \A n \in 1..N : upTo[n] = After(upTo[n - 1], n)
  <2>1. 0 \in 0..N /\ \A n \in 1..N : n \in 0..N /\ n # 0
    BY <1>1
  <2> QED  BY <1>5, <2>1
<1>7. upTo[0] \in S /\ \A n \in 1..N : upTo[n - 1] \in S => upTo[n] \in S
  BY <1>1, <1>2, <1>6
<1>8. N \in 0..N
  BY <1>1
<1> QED  BY <1>1, <1>3, <1>7, <1>8, StaysIn DEF S

Prompts == [available : 0..MaxPrompt, included : [DOMAIN Limits -> Seq(Nat)]]

LEMMA RenderedFits ==
    ASSUME Context!ContextConstants, NEW blocks \in [DOMAIN Limits -> Records]
    PROVE  Context!Rendered(blocks) \in Prompts
<1> DEFINE N == Len(Limits)
           S == Prompts
           Share(r, n) == Context!Least(Limits[n], IF r.available = 0 THEN 0 ELSE r.available - 1)
           Sec(r, n) == Context!Section(blocks[n], Share(r, n), n = Knowledge)
           After(r, n) == IF Share(r, n) < Context!Frame THEN r
                          ELSE [available |-> r.available - Sec(r, n).used - 1,
                                included |-> [r.included EXCEPT ![n] = Sec(r, n).lines]]
           base == [available |-> MaxPrompt, included |-> [k \in DOMAIN Limits |-> <<>>]]
           step == [n \in 1..N |-> [r \in S |-> After(r, n)]]
           Upwards(f) == f = [n \in 0..N |-> IF n = 0 THEN base ELSE After(f[n - 1], n)]
           upTo == CHOOSE f : Upwards(f)
<1>1. N \in Nat /\ base \in S /\ DOMAIN Limits = 1..N /\ \A n \in 1..N : Limits[n] \in Nat
  BY DEF Prompts, Context!ContextConstants
<1>2. ASSUME NEW r \in S, NEW n \in 1..N
      PROVE  After(r, n) \in S
  <2>1. r.available \in Nat /\ r.available <= MaxPrompt /\ MaxPrompt \in Nat /\ r.included \in [1..N -> Seq(Nat)]
    BY <1>1 DEF Prompts, Context!ContextConstants
  <2>2. Share(r, n) \in Nat /\ (Share(r, n) >= 2 => Share(r, n) <= r.available - 1)
    BY <1>1, <2>1 DEF Context!Least
  <2>3. blocks[n] \in Seq(Nat) /\ (n = Knowledge) \in BOOLEAN
    BY <1>1 DEF Context!ContextConstants
  <2>4. CASE Share(r, n) < Context!Frame
    BY <2>4
  <2>5. CASE ~(Share(r, n) < Context!Frame)
    <3> HIDE DEF Share, N
    <3>1. Sec(r, n) \in Sections(Share(r, n))
      <4>1. Share(r, n) >= Context!Frame
        BY <2>2, <2>5 DEF Context!Frame
      <4> QED  BY <2>2, <2>3, <4>1, SectionFits, Zenon
    <3> HIDE DEF Sec
    <3>2. Sec(r, n).used \in Nat /\ Sec(r, n).used <= Share(r, n) /\ Sec(r, n).lines \in Seq(Nat)
      BY <2>2, <3>1 DEF Sections, Context!Frame
    <3>3. r.available - Sec(r, n).used - 1 \in 0..MaxPrompt
      BY <2>1, <2>2, <2>5, <3>2 DEF Context!Frame
    <3>4. [r.included EXCEPT ![n] = Sec(r, n).lines] \in [DOMAIN Limits -> Seq(Nat)]
      BY <1>1, <2>1, <3>2
    <3> QED  BY <2>5, <3>3, <3>4 DEF Prompts
  <2> QED  BY <2>4, <2>5
<1>3. Context!Rendered(blocks) = upTo[N]
  BY DEF Context!Rendered
<1> HIDE DEF N, S, After, base
<1>4. \E f : Upwards(f)
  <2>1. PICK f : Stepwise(f, N, S, base, step)
    <3>1. Steps(step, N, S)
      BY <1>2 DEF Steps
    <3> HIDE DEF step
    <3> QED  BY <1>1, <3>1, Recursion
  <2>2. \A n \in 1..N : n - 1 \in 0..N
    BY <1>1
  <2>3. \A n \in 1..N : step[n][f[n - 1]] = After(f[n - 1], n)
    BY <2>1, <2>2 DEF Stepwise
  <2> HIDE DEF step
  <2>4. \A n \in 0..N : n # 0 => n \in 1..N
    BY <1>1
  <2>5. \A n \in 0..N : f[n] = IF n = 0 THEN base ELSE After(f[n - 1], n)
    BY <2>1, <2>3, <2>4 DEF Stepwise
  <2>6. Upwards(f)
    BY <2>1, <2>5 DEF Stepwise
  <2> QED  BY <2>6
<1>5. Upwards(upTo)
  BY <1>4
<1> HIDE DEF upTo
<1>6. upTo[0] = base /\ \A n \in 1..N : upTo[n] = After(upTo[n - 1], n)
  <2>1. 0 \in 0..N /\ \A n \in 1..N : n \in 0..N /\ n # 0
    BY <1>1
  <2> QED  BY <1>5, <2>1
<1>7. upTo[0] \in S /\ \A n \in 1..N : upTo[n - 1] \in S => upTo[n] \in S
  BY <1>1, <1>2, <1>6
<1>8. N \in 0..N
  BY <1>1
<1> QED  BY <1>1, <1>3, <1>7, <1>8, StaysIn DEF S

LEMMA BridgeKeepsContext ==
    ASSUME ContextInv,
           Context!Tick \/ Context!RunInfo \/ Context!LevelUp \/ Context!Restart \/ Context!Watch
    PROVE  ContextInv'
<1>1. UNCHANGED <<r5, r6, r9, r10>> /\ Generation(r2')
  BY DEF ContextInv, Generation, Context!Tick, Context!RunInfo, Context!LevelUp, Context!Restart, Context!Watch,
     Context!bridge, Context!sidecar
<1> QED  BY <1>1 DEF ContextInv

LEMMA PublishKept ==
    ASSUME ContextInv, Context!ContextConstants, Context!Publish
    PROVE  ContextInv'
<1>1. Sampled(r5')
  BY DEF ContextInv, Generation, Sampled, Context!Publish
<1>2. r6' \in Seq(Nat)
  <2>1. r6 \in Seq(Nat) /\ r2 \in Nat /\ Len(r6) \in Nat /\ MaxEvents \in Nat \ {0}
    BY DEF ContextInv, Generation, Context!ContextConstants
  <2>2. ~(Len(r6) < MaxEvents + 1) => r6 # <<>>
    BY <2>1
  <2>3. r6' = Append(r6, r2) \/ (r6 # <<>> /\ r6' = Append(Tail(r6), r2))
    BY <2>2 DEF Context!Publish
  <2> QED  BY <2>1, <2>3
<1>3. UNCHANGED <<r2, r9, r10>>
  BY DEF Context!Publish, Context!bridge
<1> QED  BY <1>1, <1>2, <1>3 DEF ContextInv

LEMMA ReadsKept ==
    ASSUME ContextInv, Context!ContextConstants,
           Context!ReadState \/ Context!ReadBuild \/ Context!ReadEvents \/ Context!ReadAlerts
    PROVE  ContextInv'
<1>1. UNCHANGED <<r2, r5, r6>>
  BY DEF Context!ReadState, Context!ReadBuild, Context!ReadEvents, Context!ReadAlerts, Context!bridge, Context!sidecar
<1>2. Sampled(r5) /\ r6 \in Seq(Nat) /\ Gathered(r9, r10)
  BY DEF ContextInv
<1>3. {"state", "asOf", "build", "current", "events", "alerts", "size", "references"} = DOMAIN Context!NoPrompt
  BY DEF Context!NoPrompt
<1>4. CASE Context!ReadState
  <2>1. r9' = "build" /\ r10' = [Context!NoPrompt EXCEPT !.state = r5, !.asOf = r1]
    BY <1>4 DEF Context!ReadState
  <2> QED  BY <1>1, <1>2, <2>1 DEF ContextInv, Gathered, Context!NoPrompt
<1>5. CASE Context!ReadBuild
  <2> DEFINE observed == IF r10.state.info = Context!NoInfo THEN Context!NoRow ELSE Context!Row(r10.state)
             Current(row) == r10.state # Context!NoSnapshot /\ Context!InfoCurrent(row, r10.state)
             chosen == IF observed # Context!NoRow /\ (Current(observed) \/ ~Current(r8)) THEN observed ELSE r8
  <2>1. r9' = "events" /\ r10' = [r10 EXCEPT !.build = chosen, !.current = Current(chosen), !.asOf = r1]
    BY <1>5 DEF Context!ReadBuild
  <2> HIDE DEF chosen
  <2>2. /\ DOMAIN r10' = DOMAIN r10 /\ r10'.state = r10.state
        /\ r10'.build = chosen /\ r10'.current = Current(chosen) /\ r10'.asOf = r1
    BY <1>2, <1>3, <2>1 DEF Gathered
  <2>3. Current(chosen) =>
          /\ chosen.generation = r10.state.generation /\ r1 - chosen.at <= MaxAge
          /\ r10.state.info.level \in {0, chosen.level}
    BY DEF Context!InfoCurrent, Context!NoInfo
  <2> HIDE DEF Current
  <2> QED  BY <1>1, <1>2, <2>1, <2>2, <2>3 DEF ContextInv, Gathered
<1>6. CASE Context!ReadEvents
  <2> DEFINE own == Context!EventsOf(r10.state.generation)
             page == IF Len(own) > MaxEvents THEN Tail(own) ELSE own
  <2>1. r9 = "events" /\ r9' = "alerts" /\ r10' = [r10 EXCEPT !.events = page]
    BY <1>6 DEF Context!ReadEvents
  <2>2. own \in Seq({r10.state.generation})
    BY <1>2, EventsAreOf
  <2> HIDE DEF own
  <2>3. Len(own) > MaxEvents => own # <<>>
    BY <2>2 DEF Context!ContextConstants
  <2>4. page \in Seq({r10.state.generation})
    BY <2>2, <2>3
  <2> HIDE DEF page
  <2>5. DOMAIN r10' = DOMAIN r10 /\ r10'.events = page
        /\ r10'.state = r10.state /\ r10'.build = r10.build /\ r10'.current = r10.current /\ r10'.asOf = r10.asOf
    BY <1>2, <1>3, <2>1 DEF Gathered
  <2> QED  BY <1>1, <1>2, <2>1, <2>4, <2>5 DEF ContextInv, Gathered
<1>7. CASE Context!ReadAlerts
  <2> DEFINE told == IF r10.state.generation \in {0, r7} THEN r7 ELSE 0
  <2>1. r9 = "alerts" /\ r9' = "render" /\ r10' = [r10 EXCEPT !.alerts = told]
    BY <1>7 DEF Context!ReadAlerts
  <2>2. r10.state # Context!NoSnapshot => told \in {0, r10.state.generation}
    BY <1>2 DEF Gathered, Sampled, Generation
  <2> HIDE DEF told
  <2>3. DOMAIN r10' = DOMAIN r10 /\ r10'.events = r10.events /\ r10'.alerts = told
        /\ r10'.state = r10.state /\ r10'.build = r10.build /\ r10'.current = r10.current /\ r10'.asOf = r10.asOf
    BY <1>2, <1>3, <2>1 DEF Gathered
  <2> QED  BY <1>1, <1>2, <2>1, <2>2, <2>3 DEF ContextInv, Gathered
<1> QED  BY <1>4, <1>5, <1>6, <1>7

LEMMA RenderKept ==
    ASSUME ContextInv, Context!ContextConstants, Context!Render
    PROVE  ContextInv'
<1>1. UNCHANGED <<r2, r5, r6>> /\ r9 = "render" /\ r9' = "done"
  BY DEF Context!Render, Context!bridge, Context!sidecar
<1>2. {"state", "asOf", "build", "current", "events", "alerts", "size", "references"} = DOMAIN Context!NoPrompt
  BY DEF Context!NoPrompt
<1>3. PICK blocks \in [DOMAIN Limits -> Records] : \E n :
        r10' = [r10 EXCEPT !.size = MaxPrompt - Context!Rendered(blocks).available, !.references = n]
  BY DEF Context!Render
<1>4. Context!Rendered(blocks).available \in 0..MaxPrompt
  BY RenderedFits DEF Prompts
<1>5. MaxPrompt - Context!Rendered(blocks).available <= MaxPrompt
  BY <1>4 DEF Context!ContextConstants
<1>6. DOMAIN r10' = DOMAIN r10 /\ r10'.events = r10.events /\ r10'.alerts = r10.alerts
      /\ r10'.state = r10.state /\ r10'.build = r10.build /\ r10'.current = r10.current /\ r10'.asOf = r10.asOf
      /\ r10'.size = MaxPrompt - Context!Rendered(blocks).available
  BY <1>2, <1>3 DEF ContextInv, Gathered
<1> QED  BY <1>1, <1>5, <1>6 DEF ContextInv, Gathered

LEMMA ContextStepKept ==
    ASSUME ContextInv, Context!ContextConstants, Context!Next
    PROVE  ContextInv'
<1>1. CASE Context!Asked
  BY <1>1 DEF ContextInv, Gathered, Sampled, Context!Asked, Context!NoPrompt, Context!bridge, Context!sidecar
<1> QED  BY <1>1, BridgeKeepsContext, PublishKept, ReadsKept, RenderKept DEF Context!Next

ContextHolds == component = "context" => ContextInv

THEOREM ContextInvariance == ComponentsSpec => []ContextHolds
<1>1. ComponentsInit => ContextHolds
  BY ContextInitially DEF ComponentsInit, ContextHolds
<1>2. ASSUME ContextHolds, [ComponentsNext]_all
      PROVE  ContextHolds'
  <2>1. CASE ComponentsNext
    BY <1>2, <2>1, ContextStepKept, ComponentConstants DEF ComponentsNext, ContextHolds
  <2>2. CASE UNCHANGED all
    BY <1>2, <2>2 DEF all, registers, ContextHolds, ContextInv
  <2> QED  BY <1>2, <2>1, <2>2
<1> QED  BY <1>1, <1>2, PTL DEF ComponentsSpec

(***************************************************************************)
(* ContextAssembler.build and AssembledContext.render, for every age,      *)
(* every limit of events and sections and every size of the records,       *)
(* whatever is admitted between two reads: a prompt is of one session,     *)
(* what it calls current is, and it stays within its budget.               *)
(***************************************************************************)
THEOREM PromptsAreOfOneSession == ComponentsSpec => []PromptIsOfOneSession
<1>1. ASSUME ContextInv
      PROVE  Context!PromptIsOfOneSession
  <2>1. r9 = "done" => \A i \in DOMAIN r10.events : r10.events[i] = r10.state.generation
    BY <1>1 DEF ContextInv, Gathered
  <2> QED  BY <1>1, <2>1 DEF ContextInv, Gathered, Context!PromptIsOfOneSession
<1>2. ContextHolds => PromptIsOfOneSession
  BY <1>1 DEF ContextHolds, PromptIsOfOneSession
<1> QED  BY <1>2, ContextInvariance, PTL
=============================================================================
