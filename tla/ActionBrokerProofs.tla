------------------------- MODULE ActionBrokerProofs -------------------------
(***************************************************************************)
(* Proofs about ActionBroker, for every set of characters, generations,    *)
(* rooms and kinds and every bound.                                        *)
(*                                                                         *)
(* The safety invariants of the broker are not inductive one by one, but   *)
(* their conjunction per action is: Authorized(a) says of one action what  *)
(* the switch and the active session allow it to be.  Every method changes *)
(* the actions pointwise, by one of the helpers Expire, Withdraw, Revoke,  *)
(* Deny and Deliver; a lemma per helper says what it keeps.                *)
(***************************************************************************)
EXTENDS ActionBroker, TLAPS

\* The broker may still deliver a, or let it go on, only under its authority.
Live(a) == IsPending(a) \/ (IsStoppable(a) /\ IsLaunched(a) /\ ~a.stop)

Consistent(a) ==
    /\ a.stop => ~IsPending(a)
    /\ a.return => a.kind = "refuge" /\ IsLaunched(a)
    /\ a.confirm /\ a.status \in {"queued"} \cup LaunchedStatuses => a.room # NoRoom

Authorized(a) == Live(a) => a.char \in enabled /\ a.gen = activeGen[a.char]

ScalarsOK ==
    /\ enabled \subseteq Characters
    /\ activeGen \in [Characters -> Generations \cup {NoGeneration}]
    /\ retired \in [Characters -> SUBSET Generations]
    /\ issued \in 0..MaxActions
    /\ now \in Time

ActionsOK ==
    /\ DOMAIN actions = Ids
    /\ \A i \in Ids : i <= issued => /\ actions[i] \in Action
                                     /\ Consistent(actions[i])
                                     /\ Authorized(actions[i])
    /\ \A i \in Ids : ~(i <= issued) => actions[i] = Unissued

Inv == ScalarsOK /\ ActionsOK /\ \A c \in Characters : activeGen[c] \notin retired[c]

-----------------------------------------------------------------------------
(* What the helpers keep.  In each of them b is an action that took the     *)
(* place of a: it has a's identity, and it is live only if a was.           *)

Weakens(a, b) ==
    /\ b \in Action
    /\ b.char = a.char /\ b.gen = a.gen
    /\ Consistent(b)
    /\ Live(b) => Live(a)

\* An action that changes nothing is weakened by itself.
LEMMA KeepWeakens ==
    ASSUME NEW a \in Action, Consistent(a)
    PROVE  Weakens(a, a)
BY DEF Weakens

\* Expiry withdraws, and it leaves launched work alone.
LEMMA ExpireWeakens ==
    ASSUME NEW a \in Action, Consistent(a)
    PROVE  Weakens(a, Expire(a))
BY SMT DEF Weakens, Expire, Action, Consistent, Live, IsPending, IsLaunched, IsStoppable,
       PendingStatuses, LaunchedStatuses, RevokedStatuses, Completions

\* Withdrawing makes pending work undeliverable.
LEMMA WithdrawWeakens ==
    ASSUME NEW a \in Action, Consistent(a)
    PROVE  Weakens(a, Withdraw(a))
BY SMT DEF Weakens, Withdraw, Action, Consistent, Live, IsPending, IsLaunched, IsStoppable,
       PendingStatuses, LaunchedStatuses, RevokedStatuses, Completions

\* What the kill switch does leaves nothing live.
LEMMA RevokeKills ==
    ASSUME NEW a \in Action, Consistent(a)
    PROVE  Weakens(a, Revoke(a)) /\ ~Live(Revoke(a))
<1>1. CASE IsStoppable(a) /\ IsLaunched(a)
  <2>. DEFINE b == [a EXCEPT !.stop = TRUE]
  <2>1. Revoke(a) = b
    BY <1>1 DEF Revoke
  <2>2. b \in Action
    BY DEF Action
  <2>4. b.stop = TRUE
    BY DEF Action
  <2>5. /\ b.status = a.status /\ b.kind = a.kind /\ b.room = a.room
        /\ b.char = a.char /\ b.gen = a.gen /\ b.return = a.return /\ b.confirm = a.confirm
    BY DEF Action
  <2>3. ~IsPending(b)
    BY <1>1, <2>5, SMT DEF IsLaunched, IsPending, LaunchedStatuses, PendingStatuses
  <2>. QED
    BY <2>1, <2>2, <2>3, <2>4, <2>5, <1>1, SMT DEF Weakens, Consistent, Live, IsLaunched
<1>2. CASE ~(IsStoppable(a) /\ IsLaunched(a))
  <2>1. Revoke(a) = Withdraw(a)
    BY <1>2 DEF Revoke
  <2>2. ~Live(Withdraw(a))
    BY <1>2, SMT DEF Withdraw, Live, Action, IsPending, IsLaunched, IsStoppable,
       PendingStatuses, LaunchedStatuses
  <2>. QED
    BY <2>1, <2>2, WithdrawWeakens
<1>. QED
  BY <1>1, <1>2

\* A denial for a stale room is a withdrawal of queued work.
LEMMA DenyWeakens ==
    ASSUME NEW a \in Action, Consistent(a), a.status = "queued"
    PROVE  Weakens(a, Deny(a))
BY SMT DEF Weakens, Deny, Action, Consistent, Live, IsPending, IsLaunched, IsStoppable,
       PendingStatuses, LaunchedStatuses, RevokedStatuses, Completions

\* Delivering keeps the identity of a pending action and its consent.
LEMMA DeliverWeakens ==
    ASSUME NEW a \in Action, Consistent(a), IsPending(a)
    PROVE  Weakens(a, Deliver(a))
<1>1. CASE a.status = "queued"
  BY <1>1, SMT DEF Weakens, Deliver, Action, Consistent, Live, IsPending, IsLaunched,
     IsStoppable, PendingStatuses, LaunchedStatuses, RevokedStatuses, Completions
<1>2. CASE a.status # "queued"
  <2>. DEFINE b == [a EXCEPT !.notified = TRUE]
  <2>1. Deliver(a) = b
    BY <1>2 DEF Deliver
  <2>2. b \in Action
    BY DEF Action
  <2>3. /\ b.status = a.status /\ b.kind = a.kind /\ b.room = a.room /\ b.char = a.char
        /\ b.gen = a.gen /\ b.return = a.return /\ b.confirm = a.confirm /\ b.stop = a.stop
    BY DEF Action
  <2>. QED
    BY <2>1, <2>2, <2>3 DEF Weakens, Consistent, Live, IsPending, IsLaunched, IsStoppable
<1>. QED
  BY <1>1, <1>2

\* Weakening composes: the pass over expired actions precedes every change.
LEMMA WeakensTrans ==
    ASSUME NEW a, NEW b, NEW d, Weakens(a, b), Weakens(b, d)
    PROVE  Weakens(a, d)
BY DEF Weakens

\* Consent queues the action and binds it to a real room, or denies it.
LEMMA ApproveWeakens ==
    ASSUME NEW a \in Action, Consistent(a), a.status = "confirmation_required",
           NEW r \in Rooms
    PROVE  /\ Weakens(a, [a EXCEPT !.room = r, !.status = "queued"])
           /\ Weakens(a, [a EXCEPT !.status = "denied_stale_room"])
<1>. DEFINE b == [a EXCEPT !.room = r, !.status = "queued"]
            d == [a EXCEPT !.status = "denied_stale_room"]
<1>1. r # NoRoom
  BY BrokerConstants
<1>2. b \in Action /\ d \in Action
  BY DEF Action, PendingStatuses, RevokedStatuses
<1>3. b.status = "queued" /\ b.room = r /\ d.status = "denied_stale_room"
  BY DEF Action
<1>4. /\ b.char = a.char /\ b.gen = a.gen /\ b.stop = a.stop /\ b.return = a.return
      /\ d.char = a.char /\ d.gen = a.gen /\ d.stop = a.stop /\ d.return = a.return
      /\ b.kind = a.kind /\ d.kind = a.kind
  BY DEF Action
<1>5. IsPending(a) /\ IsPending(b) /\ ~IsPending(d) /\ ~IsLaunched(a) /\ ~IsLaunched(b)
      /\ ~IsLaunched(d) /\ d.status # "queued"
  BY <1>3 DEF IsPending, IsLaunched, PendingStatuses, LaunchedStatuses
<1>6. Weakens(a, b)
  BY <1>1, <1>2, <1>3, <1>4, <1>5 DEF Weakens, Consistent, Live
<1>7. Weakens(a, d)
  BY <1>2, <1>4, <1>5 DEF Weakens, Consistent, Live, IsLaunched
<1>. QED
  BY <1>6, <1>7

\* A report closes delivered work and does not touch its stop marker.
LEMMA ReportWeakens ==
    ASSUME NEW a \in Action, Consistent(a), a.status = "dispatched",
           NEW s \in {"failed", "completed"}, NEW o \in Completions
    PROVE  Weakens(a, [a EXCEPT !.status = s, !.completion = o])
<1>. DEFINE b == [a EXCEPT !.status = s, !.completion = o]
<1>1. b \in Action
  BY DEF Action, LaunchedStatuses
<1>2. b.status = s
  BY DEF Action
<1>3. /\ b.char = a.char /\ b.gen = a.gen /\ b.stop = a.stop /\ b.return = a.return
      /\ b.kind = a.kind /\ b.room = a.room /\ b.confirm = a.confirm
  BY DEF Action
<1>4. IsLaunched(a) /\ IsLaunched(b) /\ ~IsPending(b)
  BY <1>2 DEF IsPending, IsLaunched, PendingStatuses, LaunchedStatuses
<1>5. a.status \in {"queued"} \cup LaunchedStatuses
  BY <1>4 DEF IsLaunched
<1>. QED
  BY <1>1, <1>3, <1>4, <1>5 DEF Weakens, Consistent, Live, IsStoppable

\* A stop marker on an action that is no longer pending only silences it.
LEMMA StopWeakens ==
    ASSUME NEW a \in Action, Consistent(a), ~IsPending(a)
    PROVE  Weakens(a, [a EXCEPT !.stop = TRUE])
<1>. DEFINE b == [a EXCEPT !.stop = TRUE]
<1>1. b \in Action
  BY DEF Action
<1>2. b.stop = TRUE
  BY DEF Action
<1>3. /\ b.status = a.status /\ b.kind = a.kind /\ b.room = a.room /\ b.char = a.char
      /\ b.gen = a.gen /\ b.return = a.return /\ b.confirm = a.confirm
  BY DEF Action
<1>. QED
  BY <1>1, <1>2, <1>3 DEF Weakens, Consistent, Live, IsPending, IsLaunched, IsStoppable

\* The permission to return is given to a launched refuge only.
LEMMA ReturnWeakens ==
    ASSUME NEW a \in Action, Consistent(a), a.kind = "refuge", IsLaunched(a)
    PROVE  Weakens(a, [a EXCEPT !.return = TRUE])
<1>. DEFINE b == [a EXCEPT !.return = TRUE]
<1>1. b \in Action
  BY DEF Action
<1>2. /\ b.status = a.status /\ b.kind = a.kind /\ b.room = a.room /\ b.char = a.char
      /\ b.gen = a.gen /\ b.stop = a.stop /\ b.confirm = a.confirm
  BY DEF Action
<1>. QED
  BY <1>1, <1>2 DEF Weakens, Consistent, Live, IsPending, IsLaunched, IsStoppable

-----------------------------------------------------------------------------
(* Steps.                                                                   *)

\* A step that changes every action by a weakening, and whose live actions
\* stay under the new authority, keeps the invariant.
LEMMA PointwiseStep ==
    ASSUME Inv, ScalarsOK', issued' = issued,
           \A c \in Characters : activeGen'[c] \notin retired'[c],
           DOMAIN actions' = Ids,
           \A i \in Ids : i <= issued =>
               /\ Weakens(actions[i], actions'[i])
               /\ Live(actions'[i]) => /\ actions[i].char \in enabled'
                                      /\ actions[i].gen = activeGen'[actions[i].char],
           \A i \in Ids : ~(i <= issued) => actions'[i] = actions[i]
    PROVE  Inv'
<1>1. ASSUME NEW i \in Ids, i <= issued
      PROVE  /\ actions'[i] \in Action
             /\ Consistent(actions'[i])
             /\ Live(actions'[i]) => /\ actions'[i].char \in enabled'
                                    /\ actions'[i].gen = activeGen'[actions'[i].char]
  BY <1>1 DEF Weakens
<1>2. ActionsOK'
  BY <1>1 DEF ActionsOK, Authorized, Inv
<1>. QED
  BY <1>2 DEF Inv

\* The usual case: the method touches neither the switch nor the session.
LEMMA QuietStep ==
    ASSUME Inv, UNCHANGED <<enabled, activeGen, retired, issued, now>>,
           DOMAIN actions' = Ids,
           \A i \in Ids : i <= issued => Weakens(actions[i], actions'[i]),
           \A i \in Ids : ~(i <= issued) => actions'[i] = actions[i]
    PROVE  Inv'
<1>1. ScalarsOK' /\ \A c \in Characters : activeGen'[c] \notin retired'[c]
  BY DEF Inv, ScalarsOK
<1>2. ASSUME NEW i \in Ids, i <= issued, Live(actions'[i])
      PROVE  actions[i].char \in enabled' /\ actions[i].gen = activeGen'[actions[i].char]
  <2>1. Live(actions[i])
    BY <1>2 DEF Weakens
  <2>. QED
    BY <1>2, <2>1 DEF Inv, ActionsOK, Authorized
<1>. QED
  BY <1>1, <1>2, PointwiseStep

\* The pass over expired actions weakens every issued action.
LEMMA ExpiredWeakens ==
    ASSUME Inv
    PROVE  /\ DOMAIN ExpiredActions = Ids
           /\ \A i \in Ids : i <= issued =>
                 /\ ExpiredActions[i] = Expire(actions[i])
                 /\ Weakens(actions[i], ExpiredActions[i])
                 /\ ExpiredActions[i] \in Action /\ Consistent(ExpiredActions[i])
           /\ \A i \in Ids : ~(i <= issued) => ExpiredActions[i] = actions[i]
<1>1. ASSUME NEW i \in Ids, i <= issued
      PROVE  Weakens(actions[i], Expire(actions[i]))
  BY <1>1, ExpireWeakens DEF Inv, ActionsOK
<1>. QED
  BY <1>1 DEF ExpiredActions, Weakens

\* A method that, after the expiry pass, weakens one issued action.
LEMMA OneActionStep ==
    ASSUME Inv, UNCHANGED <<enabled, activeGen, retired, issued, now>>,
           NEW i \in Ids, i <= issued, NEW b,
           Weakens(ExpiredActions[i], b),
           actions' = [ExpiredActions EXCEPT ![i] = b]
    PROVE  Inv'
<1>1. Weakens(actions[i], b)
  BY ExpiredWeakens, WeakensTrans
<1>2. DOMAIN actions' = Ids /\ actions'[i] = b
      /\ \A j \in Ids : j # i => actions'[j] = ExpiredActions[j]
  BY ExpiredWeakens
<1>3. \A j \in Ids : j <= issued => Weakens(actions[j], actions'[j])
  BY <1>1, <1>2, ExpiredWeakens
<1>4. \A j \in Ids : ~(j <= issued) => actions'[j] = actions[j]
  BY <1>2, ExpiredWeakens
<1>. QED
  BY <1>2, <1>3, <1>4, QuietStep

-----------------------------------------------------------------------------
(* The initial state, and one lemma per group of methods.                   *)

\* No action, no session: nothing is authorized and nothing is live.
LEMMA InitInv == Init => Inv
<1>. SUFFICES ASSUME Init PROVE Inv
  OBVIOUS
<1>1. ScalarsOK
  BY BrokerConstants, SMT DEF Init, ScalarsOK, Time
<1>2. ActionsOK
  BY SMT DEF Init, ActionsOK, Ids
<1>3. \A c \in Characters : activeGen[c] \notin retired[c]
  BY DEF Init
<1>. QED
  BY <1>1, <1>2, <1>3 DEF Inv

\* A reconnect: what belonged to the previous session is revoked, and the
\* previous generation never comes back.
LEMMA AdmitGenerationInv ==
    ASSUME Inv, NEW c \in Characters, NEW g \in Generations, AdmitGeneration(c, g)
    PROVE  Inv'
<1>1. ScalarsOK'
  BY DEF AdmitGeneration, Inv, ScalarsOK
<1>2. \A x \in Characters : activeGen'[x] \notin retired'[x]
  <2>1. activeGen'[c] = g /\ g \notin retired'[c]
    BY DEF AdmitGeneration, Inv, ScalarsOK
  <2>2. ASSUME NEW x \in Characters, x # c
        PROVE  activeGen'[x] = activeGen[x] /\ retired'[x] = retired[x]
    BY <2>2 DEF AdmitGeneration, Inv, ScalarsOK
  <2>. QED
    BY <2>1, <2>2 DEF Inv
<1>. DEFINE Hit(i) == /\ i <= issued
                      /\ actions[i].char = c
                      /\ actions[i].gen # g
                      /\ activeGen[c] \notin {g, NoGeneration}
<1>3. actions' = [i \in Ids |-> IF Hit(i) THEN Revoke(actions[i]) ELSE actions[i]]
  BY DEF AdmitGeneration
<1>4. ASSUME NEW i \in Ids, i <= issued
      PROVE  /\ Weakens(actions[i], actions'[i])
             /\ Live(actions'[i]) => /\ actions[i].char \in enabled'
                                    /\ actions[i].gen = activeGen'[actions[i].char]
  <2>1. actions[i] \in Action /\ Consistent(actions[i]) /\ Authorized(actions[i])
    BY <1>4 DEF Inv, ActionsOK
  <2>2. CASE Hit(i)
    BY <1>3, <2>1, <2>2, RevokeKills
  <2>3. CASE ~Hit(i)
    <3>1. actions'[i] = actions[i] /\ Weakens(actions[i], actions'[i])
      BY <1>3, <2>1, <2>3, KeepWeakens
    <3>2. ASSUME Live(actions[i])
          PROVE  actions[i].char \in enabled' /\ actions[i].gen = activeGen'[actions[i].char]
      <4>1. actions[i].char \in enabled /\ actions[i].gen = activeGen[actions[i].char]
        BY <2>1, <3>2 DEF Authorized
      <4>2. actions[i].gen \in Generations /\ actions[i].char \in Characters
        BY <2>1 DEF Action
      <4>3. CASE actions[i].char = c
        <5>1. actions[i].gen = g
          BY <1>4, <2>3, <4>1, <4>2, <4>3, BrokerConstants
        <5>. QED
          BY <4>1, <4>3, <5>1 DEF AdmitGeneration, Inv, ScalarsOK
      <4>4. CASE actions[i].char # c
        BY <4>1, <4>2, <4>4 DEF AdmitGeneration, Inv, ScalarsOK
      <4>. QED
        BY <4>3, <4>4
    <3>. QED
      BY <3>1, <3>2
  <2>. QED
    BY <2>2, <2>3
<1>5. issued' = issued /\ DOMAIN actions' = Ids
      /\ \A i \in Ids : ~(i <= issued) => actions'[i] = actions[i]
  BY <1>3 DEF AdmitGeneration
<1>. QED
  BY <1>1, <1>2, <1>4, <1>5, PointwiseStep

\* Switching on adds authority and touches no action.
LEMMA EnableInv ==
    ASSUME Inv, NEW c \in Characters, NEW g \in Generations, Enable(c, g)
    PROVE  Inv'
<1>1. ScalarsOK' /\ \A x \in Characters : activeGen'[x] \notin retired'[x]
  BY DEF Enable, Inv, ScalarsOK
<1>2. ASSUME NEW i \in Ids, i <= issued
      PROVE  /\ Weakens(actions[i], actions'[i])
             /\ Live(actions'[i]) => /\ actions[i].char \in enabled'
                                    /\ actions[i].gen = activeGen'[actions[i].char]
  BY <1>2, KeepWeakens DEF Enable, Inv, ActionsOK, Authorized
<1>3. issued' = issued /\ DOMAIN actions' = Ids
      /\ \A i \in Ids : ~(i <= issued) => actions'[i] = actions[i]
  BY DEF Enable, Inv, ActionsOK
<1>. QED
  BY <1>1, <1>2, <1>3, PointwiseStep

\* The kill switch leaves nothing of the character live.
LEMMA DisableInv ==
    ASSUME Inv, NEW c \in Characters, NEW g \in Generations, Disable(c, g)
    PROVE  Inv'
<1>1. ScalarsOK' /\ \A x \in Characters : activeGen'[x] \notin retired'[x]
  BY DEF Disable, Inv, ScalarsOK
<1>2. ASSUME NEW i \in Ids, i <= issued
      PROVE  /\ Weakens(actions[i], actions'[i])
             /\ Live(actions'[i]) => /\ actions[i].char \in enabled'
                                    /\ actions[i].gen = activeGen'[actions[i].char]
  <2>1. actions[i] \in Action /\ Consistent(actions[i]) /\ Authorized(actions[i])
    BY <1>2 DEF Inv, ActionsOK
  <2>2. CASE actions[i].char = c
    BY <1>2, <2>1, <2>2, RevokeKills DEF Disable
  <2>3. CASE actions[i].char # c
    <3>1. actions'[i] = actions[i] /\ activeGen' = activeGen
      BY <2>3 DEF Disable
    <3>2. Live(actions[i]) => actions[i].char \in enabled'
                              /\ actions[i].gen = activeGen[actions[i].char]
      BY <2>1, <2>3 DEF Disable, Authorized
    <3>. QED
      BY <2>1, <3>1, <3>2, KeepWeakens
  <2>. QED
    BY <2>2, <2>3
<1>3. issued' = issued /\ DOMAIN actions' = Ids
      /\ \A i \in Ids : ~(i <= issued) => actions'[i] = actions[i]
  BY DEF Disable
<1>. QED
  BY <1>1, <1>2, <1>3, PointwiseStep

\* An accepted proposal is pending under the switch and session it was
\* checked against, in the same step.
LEMMA SubmitInv ==
    ASSUME Inv, NEW c \in Characters, NEW k \in Kinds, NEW confirm \in BOOLEAN,
           NEW r \in Rooms \cup {NoRoom}, NEW life \in Nat, NEW d \in Nat,
           Submit(c, k, confirm, r, life, d)
    PROVE  Inv'
<1>. DEFINE new == Proposal(c, k, confirm, r, life, d)
<1>1. ScalarsOK' /\ \A x \in Characters : activeGen'[x] \notin retired'[x]
  BY BrokerConstants, SMT DEF Submit, Inv, ScalarsOK
<1>2. issued + 1 \in Ids /\ issued \in Nat
  BY BrokerConstants, SMT DEF Submit, Inv, ScalarsOK, Ids
<1>3. new \in Action
  <2>1. now + life \in Nat /\ d \in Nat
    BY BrokerConstants, SMT DEF Inv, ScalarsOK, Time
  <2>2. activeGen[c] \in Generations
    BY DEF Submit, Inv, ScalarsOK
  <2>. QED
    BY <2>1, <2>2 DEF Proposal, Action, PendingStatuses, Completions
<1>4. /\ new.stop = FALSE /\ new.return = FALSE
      /\ new.char = c /\ new.gen = activeGen[c]
      /\ new.confirm = confirm
      /\ new.status = IF confirm THEN "confirmation_required" ELSE "queued"
  BY DEF Proposal
<1>5. Consistent(new)
  BY <1>4, Zenon DEF Consistent, LaunchedStatuses
<1>6. c \in enabled' /\ activeGen' = activeGen
  BY DEF Submit
<1>7. actions' = [actions EXCEPT ![issued + 1] = new] /\ issued' = issued + 1
  BY DEF Submit
<1>8. DOMAIN actions' = Ids /\ actions'[issued + 1] = new
      /\ \A i \in Ids : i # issued + 1 => actions'[i] = actions[i]
  BY <1>2, <1>7 DEF Inv, ActionsOK
<1>9. ASSUME NEW i \in Ids, i <= issued'
      PROVE  /\ actions'[i] \in Action /\ Consistent(actions'[i])
             /\ Live(actions'[i]) => /\ actions'[i].char \in enabled'
                                    /\ actions'[i].gen = activeGen'[actions'[i].char]
  <2>1. CASE i = issued + 1
    BY <1>3, <1>4, <1>5, <1>6, <1>8, <2>1
  <2>2. CASE i # issued + 1
    <3>1. i <= issued
      BY <1>2, <1>7, <1>9, <2>2, SMT DEF Ids
    <3>. QED
      BY <1>8, <2>2, <3>1 DEF Submit, Inv, ActionsOK, Authorized
  <2>. QED
    BY <2>1, <2>2
<1>10. ASSUME NEW i \in Ids, ~(i <= issued')
       PROVE  actions'[i] = Unissued
  <2>1. ~(i <= issued) /\ i # issued + 1
    BY <1>2, <1>7, <1>10, SMT DEF Ids
  <2>. QED
    BY <1>8, <2>1 DEF Inv, ActionsOK
<1>11. ActionsOK'
  BY <1>8, <1>9, <1>10 DEF ActionsOK, Authorized
<1>. QED
  BY <1>1, <1>11 DEF Inv

\* Reading only expires.
LEMMA ObserveInv ==
    ASSUME Inv, Observe
    PROVE  Inv'
BY ExpiredWeakens, QuietStep DEF Observe

\* Consent is given to an action that waits for it.
LEMMA ApproveInv ==
    ASSUME Inv, NEW i \in Ids, i <= issued, NEW g \in Generations, NEW r \in Rooms,
           Approve(i, g, r)
    PROVE  Inv'
<1>. DEFINE e == ExpiredActions[i]
            b == IF RoomAgrees(actions[i], r)
                 THEN [e EXCEPT !.room = r, !.status = "queued"]
                 ELSE [e EXCEPT !.status = "denied_stale_room"]
<1>1. e \in Action /\ Consistent(e) /\ e.status = "confirmation_required"
  BY ExpiredWeakens DEF Approve
<1>2. Weakens(e, b)
  BY <1>1, ApproveWeakens
<1>3. actions' = [ExpiredActions EXCEPT ![i] = b]
  BY DEF Approve
<1>. QED
  BY <1>2, <1>3, OneActionStep DEF Approve

\* Polling denies, delivers and expires; it never makes work live.
LEMMA PollDeliversInv ==
    ASSUME Inv, NEW c \in Characters, NEW g \in Generations, NEW r \in Rooms,
           NEW i \in Ids, i <= issued, PollDelivers(c, g, r, i)
    PROVE  Inv'
<1>1. ASSUME NEW j \in Ids, j <= issued
      PROVE  Weakens(actions[j], actions'[j])
  <2>1. ExpiredActions[j] \in Action /\ Consistent(ExpiredActions[j])
        /\ Weakens(actions[j], ExpiredActions[j]) /\ ExpiredActions[j] = Expire(actions[j])
    BY <1>1, ExpiredWeakens
  <2>2. CASE j = i
    <3>1. IsPending(ExpiredActions[j])
      BY <2>1, <2>2 DEF PollDelivers, Deliverable, IsPending, PendingStatuses
    <3>2. actions'[j] = Deliver(ExpiredActions[j])
      BY <2>2 DEF PollDelivers
    <3>. QED
      BY <2>1, <3>1, <3>2, DeliverWeakens, WeakensTrans
  <2>3. CASE j # i /\ j < i /\ Stale(j, c, g, r)
    BY <2>1, <2>3, DenyWeakens, WeakensTrans DEF PollDelivers, Stale
  <2>4. CASE j # i /\ ~(j < i /\ Stale(j, c, g, r))
    BY <2>1, <2>4 DEF PollDelivers
  <2>. QED
    BY <2>2, <2>3, <2>4
<1>2. ASSUME NEW j \in Ids, ~(j <= issued)
      PROVE  actions'[j] = actions[j]
  <2>1. j # i /\ ~(j < i)
    BY <1>2, BrokerConstants, SMT DEF Ids, Inv, ScalarsOK
  <2>. QED
    BY <1>2, <2>1, ExpiredWeakens DEF PollDelivers
<1>3. DOMAIN actions' = Ids /\ UNCHANGED <<enabled, activeGen, retired, issued>>
  BY DEF PollDelivers
<1>. QED
  BY <1>1, <1>2, <1>3, QuietStep DEF PollDelivers

\* The same when nothing is deliverable.
LEMMA PollFindsNothingInv ==
    ASSUME Inv, NEW c \in Characters, NEW g \in Generations, NEW r \in Rooms,
           PollFindsNothing(c, g, r)
    PROVE  Inv'
<1>1. ASSUME NEW j \in Ids, j <= issued
      PROVE  Weakens(actions[j], actions'[j])
  <2>1. ExpiredActions[j] \in Action /\ Consistent(ExpiredActions[j])
        /\ Weakens(actions[j], ExpiredActions[j]) /\ ExpiredActions[j] = Expire(actions[j])
    BY <1>1, ExpiredWeakens
  <2>2. CASE Stale(j, c, g, r)
    BY <1>1, <2>1, <2>2, DenyWeakens, WeakensTrans DEF PollFindsNothing, Stale
  <2>3. CASE ~Stale(j, c, g, r)
    BY <2>1, <2>3 DEF PollFindsNothing
  <2>. QED
    BY <2>2, <2>3
<1>2. \A j \in Ids : ~(j <= issued) => actions'[j] = actions[j]
  BY ExpiredWeakens DEF PollFindsNothing
<1>3. DOMAIN actions' = Ids
  BY DEF PollFindsNothing
<1>. QED
  BY <1>1, <1>2, <1>3, QuietStep DEF PollFindsNothing

\* A report closes one delivered action.
LEMMA RecordResultInv ==
    ASSUME Inv, NEW i \in Ids, i <= issued, NEW g \in Generations,
           NEW o \in Completions \ {"none"}, RecordResult(i, g, o)
    PROVE  Inv'
<1>. DEFINE s == IF o = "failed" THEN "failed" ELSE "completed"
            b == [actions[i] EXCEPT !.status = s, !.completion = o]
<1>1. Weakens(actions[i], b)
  <2>1. actions[i] \in Action /\ Consistent(actions[i]) /\ actions[i].status = "dispatched"
    BY DEF RecordResult, Inv, ActionsOK
  <2>. QED
    BY <2>1, ReportWeakens
<1>2. /\ DOMAIN actions' = Ids
      /\ actions'[i] = b
      /\ \A j \in Ids : j # i => actions'[j] = actions[j]
  BY DEF RecordResult, Inv, ActionsOK
<1>3. \A j \in Ids : j <= issued => Weakens(actions[j], actions'[j])
  BY <1>1, <1>2, KeepWeakens DEF Inv, ActionsOK
<1>. QED
  BY <1>2, <1>3, QuietStep DEF RecordResult

\* The owner of a pending action withdraws it, of a sent go2 stops it.
LEMMA CancelInv ==
    ASSUME Inv, NEW i \in Ids, i <= issued, Cancel(i)
    PROVE  Inv'
<1>. DEFINE e == ExpiredActions[i]
            b == IF e.kind = "travel" /\ e.status = "dispatched"
                 THEN [e EXCEPT !.stop = TRUE] ELSE Withdraw(e)
<1>1. e \in Action /\ Consistent(e)
  BY ExpiredWeakens
<1>2. e.status = "dispatched" => ~IsPending(e)
  BY DEF IsPending, PendingStatuses
<1>3. Weakens(e, b)
  BY <1>1, <1>2, StopWeakens, WithdrawWeakens
<1>4. actions' = [ExpiredActions EXCEPT ![i] = b]
  BY DEF Cancel
<1>. QED
  BY <1>3, <1>4, OneActionStep DEF Cancel

\* A stopped test is withdrawn while pending and marked once launched.
LEMMA RequestTestStopInv ==
    ASSUME Inv, NEW i \in Ids, i <= issued, RequestTestStop(i)
    PROVE  Inv'
BY ExpiredWeakens, RevokeKills, OneActionStep DEF RequestTestStop

\* The marks the owner of a control or of a controlled launch leaves.
LEMMA RevokeOwnedInv ==
    ASSUME Inv, NEW i \in Ids, i <= issued, RevokeOwned(i)
    PROVE  Inv'
<1>. DEFINE e == ExpiredActions[i]
            w == Withdraw(e)
            b == [w EXCEPT !.stop = TRUE]
<1>1. e \in Action /\ Consistent(e)
  BY ExpiredWeakens
<1>2. w \in Action /\ Consistent(w) /\ Weakens(e, w)
  BY <1>1, WithdrawWeakens DEF Weakens
<1>3. ~IsPending(w)
  BY <1>1 DEF Withdraw, IsPending, Action, PendingStatuses
<1>4. Weakens(e, b)
  BY <1>2, <1>3, StopWeakens, WeakensTrans
<1>5. actions' = [ExpiredActions EXCEPT ![i] = b]
  BY DEF RevokeOwned
<1>. QED
  BY <1>4, <1>5, OneActionStep DEF RevokeOwned

\* Only a launched refuge is asked to return.
LEMMA RequestReturnInv ==
    ASSUME Inv, NEW i \in Ids, i <= issued, RequestReturn(i)
    PROVE  Inv'
<1>. DEFINE e == ExpiredActions[i]
            b == [e EXCEPT !.return = TRUE]
<1>1. e \in Action /\ Consistent(e) /\ e = Expire(actions[i])
  BY ExpiredWeakens
<1>2. e = actions[i]
  BY <1>1 DEF Expire, RequestReturn, MayReturn, IsPending, PendingStatuses
<1>3. e.kind = "refuge" /\ IsLaunched(e)
  BY <1>2 DEF RequestReturn, MayReturn, IsLaunched, LaunchedStatuses
<1>4. actions' = [ExpiredActions EXCEPT ![i] = b]
  BY DEF RequestReturn
<1>. QED
  BY <1>1, <1>3, <1>4, ReturnWeakens, OneActionStep DEF RequestReturn

\* Time alone changes no action: expiry is lazy.
LEMMA TickInv ==
    ASSUME Inv, Tick
    PROVE  Inv'
<1>1. ScalarsOK' /\ \A x \in Characters : activeGen'[x] \notin retired'[x]
  BY BrokerConstants, SMT DEF Tick, Inv, ScalarsOK, Time
<1>2. ActionsOK'
  BY DEF Tick, Inv, ActionsOK, Authorized
<1>. QED
  BY <1>1, <1>2 DEF Inv

-----------------------------------------------------------------------------
(* Theorems.                                                                *)

\* Every method of the broker keeps the inductive invariant.
LEMMA NextInv == Inv /\ [Next]_vars => Inv'
<1>. SUFFICES ASSUME Inv, [Next]_vars PROVE Inv'
  OBVIOUS
<1>1. CASE UNCHANGED vars
  BY <1>1 DEF vars, Inv, ScalarsOK, ActionsOK, Authorized
<1>2. ASSUME NEW c \in Characters, NEW g \in Generations, AdmitGeneration(c, g)
      PROVE  Inv'
  BY <1>2, AdmitGenerationInv
<1>3. ASSUME NEW c \in Characters, NEW g \in Generations, Enable(c, g) \/ Disable(c, g)
      PROVE  Inv'
  BY <1>3, EnableInv, DisableInv
<1>4. ASSUME NEW c \in Characters, NEW g \in Generations, NEW r \in Rooms,
             PollFindsNothing(c, g, r) \/ \E i \in Issued : PollDelivers(c, g, r, i)
      PROVE  Inv'
  BY <1>4, PollFindsNothingInv, PollDeliversInv DEF Issued
<1>5. ASSUME NEW c \in Characters, NEW k \in Kinds, NEW confirm \in BOOLEAN,
             NEW r \in Rooms \cup {NoRoom}, NEW life \in 1..MaxLifetime, NEW d \in Time,
             Submit(c, k, confirm, r, life, d)
      PROVE  Inv'
  BY <1>5, SubmitInv DEF Time
<1>6. ASSUME NEW i \in Issued, NEW g \in Generations, NEW r \in Rooms, Approve(i, g, r)
      PROVE  Inv'
  BY <1>6, ApproveInv DEF Issued
<1>7. ASSUME NEW i \in Issued, NEW g \in Generations, NEW o \in Completions \ {"none"},
             RecordResult(i, g, o)
      PROVE  Inv'
  BY <1>7, RecordResultInv DEF Issued
<1>8. ASSUME NEW i \in Issued,
             Cancel(i) \/ RequestTestStop(i) \/ RevokeOwned(i) \/ RequestReturn(i)
      PROVE  Inv'
  BY <1>8, CancelInv, RequestTestStopInv, RevokeOwnedInv, RequestReturnInv DEF Issued
<1>. QED
  BY <1>1, <1>2, <1>3, <1>4, <1>5, <1>6, <1>7, <1>8, ObserveInv, TickInv DEF Next

\* The inductive invariant holds throughout.
THEOREM Invariance == Spec => []Inv
<1>. QED
  BY InitInv, NextInv, PTL DEF Spec

\* The broker's state has its types.
THEOREM TypeCorrect == Spec => []TypeOK
<1>1. Inv => TypeOK
  BY DEF Inv, ScalarsOK, ActionsOK, TypeOK
<1>. QED
  BY <1>1, Invariance, PTL

\* No history of switches, reconnects, approvals and expiries leaves
\* deliverable work without the authority it was submitted under.
THEOREM PendingIsAuthorized == Spec => []PendingAuthorized
<1>1. Inv => PendingAuthorized
  BY DEF Inv, ActionsOK, Authorized, Live, PendingAuthorized, Issued
<1>. QED
  BY <1>1, Invariance, PTL

\* Withdrawn authority reaches every launch that reads a stop marker.
THEOREM LaunchesStop == Spec => []LaunchedStopsWithAuthority
<1>1. Inv => LaunchedStopsWithAuthority
  BY DEF Inv, ActionsOK, Authorized, Live, LaunchedStopsWithAuthority, Issued
<1>. QED
  BY <1>1, Invariance, PTL

\* Stopped work is not deliverable, the permission to return needs a launch,
\* and confirmed work is bound to the room of its consent.
THEOREM ActionsConsistent ==
    Spec => [](StoppedNotDeliverable /\ ReturnOnlyAfterLaunch /\ ConsentBindsRoom)
<1>1. Inv => StoppedNotDeliverable /\ ReturnOnlyAfterLaunch /\ ConsentBindsRoom
  BY DEF Inv, ActionsOK, Consistent, StoppedNotDeliverable, ReturnOnlyAfterLaunch,
     ConsentBindsRoom, Issued
<1>. QED
  BY <1>1, Invariance, PTL

\* Work of a retired generation is never deliverable.
THEOREM RetiredWorkIsDead == Spec => []RetiredNotDeliverable
<1>1. Inv => RetiredNotDeliverable
  <2>1. ASSUME Inv, NEW i \in Issued, IsPending(actions[i])
        PROVE  actions[i].gen \notin retired[actions[i].char]
    <3>1. actions[i] \in Action /\ actions[i].gen = activeGen[actions[i].char]
      BY <2>1 DEF Inv, ActionsOK, Authorized, Live, Issued
    <3>. QED
      BY <2>1, <3>1 DEF Inv, Action
  <2>. QED
    BY <2>1 DEF RetiredNotDeliverable
<1>. QED
  BY <1>1, Invariance, PTL

-----------------------------------------------------------------------------
(* What one step may do with one action.  Moves(a, b) is the step of the    *)
(* abstract lifecycle and what StopIsFinal forbids, read on the records; a  *)
(* lemma per helper shows that it moves an action like this.  Unlike        *)
(* Weakens it does not compose, so the lemmas start before the expiry pass. *)

Waits(a) == PhaseOf(a) \in {"awaiting", "ready"}

Moves(a, b) ==
    /\ a.stop => b.stop
    /\ ~a.return /\ b.return => ~a.stop /\ ~b.stop
    /\ a.status # "dispatched" /\ b.status = "dispatched" =>
         a.status = "queued" /\ ~b.stop /\ ~(now >= a.expiresAt)
    /\ \/ PhaseOf(b) = PhaseOf(a) /\ b.stop = a.stop
       \/ PhaseOf(b) = PhaseOf(a) /\ ~Waits(a) /\ b.stop
       \/ PhaseOf(a) = "awaiting" /\ PhaseOf(b) = "ready" /\ ~b.stop
       \/ PhaseOf(a) = "ready" /\ PhaseOf(b) = "sent" /\ ~a.stop /\ ~b.stop
       \/ PhaseOf(a) = "sent" /\ PhaseOf(b) = "reported" /\ b.stop = a.stop
       \/ Waits(a) /\ PhaseOf(b) = "withdrawn"

\* The phase of an action is a matter of its status alone.
LEMMA PhaseOfAction ==
    ASSUME NEW a \in Action
    PROVE  /\ PhaseOf(a) \in {"awaiting", "ready", "sent", "reported", "withdrawn"}
           /\ PhaseOf(a) = "awaiting" <=> a.status = "confirmation_required"
           /\ PhaseOf(a) = "ready" <=> a.status = "queued"
           /\ PhaseOf(a) = "sent" <=> a.status = "dispatched"
           /\ PhaseOf(a) = "reported" <=> a.status \in {"completed", "failed"}
           /\ PhaseOf(a) = "withdrawn" <=> a.status \in RevokedStatuses
           /\ Waits(a) <=> IsPending(a)
BY SMT DEF PhaseOf, Waits, Action, IsPending, PendingStatuses, LaunchedStatuses, RevokedStatuses

\* An action that keeps its status, its stop and its permission has not moved.
LEMMA SameMoves ==
    ASSUME NEW a \in Action, NEW b \in Action, b.status = a.status, b.stop = a.stop,
           b.return = a.return
    PROVE  Moves(a, b)
<1>1. PhaseOf(b) = PhaseOf(a)
  BY DEF PhaseOf
<1>. QED
  BY <1>1 DEF Moves

\* Pending work that is taken back, with or without a stop marker.
LEMMA WithdrawnMoves ==
    ASSUME NEW a \in Action, NEW b \in Action, IsPending(a),
           b.status \in RevokedStatuses, b.return = a.return, a.stop => b.stop
    PROVE  Moves(a, b)
<1>1. Waits(a) /\ PhaseOf(b) = "withdrawn"
  BY PhaseOfAction
<1>2. b.status # "dispatched"
  BY DEF RevokedStatuses
<1>. QED
  BY <1>1, <1>2 DEF Moves

\* A stop marker on work that does not wait any more.
LEMMA StopMoves ==
    ASSUME NEW a \in Action, NEW b \in Action, ~IsPending(a),
           b.status = a.status, b.return = a.return, b.stop
    PROVE  Moves(a, b)
<1>1. ~Waits(a) /\ PhaseOf(b) = PhaseOf(a)
  BY PhaseOfAction DEF PhaseOf
<1>. QED
  BY <1>1 DEF Moves

\* Expiry either leaves an action as it is or takes it back.
LEMMA ExpireCases ==
    ASSUME NEW a \in Action
    PROVE  \/ Expire(a) = a /\ (IsPending(a) => ~(now >= a.expiresAt))
           \/ /\ IsPending(a) /\ Expire(a) \in Action /\ Expire(a).status = "expired"
              /\ Expire(a).stop = a.stop /\ Expire(a).return = a.return
              /\ Expire(a).kind = a.kind
BY SMT DEF Expire, Action, IsPending, PendingStatuses, LaunchedStatuses, RevokedStatuses

\* The expiry pass by itself.
LEMMA ExpireMoves ==
    ASSUME NEW a \in Action
    PROVE  Moves(a, Expire(a))
BY ExpireCases, SameMoves, WithdrawnMoves DEF RevokedStatuses

\* A withdrawal after the expiry pass, with the marker it may leave.
LEMMA WithdrawMoves ==
    ASSUME NEW a \in Action
    PROVE  /\ Moves(a, Withdraw(Expire(a)))
           /\ Moves(a, [Withdraw(Expire(a)) EXCEPT !.stop = TRUE])
<1>. DEFINE e == Expire(a)
            w == Withdraw(e)
            b == [w EXCEPT !.stop = TRUE]
<1>1. e \in Action /\ e.return = a.return /\ e.stop = a.stop
  BY ExpireCases
<1>2. w \in Action /\ w.return = e.return /\ w.stop = e.stop
      /\ (IsPending(e) => w.status = "cancelled") /\ (~IsPending(e) => w = e)
  BY <1>1, SMT DEF Withdraw, Action, IsPending, PendingStatuses, LaunchedStatuses, RevokedStatuses
<1>3. b \in Action /\ b.stop = TRUE /\ b.return = w.return /\ b.status = w.status
  BY <1>2 DEF Action
<1>4. CASE IsPending(a)
  <2>1. w.status \in RevokedStatuses
    BY <1>2, <1>4, ExpireCases DEF RevokedStatuses
  <2>. QED
    BY <1>1, <1>2, <1>3, <1>4, <2>1, WithdrawnMoves
<1>5. CASE ~IsPending(a)
  <2>1. e = a /\ w = a
    BY <1>2, <1>5, ExpireCases
  <2>. QED
    BY <1>2, <1>3, <1>5, <2>1, SameMoves, StopMoves
<1>. QED
  BY <1>4, <1>5

\* What the kill switch, a reconnect and the stop of a test do to an action.
LEMMA RevokeMoves ==
    ASSUME NEW a \in Action
    PROVE  Moves(a, Revoke(a)) /\ Moves(a, Revoke(Expire(a)))
<1>1. ASSUME NEW e \in Action, e = a \/ e = Expire(a)
      PROVE  Moves(a, Revoke(e))
  <2>1. CASE IsStoppable(e) /\ IsLaunched(e)
    <3>. DEFINE b == [e EXCEPT !.stop = TRUE]
    <3>1. b \in Action /\ b.stop = TRUE /\ b.return = e.return /\ b.status = e.status
      BY DEF Action
    <3>2. ~IsPending(e) /\ e.status \notin RevokedStatuses
      BY <2>1 DEF IsLaunched, IsPending, LaunchedStatuses, PendingStatuses, RevokedStatuses
    <3>3. e = a
      BY <1>1, <3>2, ExpireCases DEF RevokedStatuses
    <3>. QED
      BY <2>1, <3>1, <3>2, <3>3, StopMoves DEF Revoke
  <2>2. CASE ~(IsStoppable(e) /\ IsLaunched(e))
    <3>1. Revoke(e) = Withdraw(e)
      BY <2>2 DEF Revoke
    <3>2. CASE e = Expire(a)
      BY <3>1, <3>2, WithdrawMoves
    <3>3. CASE e = a
      <4>1. Withdraw(a) \in Action /\ Withdraw(a).return = a.return /\ Withdraw(a).stop = a.stop
            /\ (IsPending(a) => Withdraw(a).status = "cancelled") /\ (~IsPending(a) => Withdraw(a) = a)
        BY SMT DEF Withdraw, Action, IsPending, PendingStatuses, LaunchedStatuses, RevokedStatuses
      <4>. QED
        BY <3>1, <3>3, <4>1, SameMoves, WithdrawnMoves DEF RevokedStatuses
    <3>. QED
      BY <1>1, <3>2, <3>3
  <2>. QED
    BY <2>1, <2>2
<1>. QED
  BY <1>1, ExpireCases

\* A delivery, in time because the expiry pass came first.
LEMMA DeliverMoves ==
    ASSUME NEW a \in Action, Consistent(a), IsPending(Expire(a))
    PROVE  Moves(a, Deliver(Expire(a)))
<1>1. Expire(a) = a /\ IsPending(a) /\ ~(now >= a.expiresAt)
  BY ExpireCases DEF IsPending, PendingStatuses
<1>2. ~a.stop
  BY <1>1 DEF Consistent
<1>3. CASE a.status = "queued"
  <2>. DEFINE b == [a EXCEPT !.status = "dispatched"]
  <2>1. Deliver(a) = b
    BY <1>3 DEF Deliver
  <2>2. b \in Action /\ b.status = "dispatched" /\ b.stop = a.stop /\ b.return = a.return
    BY DEF Action, LaunchedStatuses
  <2>3. PhaseOf(a) = "ready" /\ PhaseOf(b) = "sent"
    BY <1>3, <2>2, PhaseOfAction
  <2>4. PhaseOf(b) # PhaseOf(a)
    BY <2>3
  <2>. QED
    BY <1>1, <1>2, <1>3, <2>1, <2>2, <2>3 DEF Moves
<1>4. CASE a.status # "queued"
  <2>. DEFINE b == [a EXCEPT !.notified = TRUE]
  <2>1. Deliver(a) = b
    BY <1>4 DEF Deliver
  <2>2. b \in Action /\ b.status = a.status /\ b.stop = a.stop /\ b.return = a.return
    BY DEF Action
  <2>. QED
    BY <1>1, <2>1, <2>2, SameMoves
<1>. QED
  BY <1>1, <1>3, <1>4

\* A denial for the wrong room.
LEMMA DenyMoves ==
    ASSUME NEW a \in Action, Expire(a).status = "queued"
    PROVE  Moves(a, Deny(Expire(a))) /\ Deny(Expire(a)).status # "dispatched"
<1>1. Expire(a) = a /\ IsPending(a)
  BY ExpireCases DEF IsPending, PendingStatuses
<1>2. Deny(a) \in Action /\ Deny(a).status = "denied_stale_room"
      /\ Deny(a).stop = a.stop /\ Deny(a).return = a.return
  BY DEF Deny, Action, RevokedStatuses
<1>. QED
  BY <1>1, <1>2, WithdrawnMoves DEF RevokedStatuses

\* Consent, or its refusal for another room.
LEMMA ApproveMoves ==
    ASSUME NEW a \in Action, Consistent(a), Expire(a).status = "confirmation_required",
           NEW r \in Rooms
    PROVE  /\ Moves(a, [Expire(a) EXCEPT !.room = r, !.status = "queued"])
           /\ Moves(a, [Expire(a) EXCEPT !.status = "denied_stale_room"])
<1>. DEFINE b == [a EXCEPT !.room = r, !.status = "queued"]
            d == [a EXCEPT !.status = "denied_stale_room"]
<1>1. Expire(a) = a /\ a.status = "confirmation_required" /\ IsPending(a)
  BY ExpireCases DEF IsPending, PendingStatuses
<1>2. b \in Action /\ d \in Action
  BY DEF Action, PendingStatuses, RevokedStatuses
<1>3. /\ b.status = "queued" /\ b.stop = a.stop /\ b.return = a.return
      /\ d.status = "denied_stale_room" /\ d.stop = a.stop /\ d.return = a.return
  BY DEF Action
<1>4. PhaseOf(a) = "awaiting" /\ PhaseOf(b) = "ready" /\ ~b.stop
  BY <1>1, <1>2, <1>3, PhaseOfAction DEF Consistent
<1>5. Moves(a, b)
  BY <1>1, <1>3, <1>4 DEF Moves
<1>6. Moves(a, d)
  BY <1>1, <1>2, <1>3, WithdrawnMoves DEF RevokedStatuses
<1>. QED
  BY <1>1, <1>5, <1>6

\* A report on delivered work.
LEMMA ReportMoves ==
    ASSUME NEW a \in Action, a.status = "dispatched",
           NEW s \in {"failed", "completed"}, NEW o \in Completions
    PROVE  Moves(a, [a EXCEPT !.status = s, !.completion = o])
<1>. DEFINE b == [a EXCEPT !.status = s, !.completion = o]
<1>1. b \in Action
  BY DEF Action, LaunchedStatuses
<1>2. b.status = s /\ b.stop = a.stop /\ b.return = a.return
  BY DEF Action
<1>3. PhaseOf(a) = "sent" /\ PhaseOf(b) = "reported"
  BY <1>1, <1>2, PhaseOfAction
<1>. QED
  BY <1>2, <1>3 DEF Moves

\* The permission to return, given to work whose stop was not asked for.
LEMMA ReturnMoves ==
    ASSUME NEW a \in Action, ~a.stop
    PROVE  Moves(a, [a EXCEPT !.return = TRUE])
<1>. DEFINE b == [a EXCEPT !.return = TRUE]
<1>1. b \in Action /\ b.status = a.status /\ b.stop = a.stop
  BY DEF Action
<1>2. PhaseOf(b) = PhaseOf(a)
  BY <1>1 DEF PhaseOf
<1>. QED
  BY <1>1, <1>2 DEF Moves

-----------------------------------------------------------------------------
(* Steps of the broker, read on all its actions.                            *)

Sends(i) == i <= issued /\ actions[i].status # "dispatched" /\ actions'[i].status = "dispatched"

\* A step moves what was issued, may offer one more, and sends one at most.
StepMoves ==
    /\ \A i \in Ids : i <= issued => i <= issued' /\ Moves(actions[i], actions'[i])
    /\ \A i \in Ids : ~(i <= issued) =>
         \/ ~(i <= issued') /\ actions'[i] = actions[i]
         \/ /\ i <= issued' /\ actions'[i].stop = FALSE
            /\ actions'[i].status \in PendingStatuses
    /\ \A i, j \in Ids : Sends(i) /\ Sends(j) => i = j

\* The usual step: nothing is offered and only action k, if any, is sent.
LEMMA IssuedStep ==
    ASSUME issued' = issued, NEW k,
           \A i \in Ids : i <= issued => Moves(actions[i], actions'[i]),
           \A i \in Ids : ~(i <= issued) => actions'[i] = actions[i],
           \A i \in Ids : i <= issued /\ i # k =>
               (actions'[i].status = "dispatched" => actions[i].status = "dispatched")
    PROVE  StepMoves
BY DEF StepMoves, Sends

\* The expiry pass sends nothing.
LEMMA ExpiredMoves ==
    ASSUME Inv
    PROVE  \A i \in Ids : i <= issued =>
             /\ actions[i] \in Action /\ Consistent(actions[i])
             /\ Moves(actions[i], ExpiredActions[i])
             /\ ExpiredActions[i].status = "dispatched" => actions[i].status = "dispatched"
<1>. SUFFICES ASSUME NEW i \in Ids, i <= issued
              PROVE  /\ actions[i] \in Action /\ Consistent(actions[i])
                     /\ Moves(actions[i], ExpiredActions[i])
                     /\ ExpiredActions[i].status = "dispatched" => actions[i].status = "dispatched"
  OBVIOUS
<1>1. actions[i] \in Action /\ Consistent(actions[i]) /\ ExpiredActions[i] = Expire(actions[i])
  BY ExpiredWeakens DEF Inv, ActionsOK
<1>. QED
  BY <1>1, ExpireMoves, ExpireCases

\* A method that, after the expiry pass, changes one action without sending it.
LEMMA OneActionMoves ==
    ASSUME Inv, issued' = issued, NEW i \in Ids, i <= issued, NEW b,
           Moves(actions[i], b),
           actions' = [ExpiredActions EXCEPT ![i] = b]
    PROVE  StepMoves
<1>1. DOMAIN actions' = Ids /\ actions'[i] = b
      /\ \A j \in Ids : j # i => actions'[j] = ExpiredActions[j]
  BY ExpiredWeakens
<1>. QED
  BY <1>1, ExpiredMoves, ExpiredWeakens, IssuedStep

\* The kill switch and a reconnect revoke, or leave alone.
LEMMA RevokingStep ==
    ASSUME Inv, issued' = issued,
           \A i \in Ids : i <= issued => actions'[i] \in {actions[i], Revoke(actions[i])},
           \A i \in Ids : ~(i <= issued) => actions'[i] = actions[i]
    PROVE  StepMoves
<1>1. ASSUME NEW i \in Ids, i <= issued
      PROVE  /\ Moves(actions[i], actions'[i])
             /\ actions'[i].status = "dispatched" => actions[i].status = "dispatched"
  <2>1. actions[i] \in Action
    BY <1>1 DEF Inv, ActionsOK
  <2>2. Revoke(actions[i]).status = "dispatched" => actions[i].status = "dispatched"
    BY <2>1, SMT DEF Revoke, Withdraw, Action, IsPending, IsLaunched, IsStoppable
  <2>. QED
    BY <1>1, <2>1, <2>2, RevokeMoves, SameMoves
<1>. QED
  BY <1>1 DEF StepMoves, Sends

\* Every step of the broker moves every action by the abstract lifecycle.
LEMMA NextMoves == Inv /\ Next => StepMoves
<1>. SUFFICES ASSUME Inv, Next PROVE StepMoves
  OBVIOUS
<1>1. ASSUME NEW c \in Characters, NEW g \in Generations,
             AdmitGeneration(c, g) \/ Enable(c, g) \/ Disable(c, g)
      PROVE  StepMoves
  <2>1. issued' = issued
    BY <1>1 DEF AdmitGeneration, Enable, Disable
  <2>2. ASSUME NEW i \in Ids
        PROVE  /\ i <= issued => actions'[i] \in {actions[i], Revoke(actions[i])}
               /\ ~(i <= issued) => actions'[i] = actions[i]
    <3>1. CASE AdmitGeneration(c, g)
      BY <3>1, <2>2 DEF AdmitGeneration
    <3>2. CASE Enable(c, g)
      BY <3>2 DEF Enable
    <3>3. CASE Disable(c, g)
      BY <3>3, <2>2 DEF Disable
    <3>. QED
      BY <1>1, <3>1, <3>2, <3>3
  <2>. QED
    BY <2>1, <2>2, RevokingStep
<1>2. ASSUME NEW c \in Characters, NEW g \in Generations, NEW r \in Rooms,
             PollFindsNothing(c, g, r)
      PROVE  StepMoves
  <2>1. ASSUME NEW i \in Ids, i <= issued
        PROVE  /\ Moves(actions[i], actions'[i])
               /\ actions'[i].status = "dispatched" => actions[i].status = "dispatched"
    <3>1. actions[i] \in Action /\ ExpiredActions[i] = Expire(actions[i])
      BY <2>1, ExpiredMoves, ExpiredWeakens
    <3>2. CASE Stale(i, c, g, r)
      BY <1>2, <2>1, <3>1, <3>2, DenyMoves DEF PollFindsNothing, Stale
    <3>3. CASE ~Stale(i, c, g, r)
      BY <1>2, <2>1, <3>3, ExpiredMoves DEF PollFindsNothing
    <3>. QED
      BY <3>2, <3>3
  <2>2. issued' = issued /\ \A i \in Ids : ~(i <= issued) => actions'[i] = actions[i]
    BY <1>2, ExpiredWeakens DEF PollFindsNothing
  <2>. QED
    BY <2>1, <2>2, IssuedStep
<1>3. ASSUME NEW c \in Characters, NEW g \in Generations, NEW r \in Rooms,
             NEW k \in Issued, PollDelivers(c, g, r, k)
      PROVE  StepMoves
  <2>1. ASSUME NEW i \in Ids, i <= issued
        PROVE  /\ Moves(actions[i], actions'[i])
               /\ i # k /\ actions'[i].status = "dispatched" => actions[i].status = "dispatched"
    <3>1. /\ actions[i] \in Action /\ Consistent(actions[i])
          /\ ExpiredActions[i] = Expire(actions[i])
      BY <2>1, ExpiredMoves, ExpiredWeakens
    <3>2. CASE i = k
      <4>1. IsPending(Expire(actions[i]))
        BY <1>3, <3>2 DEF PollDelivers, Deliverable, IsPending, PendingStatuses
      <4>2. actions'[i] = Deliver(ExpiredActions[i])
        BY <1>3, <3>2 DEF PollDelivers
      <4>. QED
        BY <3>1, <3>2, <4>1, <4>2, DeliverMoves
    <3>3. CASE i # k /\ i < k /\ Stale(i, c, g, r)
      BY <1>3, <3>1, <3>3, DenyMoves DEF PollDelivers, Stale
    <3>4. CASE i # k /\ ~(i < k /\ Stale(i, c, g, r))
      BY <1>3, <2>1, <3>4, ExpiredMoves DEF PollDelivers
    <3>. QED
      BY <3>2, <3>3, <3>4
  <2>2. ASSUME NEW i \in Ids, ~(i <= issued)
        PROVE  actions'[i] = actions[i]
    <3>1. i # k /\ ~(i < k)
      BY <2>2, BrokerConstants, SMT DEF Ids, Inv, ScalarsOK, Issued
    <3>. QED
      BY <1>3, <2>2, <3>1, ExpiredWeakens DEF PollDelivers
  <2>3. issued' = issued
    BY <1>3 DEF PollDelivers
  <2>. QED
    BY <2>1, <2>2, <2>3, IssuedStep
<1>4. ASSUME NEW c \in Characters, NEW k \in Kinds, NEW confirm \in BOOLEAN,
             NEW r \in Rooms \cup {NoRoom}, NEW life \in 1..MaxLifetime, NEW d \in Time,
             Submit(c, k, confirm, r, life, d)
      PROVE  StepMoves
  <2>. DEFINE new == Proposal(c, k, confirm, r, life, d)
  <2>1. new.stop = FALSE /\ new.status \in PendingStatuses
    BY DEF Proposal, PendingStatuses
  <2>2. issued \in Nat /\ issued + 1 \in Ids
    BY <1>4, BrokerConstants, SMT DEF Submit, Inv, ScalarsOK, Ids
  <2>3. issued' = issued + 1 /\ actions'[issued + 1] = new
        /\ \A i \in Ids : i # issued + 1 => actions'[i] = actions[i]
    BY <1>4, <2>2 DEF Submit, Inv, ActionsOK
  <2>4. ASSUME NEW i \in Ids
        PROVE  /\ i <= issued => i <= issued' /\ i # issued + 1
               /\ ~(i <= issued) /\ i # issued + 1 => ~(i <= issued')
               /\ i = issued + 1 => i <= issued'
    BY <2>2, <2>3, BrokerConstants, SMT DEF Ids
  <2>5. ASSUME NEW i \in Ids, i <= issued
        PROVE  Moves(actions[i], actions'[i]) /\ actions'[i] = actions[i]
    BY <2>3, <2>4, <2>5, SameMoves DEF Inv, ActionsOK
  <2>. QED
    BY <2>1, <2>3, <2>4, <2>5 DEF StepMoves, Sends
<1>5. ASSUME NEW i \in Issued, NEW g \in Generations, NEW r \in Rooms, Approve(i, g, r)
      PROVE  StepMoves
  <2>. DEFINE e == ExpiredActions[i]
              b == IF RoomAgrees(actions[i], r)
                   THEN [e EXCEPT !.room = r, !.status = "queued"]
                   ELSE [e EXCEPT !.status = "denied_stale_room"]
  <2>1. i \in Ids /\ i <= issued
    BY DEF Issued
  <2>2. actions[i] \in Action /\ Consistent(actions[i]) /\ e = Expire(actions[i])
    BY <2>1, ExpiredMoves, ExpiredWeakens
  <2>3. Moves(actions[i], b)
    BY <1>5, <2>2, ApproveMoves DEF Approve
  <2>4. actions' = [ExpiredActions EXCEPT ![i] = b] /\ issued' = issued
    BY <1>5 DEF Approve
  <2>. QED
    BY <2>1, <2>3, <2>4, OneActionMoves
<1>6. ASSUME NEW i \in Issued, NEW g \in Generations, NEW o \in Completions \ {"none"},
             RecordResult(i, g, o)
      PROVE  StepMoves
  <2>. DEFINE s == IF o = "failed" THEN "failed" ELSE "completed"
              b == [actions[i] EXCEPT !.status = s, !.completion = o]
  <2>1. i \in Ids /\ i <= issued /\ issued' = issued
    BY <1>6 DEF Issued, RecordResult
  <2>2. Moves(actions[i], b)
    BY <1>6, <2>1, ReportMoves DEF RecordResult, Inv, ActionsOK
  <2>3. actions'[i] = b /\ \A j \in Ids : j # i => actions'[j] = actions[j]
    BY <1>6, <2>1 DEF RecordResult, Inv, ActionsOK
  <2>4. \A j \in Ids : j <= issued => Moves(actions[j], actions'[j])
    BY <2>2, <2>3, SameMoves DEF Inv, ActionsOK
  <2>. QED
    BY <2>1, <2>3, <2>4, IssuedStep
<1>7. ASSUME NEW i \in Issued,
             Cancel(i) \/ RequestTestStop(i) \/ RevokeOwned(i) \/ RequestReturn(i)
      PROVE  StepMoves
  <2>. DEFINE a == actions[i]
              e == ExpiredActions[i]
  <2>1. i \in Ids /\ i <= issued /\ issued' = issued
    BY <1>7 DEF Issued, Cancel, RequestTestStop, RevokeOwned, RequestReturn
  <2>2. a \in Action /\ e = Expire(a)
    BY <2>1, ExpiredMoves, ExpiredWeakens
  <2>3. CASE Cancel(i)
    <3>. DEFINE b == IF e.kind = "travel" /\ e.status = "dispatched"
                     THEN [e EXCEPT !.stop = TRUE] ELSE Withdraw(e)
                t == [a EXCEPT !.stop = TRUE]
    <3>1. t \in Action /\ t.stop = TRUE /\ t.status = a.status /\ t.return = a.return
      BY <2>2 DEF Action
    <3>2. ASSUME e.status = "dispatched" PROVE e = a /\ ~IsPending(a)
      BY <2>2, <3>2, ExpireCases DEF IsPending, PendingStatuses
    <3>3. Moves(a, b)
      BY <2>2, <3>1, <3>2, StopMoves, WithdrawMoves
    <3>4. actions' = [ExpiredActions EXCEPT ![i] = b]
      BY <2>3 DEF Cancel
    <3>. QED
      BY <2>1, <3>3, <3>4, OneActionMoves
  <2>4. CASE RequestTestStop(i)
    <3>1. actions' = [ExpiredActions EXCEPT ![i] = Revoke(e)]
      BY <2>4 DEF RequestTestStop
    <3>. QED
      BY <2>1, <2>2, <3>1, RevokeMoves, OneActionMoves
  <2>5. CASE RevokeOwned(i)
    <3>1. actions' = [ExpiredActions EXCEPT ![i] = [Withdraw(e) EXCEPT !.stop = TRUE]]
      BY <2>5 DEF RevokeOwned
    <3>. QED
      BY <2>1, <2>2, <3>1, WithdrawMoves, OneActionMoves
  <2>6. CASE RequestReturn(i)
    <3>1. e = a /\ ~a.stop
      BY <2>2, <2>6, ExpireCases DEF RequestReturn, MayReturn, IsPending, PendingStatuses
    <3>2. actions' = [ExpiredActions EXCEPT ![i] = [e EXCEPT !.return = TRUE]]
      BY <2>6 DEF RequestReturn
    <3>. QED
      BY <2>1, <2>2, <3>1, <3>2, ReturnMoves, OneActionMoves
  <2>. QED
    BY <1>7, <2>3, <2>4, <2>5, <2>6
<1>8. CASE Observe
  BY <1>8, ExpiredMoves, ExpiredWeakens, IssuedStep DEF Observe
<1>9. CASE Tick
  <2>1. issued' = issued /\ actions' = actions
    BY <1>9 DEF Tick
  <2>. QED
    BY <2>1, SameMoves, IssuedStep DEF Inv, ActionsOK
<1>. QED
  BY <1>1, <1>2, <1>3, <1>4, <1>5, <1>6, <1>7, <1>8, <1>9 DEF Next

\* No stop, no result and no refusal is ever taken back, and nothing stopped
\* or expired is handed out.
THEOREM StopsAreFinal == Spec => StopIsFinal
<1>. DEFINE Final(i) ==
         /\ actions[i].stop => actions'[i].stop
         /\ ~actions[i].return /\ actions'[i].return => ~actions[i].stop /\ ~actions'[i].stop
         /\ actions[i].status # "dispatched" /\ actions'[i].status = "dispatched" =>
              ~actions'[i].stop /\ now < actions[i].expiresAt
<1>1. ASSUME Inv, Next, NEW i \in Issued PROVE Final(i)
  <2>1. Moves(actions[i], actions'[i])
    BY <1>1, NextMoves DEF StepMoves, Issued
  <2>2. ~(now >= actions[i].expiresAt) => now < actions[i].expiresAt
    <3>1. now \in Nat /\ actions[i].expiresAt \in Nat
      BY <1>1, BrokerConstants, SMT DEF Inv, ScalarsOK, ActionsOK, Action, Issued, Time
    <3>. QED
      BY <3>1
  <2>. QED
    BY <2>1, <2>2 DEF Moves
<1>2. Inv /\ [Next]_vars => [\A i \in Issued : Final(i)]_vars
  BY <1>1
<1>. QED
  BY <1>2, Invariance, PTL DEF Spec, StopIsFinal

\* The broker implements ActionLifecycle: every step of it is, for all the
\* actions at once, a step of the abstract lifecycle or none.
THEOREM ImplementsTheLifecycle == Spec => ImplementsLifecycle
<1>. DEFINE ph == [i \in Ids |-> PhaseOf(actions[i])]
            st == [i \in Ids |-> i <= issued /\ actions[i].stop]
<1>1. Init => Lifecycle!Init
  <2>. SUFFICES ASSUME Init PROVE Lifecycle!Init
    OBVIOUS
  <2>1. ASSUME NEW i \in Ids
        PROVE  PhaseOf(actions[i]) = "absent" /\ ~(i <= issued)
    BY SMT DEF Init, Unissued, PhaseOf, Ids
  <2>. QED
    BY <2>1 DEF Lifecycle!Init
<1>2. Inv /\ Inv' /\ StepMoves => Lifecycle!Next
  <2>. SUFFICES ASSUME Inv, Inv', StepMoves PROVE Lifecycle!Next
    OBVIOUS
  <2>1. ASSUME NEW i \in Ids
        PROVE  /\ i <= issued => actions[i] \in Action
               /\ ~(i <= issued) => actions[i] = Unissued /\ PhaseOf(actions[i]) = "absent"
               /\ i <= issued' => actions'[i] \in Action
               /\ ~(i <= issued') => actions'[i] = Unissued /\ PhaseOf(actions'[i]) = "absent"
    <3>1. PhaseOf(Unissued) = "absent"
      BY DEF Unissued, PhaseOf
    <3>. QED
      BY <3>1 DEF Inv, ActionsOK
  <2>2. ASSUME NEW i \in Ids
        PROVE  /\ PhaseOf(actions'[i]) \in Lifecycle!Phases
               /\ (i <= issued' /\ actions'[i].stop) \in BOOLEAN
    BY <2>1, PhaseOfAction DEF Lifecycle!Phases
  <2>3. ph' \in [Ids -> Lifecycle!Phases] /\ st' \in [Ids -> BOOLEAN]
    BY <2>2
  <2>4. ASSUME NEW i \in Ids
        PROVE  \/ Lifecycle!Offer(i) \/ Lifecycle!Consent(i) \/ Lifecycle!Send(i)
               \/ Lifecycle!Report(i) \/ Lifecycle!WithdrawOne(i) \/ Lifecycle!Stop(i)
               \/ Lifecycle!Keep(i)
    <3>1. /\ ph[i] = PhaseOf(actions[i]) /\ ph'[i] = PhaseOf(actions'[i])
          /\ st[i] = (i <= issued /\ actions[i].stop)
          /\ st'[i] = (i <= issued' /\ actions'[i].stop)
      OBVIOUS
    <3>. USE DEF Lifecycle!Offer, Lifecycle!Consent, Lifecycle!Send, Lifecycle!Report,
                 Lifecycle!WithdrawOne, Lifecycle!Stop, Lifecycle!Keep
    <3>2. CASE i <= issued
      <4>1. Moves(actions[i], actions'[i]) /\ i <= issued'
        BY <3>2 DEF StepMoves
      <4>2. actions[i] \in Action /\ actions'[i] \in Action
        BY <2>1, <3>2, <4>1
      <4>3. st[i] = actions[i].stop /\ st'[i] = actions'[i].stop
        BY <3>1, <3>2, <4>1, <4>2 DEF Action
      <4>. QED
        BY <3>1, <4>1, <4>2, <4>3, PhaseOfAction DEF Moves, Waits
    <3>3. CASE ~(i <= issued)
      <4>1. CASE ~(i <= issued') /\ actions'[i] = actions[i]
        BY <3>1, <3>3, <4>1
      <4>2. CASE i <= issued' /\ actions'[i].stop = FALSE /\ actions'[i].status \in PendingStatuses
        BY <2>1, <3>1, <3>3, <4>2, PhaseOfAction DEF PendingStatuses
      <4>. QED
        BY <3>3, <4>1, <4>2 DEF StepMoves
    <3>. QED
      BY <3>2, <3>3
  <2>5. ASSUME NEW i \in Ids, NEW j \in Ids, Lifecycle!Send(i), Lifecycle!Send(j)
        PROVE  i = j
    <3>1. ASSUME NEW k \in Ids, Lifecycle!Send(k) PROVE Sends(k)
      <4>1. PhaseOf(actions[k]) = "ready" /\ PhaseOf(actions'[k]) = "sent"
        BY <3>1 DEF Lifecycle!Send
      <4>2. k <= issued /\ k <= issued'
        BY <2>1, <4>1
      <4>. QED
        BY <2>1, <4>1, <4>2, PhaseOfAction DEF Sends
    <3>. QED
      BY <2>5, <3>1 DEF StepMoves
  <2>. QED
    BY <2>3, <2>4, <2>5 DEF Lifecycle!Next
<1>3. UNCHANGED vars => UNCHANGED Lifecycle!lifecycleVars
  BY DEF vars, Lifecycle!lifecycleVars
<1>4. Inv /\ Inv' /\ [Next]_vars => [Lifecycle!Next]_(Lifecycle!lifecycleVars)
  BY <1>2, <1>3, NextMoves
<1>. QED
  BY <1>1, <1>4, Invariance, PTL DEF Spec, ImplementsLifecycle, Lifecycle!Spec
=============================================================================
