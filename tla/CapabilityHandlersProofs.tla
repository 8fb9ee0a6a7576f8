----------------------- MODULE CapabilityHandlersProofs -----------------------
(***************************************************************************)
(* Proofs about CapabilityHandlers, for any plans, any number of operations *)
(* and any number of changes, reconnects and restarts.                     *)
(*                                                                         *)
(* A success rests on what the handler has looked at, so the invariant     *)
(* says of everything a handler may look at (the game, the snapshot, the   *)
(* reports, the receipts) that it was true once: Witnessed.  That no       *)
(* outing leaves before the earlier ones are home rests on two memories,   *)
(* the handoff of the sidecar and the outing the bridge retains: one of    *)
(* them names an outing that is still out, and the handoff of an earlier   *)
(* one is gone before the next is launched: Remembered.                    *)
(***************************************************************************)
EXTENDS CapabilityHandlers, TLAPS

BusyPoints == {"start", "admitted", "launch", "wait", "verify"}
Sessions == 1..(MaxCrashes + 1)
Statuses == {"none", "pending", "dispatched", "completed", "failed", "revoked"}
Snapshots == {NoSnapshot} \cup Game
Operation == [at: BusyPoints \cup {"succeeded", "ended"}, capability: AllCapabilities,
              session: Sessions, base: Snapshots, target: 0..MaxOperations]
Report == [op: Ops, ok: BOOLEAN, started: BOOLEAN, returned: BOOLEAN]
Handoff == {NoOuting} \cup [op: Ops, base: Snapshots]
Retained == {NoOuting} \cup [op: Ops, hands: {"own", "other"}]

Types ==
    /\ game \in Game /\ crashes \in Nat /\ game.session <= crashes + 1 /\ crashes <= MaxCrashes
    /\ snap \in Snapshots
    /\ op \in [Ops -> {Unused} \cup Operation]
    /\ action \in [Ops -> Statuses]
    /\ reports \subseteq Report
    /\ handoff \in Handoff
    /\ native \in Retained
    /\ receipts \subseteq (Ops \X Sessions)
    /\ shown \subseteq Ops /\ left \subseteq Ops /\ excused \subseteq Ops

\* The capabilities whose success promises something of the game.
Promising == {"travel.go2", "room.loot", "character.recon", "session.command", "outing"}

Outing(o) == op[o] # Unused /\ op[o].capability = "outing"

\* One operation goes on at a time.
Alone == \A o, p \in Ops : op[o].at \in BusyPoints /\ op[p].at \in BusyPoints => o = p

\* An action is submitted by a launch, and an outing's waits with its handler.
Sending ==
    /\ \A o \in Ops : op[o].at \in {"none", "start", "admitted", "launch"} => action[o] = "none"
    /\ \A o \in Ops : Outing(o) /\ action[o] = "pending" => op[o].at = "wait"

\* What exists of an action only once it was sent.
Sent(o) == action[o] \notin {"none", "pending"}
Traces ==
    /\ \A o \in left \cup game.done : Sent(o)
    /\ game.owner # Nobody => Sent(game.owner)
    /\ \A r \in reports : Sent(r.op)
    /\ snap # NoSnapshot => \A o \in snap.done : Sent(o)
    /\ game.captured # 0 => op[game.captured] # Unused
    /\ snap # NoSnapshot /\ snap.captured # 0 => op[snap.captured] # Unused

\* Whatever a handler takes for evidence was true once.
Witnessed ==
    /\ Kept(game, native) \subseteq shown
    /\ snap # NoSnapshot => Kept(snap, NoOuting) \subseteq shown
    /\ \A r \in reports : r.returned => r.op \in shown
    /\ \A r \in reports : ~r.started => r.op \notin left
    /\ \A r \in receipts : r[1] \in shown
    /\ SuccessIsWitnessed

\* The snapshot is a later one of the handoff's session and shows its end.
Resolving ==
    /\ "handoff" \in news /\ snap # NoSnapshot
    /\ snap.session = handoff.base.session /\ AtRefuge(snap) /\ OutingHands(snap)

Remembered ==
    /\ \A o \in Ops : Outing(o) /\ op[o].at \in {"admitted", "launch"} => handoff = NoOuting
    /\ \A o \in Ops : Outing(o) /\ op[o].at = "wait" => handoff.op \in {0, o}
    /\ \A p \in left : p \in shown \cup excused \/ native.op = p \/ handoff.op = p
    /\ HoldsHandoff /\ Resolving => handoff.op \in excused

HandlersInv == Types /\ Alone /\ Sending /\ Traces /\ Witnessed /\ Remembered

-----------------------------------------------------------------------------
(* What the steps of a handler do to its operation.                         *)

\* An operation that is used has its fields; the others have no capability.
LEMMA OperationFields ==
    ASSUME Types, NEW o \in Ops, op[o].at # "none"
    PROVE  op[o] \in Operation /\ op[o] # Unused
BY DEF Types, Unused

\* Moving to another point is all that happens.
LEMMA PointMoves ==
    ASSUME Types, NEW o \in Ops, op[o].at # "none",
           NEW point \in BusyPoints \cup {"succeeded", "ended"},
           op' = [op EXCEPT ![o].at = point]
    PROVE  /\ op' \in [Ops -> {Unused} \cup Operation]
           /\ op'[o] # Unused /\ op'[o].at = point /\ op'[o].capability = op[o].capability
           /\ \A p \in Ops : p # o => op'[p] = op[p]
<1>1. op[o] \in Operation /\ op[o] # Unused /\ op \in [Ops -> {Unused} \cup Operation]
  BY OperationFields DEF Types
<1>2. op' = [op EXCEPT ![o] = [op[o] EXCEPT !.at = point]]
  OBVIOUS
<1>3. [op[o] EXCEPT !.at = point] \in Operation
  BY <1>1 DEF Operation
<1>. QED
  BY <1>1, <1>2, <1>3 DEF Operation, Unused, BusyPoints

\* The same, with another base.
LEMMA PointRebased ==
    ASSUME Types, NEW o \in Ops, op[o].at # "none",
           NEW point \in BusyPoints \cup {"succeeded", "ended"},
           NEW base \in Snapshots,
           op' = [op EXCEPT ![o].at = point, ![o].base = base]
    PROVE  /\ op' \in [Ops -> {Unused} \cup Operation]
           /\ op'[o] # Unused /\ op'[o].at = point /\ op'[o].capability = op[o].capability
           /\ \A p \in Ops : p # o => op'[p] = op[p]
<1>1. op[o] \in Operation /\ op[o] # Unused /\ op \in [Ops -> {Unused} \cup Operation]
  BY OperationFields DEF Types
<1>2. op' = [op EXCEPT ![o] = [op[o] EXCEPT !.at = point, !.base = base]]
  BY <1>1
<1>3. [op[o] EXCEPT !.at = point, !.base = base] \in Operation
  BY <1>1 DEF Operation
<1>. QED
  BY <1>1, <1>2, <1>3 DEF Operation, Unused, BusyPoints

\* Whatever the game or a snapshot names is an operation.
LEMMA NamedAreOps ==
    ASSUME Types
    PROVE  /\ game.owner # Nobody => game.owner \in Ops
           /\ game.captured # 0 => game.captured \in Ops
           /\ game.done \subseteq Ops
           /\ snap # NoSnapshot => /\ snap \in Game
                                   /\ snap.owner # Nobody => snap.owner \in Ops
                                   /\ snap.captured # 0 => snap.captured \in Ops
                                   /\ snap.done \subseteq Ops
           /\ \A r \in reports : r.op \in Ops
           /\ 0 \notin Ops
<1>1. ASSUME NEW g \in Game
      PROVE  /\ g.owner # Nobody => g.owner \in Ops
             /\ g.captured # 0 => g.captured \in Ops
             /\ g.done \subseteq Ops
  BY HandlerConstants DEF Game, Ops, Nobody
<1>2. game \in Game /\ (snap # NoSnapshot => snap \in Game) /\ reports \subseteq Report
  BY DEF Types, Snapshots
<1>. QED
  BY <1>1, <1>2, HandlerConstants DEF Report, Ops

\* What is used keeps its capability, and what was sent stays sent.
Keeps ==
    /\ \A p \in Ops : op[p] # Unused => op'[p] # Unused /\ op'[p].capability = op[p].capability
    /\ \A p \in Ops : Sent(p) => Sent(p)'

\* Evidence that stays bears out what it did.
LEMMA EvidenceStays ==
    ASSUME Types, Sending, Traces, Witnessed, Keeps,
           UNCHANGED <<game, snap, reports, native, receipts, shown, left>>,
           SuccessIsWitnessed'
    PROVE  Traces' /\ Witnessed'
<1>1. Traces'
  BY NamedAreOps DEF Traces, Keeps, Types
<1>2. Kept(game, native)' = Kept(game, native)
  BY NamedAreOps DEF Kept, AtRefuge, Keeps, Traces, Sending, Sent, Unused
<1>3. snap # NoSnapshot => Kept(snap, NoOuting)' = Kept(snap, NoOuting)
  BY NamedAreOps DEF Kept, AtRefuge, Keeps, Traces, Sending, Sent, Unused, NoOuting
<1>4. Witnessed'
  BY <1>2, <1>3 DEF Witnessed
<1>. QED
  BY <1>1, <1>4

\* What is remembered stays so, if no outing comes nearer to its launch.
LEMMA MemoryStays ==
    ASSUME Remembered, UNCHANGED <<snap, native, left, handoff>>, news' \subseteq news,
           shown \subseteq shown', excused \subseteq excused',
           \A p \in Ops : Outing(p)' /\ op'[p].at \in {"admitted", "launch"} =>
               Outing(p) /\ op[p].at \in {"admitted", "launch"},
           \A p \in Ops : Outing(p)' /\ op'[p].at = "wait" => Outing(p) /\ op[p].at = "wait"
    PROVE  Remembered'
BY DEF Remembered, Resolving, AtRefuge, OutingHands, HoldsHandoff

\* A step of a handler moves its own operation, and a success has been shown.
LEMMA HandlerFrame ==
    ASSUME HandlersInv, NEW o \in Ops, op[o].at \in BusyPoints,
           op' \in [Ops -> {Unused} \cup Operation],
           op'[o] # Unused, op'[o].capability = op[o].capability,
           \A p \in Ops : p # o => op'[p] = op[p],
           op'[o].at = "succeeded" /\ op'[o].capability \in Promising => o \in shown,
           \A p \in Ops : Sent(p) => Sent(p)',
           UNCHANGED <<outside, reports>>
    PROVE  Alone' /\ Traces' /\ Witnessed'
<1>1. Types /\ Sending /\ Alone /\ Traces /\ Witnessed
  BY DEF HandlersInv
<1>2. UNCHANGED <<game, snap, reports, native, receipts, shown, left>>
  BY DEF outside
<1>3. Alone'
  BY <1>1 DEF Alone
<1>4. SuccessIsWitnessed'
  BY <1>1, <1>2 DEF Witnessed, SuccessIsWitnessed, Promising
<1>5. Traces' /\ Witnessed'
  BY <1>1, <1>2, <1>4, EvidenceStays DEF Keeps
<1>. QED
  BY <1>3, <1>5

-----------------------------------------------------------------------------
(* The steps of the handlers.                                               *)

\* A client's request begins an operation, while no other goes on.
LEMMA RequestKept ==
    ASSUME HandlersInv, NEW o \in Ops, NEW k \in AllCapabilities, Request(o, k)
    PROVE  HandlersInv'
<1>1. Types /\ Sending /\ Alone /\ Traces /\ Witnessed /\ Remembered
  BY DEF HandlersInv
<1>2. PICK target \in IF k = "session.recover_controller" THEN 1..(o - 1) ELSE {0} :
        op' = [op EXCEPT ![o] = [at |-> "start", capability |-> k, session |-> snap.session,
                                 base |-> NoSnapshot, target |-> target]]
  BY DEF Request
<1>. DEFINE new == [at |-> "start", capability |-> k, session |-> snap.session,
                    base |-> NoSnapshot, target |-> target]
<1>3. /\ op[o] = Unused /\ ~Busy /\ snap # NoSnapshot
      /\ UNCHANGED <<outside, news, action, reports, handoff>>
  BY DEF Request, Fresh
<1>4. new \in Operation
  <2>1. target \in 0..MaxOperations
    BY HandlerConstants DEF Ops
  <2>2. snap.session \in Sessions
    BY <1>1, <1>3 DEF Types, Snapshots, Game, Sessions
  <2>. QED
    BY <2>1, <2>2 DEF Operation, BusyPoints, Snapshots
<1>5. /\ op' \in [Ops -> {Unused} \cup Operation]
      /\ op'[o] = new /\ \A p \in Ops : p # o => op'[p] = op[p]
      /\ new.at = "start" /\ new # Unused
  BY <1>1, <1>2, <1>4 DEF Types, Unused
<1>6. Types'
  BY <1>1, <1>3, <1>5 DEF Types, outside
<1>7. Keeps
  BY <1>3, <1>5 DEF Keeps, Sent
<1>8. Alone'
  BY <1>3, <1>5 DEF Alone, Busy, BusyPoints
<1>9. Sending'
  BY <1>1, <1>3, <1>5 DEF Sending, Outing, Unused
<1>10. Traces' /\ Witnessed'
  <2>1. SuccessIsWitnessed'
    BY <1>1, <1>3, <1>5 DEF Witnessed, SuccessIsWitnessed, outside
  <2>. QED
    BY <1>1, <1>3, <1>7, <2>1, EvidenceStays DEF outside
<1>11. Remembered'
  <2>1. \A p \in Ops : Outing(p)' /\ op'[p].at # "start" => Outing(p) /\ op'[p].at = op[p].at
    BY <1>5 DEF Outing
  <2>. QED
    BY <1>1, <1>3, <2>1, MemoryStays DEF outside
<1>. QED
  BY <1>6, <1>8, <1>9, <1>10, <1>11 DEF HandlersInv

\* The first judgement: a handoff is given up only for an outing that is home
\* or excused, by a receipt or by a later snapshot of its session.
LEMMA StartKept ==
    ASSUME HandlersInv, NEW o \in Ops, Start(o)
    PROVE  HandlersInv'
<1>1. Types /\ Sending /\ Alone /\ Traces /\ Witnessed /\ Remembered
  BY DEF HandlersInv
<1>2. /\ op[o].at = "start" /\ snap # NoSnapshot
      /\ op' = [op EXCEPT ![o].at = "admitted", ![o].base = snap]
      /\ UNCHANGED <<outside, action, reports>>
  BY DEF Start, Current, Fresh
<1>3. snap \in Snapshots
  BY <1>1 DEF Types
<1>4. /\ op' \in [Ops -> {Unused} \cup Operation]
      /\ op'[o] # Unused /\ op'[o].at = "admitted" /\ op'[o].capability = op[o].capability
      /\ \A p \in Ops : p # o => op'[p] = op[p]
  BY <1>1, <1>2, <1>3, PointRebased DEF BusyPoints
<1>5. handoff' = handoff \/ handoff' = NoOuting
  BY DEF Start
<1>6. Types'
  BY <1>1, <1>2, <1>4, <1>5 DEF Types, outside, Handoff
<1>7. Alone' /\ Traces' /\ Witnessed'
  BY <1>2, <1>4, HandlerFrame DEF BusyPoints, Sent
<1>8. Sending'
  BY <1>1, <1>2, <1>4 DEF Sending, Outing
<1>9. Remembered'
  <2>1. op[o].capability = "outing" => handoff' = NoOuting
    BY DEF Start, IsController
  <2>2. handoff' # handoff /\ HoldsHandoff => handoff.op \in shown \cup excused
    <3>. SUFFICES ASSUME handoff' # handoff, HoldsHandoff PROVE handoff.op \in shown \cup excused
      OBVIOUS
    <3>1. MayResolve(snap)
      BY DEF Start, Unresolved
    <3>2. CASE snap.session = handoff.base.session
      BY <1>1, <1>2, <3>1, <3>2 DEF MayResolve, Remembered, Resolving, RefugeReady, ControllerReady, AtRefuge
    <3>3. CASE snap.session # handoff.base.session
      BY <1>1, <3>1, <3>3 DEF MayResolve, Witnessed
    <3>. QED
      BY <3>2, <3>3
  <2>3. /\ shown' = shown /\ excused' = excused /\ left' = left /\ native' = native /\ snap' = snap
        /\ news' \subseteq news
    BY <1>2 DEF outside, Start
  <2>4. \A p \in left : p \in shown \cup excused \/ native.op = p \/ handoff'.op = p
    <3>1. ASSUME handoff' # handoff, ~HoldsHandoff PROVE FALSE
      BY <1>5, <3>1 DEF HoldsHandoff
    <3>. QED
      BY <1>1, <2>2, <3>1 DEF Remembered
  <2>5. handoff' = handoff \/ ~HoldsHandoff'
    BY <1>5 DEF HoldsHandoff
  <2>6. \A p \in Ops : p # o => Outing(p)' = Outing(p) /\ op'[p].at = op[p].at
    BY <1>4 DEF Outing
  <2>7. handoff' = handoff \/ handoff'.op = 0
    BY <1>5 DEF NoOuting
  <2>8. /\ \A p \in Ops : Outing(p)' /\ op'[p].at \in {"admitted", "launch"} => handoff' = NoOuting
        /\ \A p \in Ops : Outing(p)' /\ op'[p].at = "wait" => handoff'.op \in {0, p}
    BY <1>1, <1>4, <1>5, <2>1, <2>6, <2>7 DEF Remembered, Outing
  <2>9. HoldsHandoff' /\ Resolving' => handoff'.op \in excused'
    BY <1>1, <2>3, <2>5 DEF Remembered, Resolving, AtRefuge, OutingHands, HoldsHandoff
  <2>. QED
    BY <2>3, <2>4, <2>8, <2>9 DEF Remembered
<1>. QED
  BY <1>6, <1>7, <1>8, <1>9 DEF HandlersInv

\* The second judgement, for those that read again before they launch.
LEMMA ReadAgainKept ==
    ASSUME HandlersInv, NEW o \in Ops, ReadAgain(o)
    PROVE  HandlersInv'
<1>1. Types /\ Sending /\ Alone /\ Traces /\ Witnessed /\ Remembered
  BY DEF HandlersInv
<1>2. /\ op[o].at = "admitted" /\ news' \subseteq news
      /\ \/ op' = [op EXCEPT ![o].at = "launch", ![o].base = snap]
         \/ op' = [op EXCEPT ![o].at = "launch"]
      /\ UNCHANGED <<outside, action, reports, handoff>>
  BY DEF ReadAgain, At
<1>3. snap \in Snapshots
  BY <1>1 DEF Types
<1>4. /\ op' \in [Ops -> {Unused} \cup Operation]
      /\ op'[o] # Unused /\ op'[o].at = "launch" /\ op'[o].capability = op[o].capability
      /\ \A p \in Ops : p # o => op'[p] = op[p]
  BY <1>1, <1>2, <1>3, PointMoves, PointRebased DEF BusyPoints
<1>5. Types'
  BY <1>1, <1>2, <1>4 DEF Types, outside
<1>6. Alone' /\ Traces' /\ Witnessed'
  BY <1>2, <1>4, HandlerFrame DEF BusyPoints, Sent
<1>7. Sending'
  BY <1>1, <1>2, <1>4 DEF Sending, Outing
<1>8. Remembered'
  <2>1. \A p \in Ops : Outing(p)' /\ op'[p].at \in {"admitted", "launch"} =>
            Outing(p) /\ op[p].at \in {"admitted", "launch"}
    BY <1>1, <1>2, <1>4, OperationFields DEF Outing
  <2>2. \A p \in Ops : Outing(p)' /\ op'[p].at = "wait" => Outing(p) /\ op[p].at = "wait"
    BY <1>4 DEF Outing
  <2>. QED
    BY <1>1, <1>2, <2>1, <2>2, MemoryStays DEF outside
<1>. QED
  BY <1>5, <1>6, <1>7, <1>8 DEF HandlersInv

\* The launch: an outing opens its handoff, and none was open.
LEMMA LaunchKept ==
    ASSUME HandlersInv, NEW o \in Ops, Launch(o)
    PROVE  HandlersInv'
<1>1. Types /\ Sending /\ Alone /\ Traces /\ Witnessed /\ Remembered
  BY DEF HandlersInv
<1>2. /\ op[o].at = "launch" /\ op' = [op EXCEPT ![o].at = "wait"]
      /\ action' = [action EXCEPT ![o] = "pending"]
      /\ UNCHANGED <<outside, reports>>
  BY DEF Launch, At
<1>3. /\ op' \in [Ops -> {Unused} \cup Operation]
      /\ op'[o] # Unused /\ op'[o].at = "wait" /\ op'[o].capability = op[o].capability
      /\ \A p \in Ops : p # o => op'[p] = op[p]
  BY <1>1, <1>2, PointMoves DEF BusyPoints
<1>4. op[o] \in Operation /\ op[o] # Unused
  BY <1>1, <1>2, OperationFields
<1>5. /\ action' \in [Ops -> Statuses] /\ action'[o] = "pending" /\ action[o] = "none"
      /\ \A p \in Ops : p # o => action'[p] = action[p]
  BY <1>1, <1>2 DEF Types, Statuses, Sending
<1>6. handoff' \in Handoff
  BY <1>1, <1>4 DEF Launch, Types, Handoff, Operation
<1>7. Types'
  BY <1>1, <1>2, <1>3, <1>5, <1>6 DEF Types, outside
<1>8. Alone' /\ Traces' /\ Witnessed'
  BY <1>2, <1>3, <1>5, HandlerFrame DEF BusyPoints, Sent
<1>9. Sending'
  BY <1>1, <1>3, <1>5 DEF Sending, Outing
<1>10. Remembered'
  <2>1. /\ snap' = snap /\ native' = native /\ left' = left /\ shown' = shown /\ excused' = excused
    BY <1>2 DEF outside
  <2>2. CASE op[o].capability = "outing"
    <3>1. /\ handoff' = [op |-> o, base |-> op[o].base] /\ "handoff" \notin news'
          /\ handoff = NoOuting
      BY <1>1, <1>2, <1>4, <2>2 DEF Launch, Remembered, Outing
    <3>2. \A p \in left : p \in shown \cup excused \/ native.op = p
      BY <1>1, <3>1, NamedAreOps DEF Remembered, NoOuting, Types
    <3>3. \A p \in Ops : p # o /\ op'[p] # Unused =>
              op'[p].at \notin {"admitted", "launch", "wait"}
      BY <1>1, <1>2, <1>3 DEF Alone, BusyPoints
    <3>. QED
      BY <1>3, <2>1, <3>1, <3>2, <3>3 DEF Remembered, Resolving, Outing
  <2>3. CASE op[o].capability # "outing"
    <3>1. handoff' = handoff /\ news' = news
      BY <2>3 DEF Launch
    <3>2. \A p \in Ops : Outing(p)' => Outing(p) /\ op'[p].at = op[p].at
      BY <1>3, <2>3 DEF Outing
    <3>. QED
      BY <1>1, <2>1, <3>1, <3>2, MemoryStays
  <2>. QED
    BY <2>2, <2>3
<1>. QED
  BY <1>7, <1>8, <1>9, <1>10 DEF HandlersInv

\* The end of the wait, for a completion or for a report that came first.
LEMMA WaitEndsKept ==
    ASSUME HandlersInv, NEW o \in Ops, StepCompletes(o) \/ StepFailsWithReport(o)
    PROVE  HandlersInv'
<1>1. Types /\ Sending /\ Alone /\ Traces /\ Witnessed /\ Remembered
  BY DEF HandlersInv
<1>2. /\ op[o].at = "wait" /\ op' = [op EXCEPT ![o].at = "verify"]
      /\ action[o] # "pending"
      /\ UNCHANGED <<outside, news, action, reports, handoff>>
  BY DEF StepCompletes, StepFailsWithReport, At
<1>3. /\ op' \in [Ops -> {Unused} \cup Operation]
      /\ op'[o] # Unused /\ op'[o].at = "verify" /\ op'[o].capability = op[o].capability
      /\ \A p \in Ops : p # o => op'[p] = op[p]
  BY <1>1, <1>2, PointMoves DEF BusyPoints
<1>4. Types'
  BY <1>1, <1>2, <1>3 DEF Types, outside
<1>5. Alone' /\ Traces' /\ Witnessed'
  BY <1>2, <1>3, HandlerFrame DEF BusyPoints, Sent
<1>6. Sending'
  BY <1>1, <1>2, <1>3 DEF Sending, Outing
<1>7. Remembered'
  <2>1. \A p \in Ops : Outing(p)' /\ op'[p].at # "verify" => Outing(p) /\ op'[p].at = op[p].at
    BY <1>3 DEF Outing
  <2>. QED
    BY <1>1, <1>2, <2>1, MemoryStays DEF outside
<1>. QED
  BY <1>4, <1>5, <1>6, <1>7 DEF HandlersInv

\* An operation that ends is verified or not; what it had pending may go.
LEMMA EndsKept ==
    ASSUME HandlersInv, NEW o \in Ops, op[o].at \in BusyPoints,
           NEW verdict \in {"succeeded", "ended"}, Ends(o, verdict),
           verdict = "succeeded" /\ op[o].capability \in Promising => o \in shown,
           action' \in [Ops -> Statuses],
           \A p \in Ops : action'[p] = action[p] \/ (p = o /\ action'[p] = "revoked"),
           Outing(o) /\ action[o] = "pending" => action'[o] # "pending",
           handoff' \in {handoff, NoOuting},
           handoff' # handoff /\ HoldsHandoff => handoff.op \in shown \cup excused \/ handoff.op \notin left,
           UNCHANGED <<outside, news, reports>>
    PROVE  HandlersInv'
<1>1. Types /\ Sending /\ Alone /\ Traces /\ Witnessed /\ Remembered
  BY DEF HandlersInv
<1>2. op' = [op EXCEPT ![o].at = verdict, ![o].base = NoSnapshot]
  BY DEF Ends
<1>3. /\ op' \in [Ops -> {Unused} \cup Operation]
      /\ op'[o] # Unused /\ op'[o].at = verdict /\ op'[o].capability = op[o].capability
      /\ \A p \in Ops : p # o => op'[p] = op[p]
  BY <1>1, <1>2, PointRebased DEF BusyPoints, Snapshots
<1>4. Types'
  BY <1>1, <1>3 DEF Types, outside, Handoff
<1>5. Alone' /\ Traces' /\ Witnessed'
  BY <1>3, HandlerFrame DEF Sent
<1>6. Sending'
  <2>1. \A p \in Ops : p # o => action'[p] = action[p] /\ Outing(p)' = Outing(p)
    BY <1>3 DEF Outing
  <2>2. ~(Outing(o)' /\ action'[o] = "pending")
    BY <1>3 DEF Outing, Unused, BusyPoints
  <2>. QED
    BY <1>1, <1>3, <2>1, <2>2 DEF Sending
<1>7. Remembered'
  <2>1. \A p \in Ops : Outing(p)' /\ op'[p].at \notin {"succeeded", "ended"} =>
            Outing(p) /\ op'[p].at = op[p].at
    BY <1>3 DEF Outing
  <2>2. CASE handoff' = handoff
    BY <1>1, <2>1, <2>2, MemoryStays DEF outside
  <2>3. CASE handoff' = NoOuting /\ handoff # NoOuting
    <3>1. \A p \in left : p \in shown \cup excused \/ native.op = p
      BY <1>1, <2>3 DEF Remembered, HoldsHandoff
    <3>. QED
      BY <1>1, <2>1, <2>3, <3>1 DEF Remembered, HoldsHandoff, NoOuting, outside
  <2>. QED
    BY <2>2, <2>3
<1>. QED
  BY <1>4, <1>5, <1>6, <1>7 DEF HandlersInv

\* A verified end has seen in a later snapshot what the operation promises.
LEMMA VerifyEndKept ==
    ASSUME HandlersInv, NEW o \in Ops, VerifyEnd(o)
    PROVE  HandlersInv'
<1>1. Types /\ Sending /\ Alone /\ Traces /\ Witnessed /\ Remembered
  BY DEF HandlersInv
<1>2. /\ op[o].at = "verify" /\ snap # NoSnapshot /\ EndShows(o, snap)
      /\ op[o].capability # "outing"
      /\ Ends(o, "succeeded")
      /\ UNCHANGED <<outside, news, action, reports>>
  BY DEF VerifyEnd, PostState, Current, Fresh, IsController
<1>3. ASSUME op[o].capability \in Promising PROVE o \in shown
  <2>1. o \in Kept(snap, NoOuting)
    <3>1. CASE op[o].capability = "travel.go2"
      BY <1>2, <3>1 DEF EndShows, TravelReady, Kept, AtRefuge
    <3>2. CASE op[o].capability = "room.loot"
      BY <1>2, <3>2 DEF EndShows, Kept
    <3>3. CASE op[o].capability = "character.recon"
      BY <1>2, <3>3 DEF EndShows, Kept
    <3>4. CASE op[o].capability = "session.command"
      BY <1>2, <3>4 DEF EndShows, Kept
    <3>. QED
      BY <1>2, <1>3, <3>1, <3>2, <3>3, <3>4 DEF Promising
  <2>. QED
    BY <1>1, <1>2, <2>1 DEF Witnessed
<1>4. /\ handoff' \in {handoff, NoOuting}
      /\ handoff' # handoff /\ HoldsHandoff => MayResolve(snap)
  BY DEF VerifyEnd
<1>5. HoldsHandoff /\ MayResolve(snap) => handoff.op \in shown \cup excused
  BY <1>1, <1>2 DEF MayResolve, Remembered, Resolving, RefugeReady, ControllerReady, AtRefuge, Witnessed
<1>6. Outing(o) /\ action[o] = "pending" => FALSE
  BY <1>2 DEF Outing
<1>. QED
  BY <1>1, <1>2, <1>3, <1>4, <1>5, <1>6, EndsKept DEF BusyPoints, Types

\* A recovery closes the handoff whose recovery the receipt names.
LEMMA VerifyRecoveryKept ==
    ASSUME HandlersInv, NEW o \in Ops, VerifyRecovery(o)
    PROVE  HandlersInv'
<1>1. Types /\ Sending /\ Alone /\ Traces /\ Witnessed /\ Remembered
  BY DEF HandlersInv
<1>2. /\ op[o].at = "verify" /\ op[o].capability = "session.recover_controller"
      /\ RecoveryShown(o, snap) /\ handoff' = NoOuting
      /\ Ends(o, "succeeded")
      /\ UNCHANGED <<outside, news, action, reports>>
  BY DEF VerifyRecovery, PostState
<1>3. HoldsHandoff => handoff.op \in shown
  BY <1>1, <1>2 DEF RecoveryShown, Witnessed
<1>. QED
  BY <1>1, <1>2, <1>3, EndsKept DEF BusyPoints, Types, Outing, Promising

\* A controller that is no outing closes nothing.
LEMMA VerifyControllerKept ==
    ASSUME HandlersInv, NEW o \in Ops, VerifyController(o)
    PROVE  HandlersInv'
<1>1. Types
  BY DEF HandlersInv
<1>2. /\ op[o].at = "verify" /\ op[o].capability \in {"controller", "test"}
      /\ Ends(o, "succeeded")
      /\ UNCHANGED <<outside, news, action, reports, handoff>>
  BY DEF VerifyController, PostState
<1>. QED
  BY <1>1, <1>2, EndsKept DEF BusyPoints, Types, Outing, Promising

\* The end of an outing: its return is proven, or it was refused and never left.
LEMMA VerifyOutingKept ==
    ASSUME HandlersInv, NEW o \in Ops, VerifyOuting(o)
    PROVE  HandlersInv'
<1>1. Types /\ Sending /\ Alone /\ Traces /\ Witnessed /\ Remembered
  BY DEF HandlersInv
<1>. DEFINE verdict == IF Succeeded(o) /\ action[o] = "completed" THEN "succeeded" ELSE "ended"
<1>2. /\ op[o].at = "verify" /\ (PreflightRefused(o) \/ ProvenReturn(o))
      /\ handoff' = IF handoff.op = o THEN NoOuting ELSE handoff
      /\ Ends(o, verdict)
      /\ UNCHANGED <<outside, news, action, reports>>
  BY DEF VerifyOuting, PostState, CloseHandoff
<1>3. ProvenReturn(o) => o \in shown
  BY <1>1 DEF ProvenReturn, ReportOf, Witnessed
<1>4. PreflightRefused(o) => o \notin left /\ action[o] # "completed"
  BY <1>1 DEF PreflightRefused, ReportOf, Witnessed
<1>5. op[o].at = "verify" => action[o] # "pending" \/ ~Outing(o)
  BY <1>1 DEF Sending
<1>6. verdict \in {"succeeded", "ended"} /\ (verdict = "succeeded" => o \in shown)
  BY <1>2, <1>3, <1>4
<1>. HIDE DEF verdict
<1>. QED
  BY <1>1, <1>2, <1>3, <1>4, <1>5, <1>6, EndsKept DEF BusyPoints, Types

\* A failure shows nothing and closes nothing.
LEMMA FailKept ==
    ASSUME HandlersInv, NEW o \in Ops, Fail(o)
    PROVE  HandlersInv'
<1>1. Types
  BY DEF HandlersInv
<1>2. /\ op[o].at \in BusyPoints /\ Ends(o, "ended")
      /\ UNCHANGED <<outside, news, reports, handoff>>
  BY DEF Fail, BusyPoints
<1>3. /\ action' \in [Ops -> Statuses]
      /\ \A p \in Ops : action'[p] = action[p] \/ (p = o /\ action'[p] = "revoked")
      /\ Outing(o) /\ action[o] = "pending" => action'[o] # "pending"
  BY <1>1 DEF Fail, Types, Statuses, Outing
<1>. QED
  BY <1>2, <1>3, EndsKept

\* Every step of a handler keeps the invariant.
LEMMA HandlerKept ==
    ASSUME HandlersInv, NEW o \in Ops, Handler(o)
    PROVE  HandlersInv'
BY StartKept, ReadAgainKept, LaunchKept, WaitEndsKept, VerifyEndKept, VerifyRecoveryKept,
   VerifyControllerKept, VerifyOutingKept, FailKept DEF Handler

-----------------------------------------------------------------------------
(* The steps of the bridge, its scripts and the game.                       *)

\* The handlers rest: what the step adds to the evidence has to be true, and
\* an outing that is still out has to be remembered by one side.
LEMMA BridgeFrame ==
    ASSUME HandlersInv, UNCHANGED <<inside, snap>>, Types', shown \subseteq shown',
           \A p \in Ops : action'[p] = action[p] \/ (action[p] # "none" /\ Sent(p)'),
           \A p \in left' \cup game'.done : p \in left \cup game.done \/ Sent(p)',
           game'.owner \in {game.owner, Nobody} \/ action'[game'.owner] \notin {"none", "pending"},
           game'.captured \in {game.captured, 0} \/ op[game'.captured] # Unused,
           Kept(game', native') \subseteq shown',
           \A r \in reports' : \/ r \in reports
                               \/ /\ action'[r.op] \notin {"none", "pending"}
                                  /\ r.returned => r.op \in shown',
           \A r \in reports' : ~r.started => r.op \notin left',
           \A r \in receipts' : r \in receipts \/ r[1] \in shown',
           \A p \in left' : p \in shown' \cup excused \/ native'.op = p \/ handoff.op = p
    PROVE  HandlersInv'
<1>1. Types /\ Sending /\ Alone /\ Traces /\ Witnessed /\ Remembered
  BY DEF HandlersInv
<1>2. op' = op /\ news' = news /\ handoff' = handoff /\ excused' = excused /\ snap' = snap
  BY DEF inside
<1>3. \A p \in Ops : Sent(p) => Sent(p)'
  BY DEF Sent
<1>4. Alone'
  BY <1>1, <1>2 DEF Alone
<1>5. Sending'
  BY <1>1, <1>2 DEF Sending, Outing, Sent
<1>6. Traces'
  <2>1. /\ game.done \subseteq Ops /\ left \subseteq Ops
        /\ game.owner # Nobody => game.owner \in Ops
        /\ game.captured # 0 => game.captured \in Ops
        /\ \A r \in reports : r.op \in Ops
        /\ snap # NoSnapshot => snap.done \subseteq Ops
    BY <1>1, NamedAreOps DEF Types
  <2>2. \A p \in left' \cup game'.done : Sent(p)'
    BY <1>1, <1>3, <2>1 DEF Traces
  <2>3. game'.owner # Nobody => action'[game'.owner] \notin {"none", "pending"}
    BY <1>1, <1>3, <2>1 DEF Traces, Sent
  <2>4. \A r \in reports' : action'[r.op] \notin {"none", "pending"}
    BY <1>1, <1>3, <2>1 DEF Traces, Sent
  <2>5. snap' # NoSnapshot => \A p \in snap'.done : Sent(p)'
    BY <1>1, <1>2, <1>3, <2>1 DEF Traces
  <2>6. /\ game'.captured # 0 => op'[game'.captured] # Unused
        /\ snap' # NoSnapshot /\ snap'.captured # 0 => op'[snap'.captured] # Unused
    BY <1>1, <1>2 DEF Traces
  <2>. QED
    BY <2>2, <2>3, <2>4, <2>5, <2>6 DEF Traces, Sent
<1>7. Witnessed'
  <2>1. Kept(game, native)' \subseteq shown'
    BY <1>2 DEF Kept, AtRefuge
  <2>2. (snap # NoSnapshot => Kept(snap, NoOuting) \subseteq shown)'
    BY <1>1, <1>2 DEF Witnessed, Kept, AtRefuge
  <2>3. SuccessIsWitnessed'
    BY <1>1, <1>2 DEF Witnessed, SuccessIsWitnessed
  <2>. QED
    BY <1>1, <2>1, <2>2, <2>3 DEF Witnessed
<1>8. Remembered'
  BY <1>1, <1>2 DEF Remembered, Outing, Resolving, AtRefuge, OutingHands, HoldsHandoff
<1>. QED
  BY <1>4, <1>5, <1>6, <1>7, <1>8 DEF HandlersInv

\* A script begins: where it leads is not shown yet.
LEMMA BeginScriptKept ==
    ASSUME HandlersInv, NEW o \in Ops, BeginScript(o)
    PROVE  HandlersInv'
<1>1. Types /\ Witnessed /\ Remembered
  BY DEF HandlersInv
<1>2. /\ action[o] = "pending" /\ game.owner = Nobody
      /\ game' = [game EXCEPT !.owner = o]
      /\ action' = [action EXCEPT ![o] = "dispatched"]
      /\ UNCHANGED <<inside, snap, reports, native, receipts, changes, crashes, shown, left>>
  BY DEF BeginScript, Deliverable
<1>3. /\ game' \in Game /\ game'.session = game.session /\ game'.done = game.done /\ game'.owner = o
      /\ game'.captured = game.captured /\ game'.corpses = game.corpses
  <2>1. o \in 0..MaxOperations
    BY HandlerConstants DEF Ops
  <2>. QED
    BY <1>1, <1>2, <2>1 DEF Types, Game
<1>4. action' \in [Ops -> Statuses] /\ action'[o] = "dispatched"
      /\ \A p \in Ops : p # o => action'[p] = action[p]
  BY <1>1, <1>2 DEF Types, Statuses
<1>5. Types'
  BY <1>1, <1>2, <1>3, <1>4 DEF Types, inside
<1>6. Kept(game', native') \subseteq Kept(game, native)
  BY <1>2, <1>3, HandlerConstants DEF Kept, AtRefuge, Ops, Nobody
<1>. QED
  BY <1>1, <1>2, <1>3, <1>4, <1>5, <1>6, BridgeFrame DEF Witnessed, Remembered, Sent

\* An outing leaves: from here on the bridge remembers it, and what it
\* remembered before has come home.
LEMMA BeginOutingKept ==
    ASSUME HandlersInv, NEW o \in Ops, BeginOuting(o)
    PROVE  HandlersInv'
<1>1. Types /\ Sending /\ Traces /\ Witnessed /\ Remembered
  BY DEF HandlersInv
<1>2. /\ action[o] = "pending" /\ MayDepart
      /\ game' = [game EXCEPT !.owner = o]
      /\ native' = [op |-> o, hands |-> game.hands]
      /\ action' = [action EXCEPT ![o] = "dispatched"]
      /\ left' = left \cup {o}
      /\ UNCHANGED <<inside, snap, reports, receipts, changes, crashes, shown>>
  BY DEF BeginOuting, Deliverable
<1>3. /\ game' \in Game /\ game'.session = game.session /\ game'.done = game.done /\ game'.owner = o
      /\ game'.captured = game.captured /\ game'.corpses = game.corpses
  <2>1. o \in 0..MaxOperations
    BY HandlerConstants DEF Ops
  <2>. QED
    BY <1>1, <1>2, <2>1 DEF Types, Game
<1>4. action' \in [Ops -> Statuses] /\ action'[o] = "dispatched"
      /\ \A p \in Ops : p # o => action'[p] = action[p]
  BY <1>1, <1>2 DEF Types, Statuses
<1>5. native' \in Retained /\ native'.op = o
  BY <1>1, <1>2 DEF Types, Game, Retained
<1>6. Types'
  BY <1>1, <1>2, <1>3, <1>4, <1>5 DEF Types, inside
<1>7. Kept(game', native') \subseteq Kept(game, native)
  BY <1>2, <1>3, HandlerConstants DEF Kept, AtRefuge, Ops, Nobody
<1>8. \A p \in left : native.op = p => p \in shown
  <2>1. native # NoOuting /\ native.op \in Ops => native.op \in Kept(game, native)
    BY <1>2 DEF MayDepart, Restored, Kept
  <2>. QED
    BY <1>1, <2>1, NamedAreOps DEF Types, Witnessed, NoOuting
<1>9. \A r \in reports : r.op # o
  BY <1>1, <1>2 DEF Traces, Sent
<1>. QED
  BY <1>1, <1>2, <1>3, <1>4, <1>5, <1>6, <1>7, <1>8, <1>9, BridgeFrame
     DEF Witnessed, Remembered, Sent, inside

\* A refusal is no start, and its report says so.
LEMMA RefuseLaunchKept ==
    ASSUME HandlersInv, NEW o \in Ops, RefuseLaunch(o)
    PROVE  HandlersInv'
<1>1. Types /\ Traces /\ Witnessed /\ Remembered
  BY DEF HandlersInv
<1>2. /\ action[o] = "pending"
      /\ action' = [action EXCEPT ![o] = "failed"]
      /\ UNCHANGED <<inside, game, snap, native, receipts, changes, crashes, shown, left>>
  BY DEF RefuseLaunch, Deliverable
<1>. DEFINE refusal == [op |-> o, ok |-> FALSE, started |-> FALSE, returned |-> FALSE]
<1>3. reports' \subseteq reports \cup {refusal} /\ refusal \in Report
  BY DEF RefuseLaunch, Report
<1>4. action' \in [Ops -> Statuses] /\ action'[o] = "failed"
      /\ \A p \in Ops : p # o => action'[p] = action[p]
  BY <1>1, <1>2 DEF Types, Statuses
<1>5. Types'
  BY <1>1, <1>2, <1>3, <1>4 DEF Types, inside
<1>6. o \notin left
  BY <1>1, <1>2 DEF Traces, Sent
<1>7. \A r \in reports' : r \in reports \/ (r.op = o /\ ~r.returned)
  BY <1>3
<1>8. \A r \in reports' : ~r.started => r.op \notin left'
  BY <1>1, <1>2, <1>6, <1>7 DEF Witnessed
<1>. QED
  BY <1>1, <1>2, <1>4, <1>5, <1>7, <1>8, BridgeFrame DEF Witnessed, Remembered, Sent, inside

\* A command is sent, or answered, by its own action.
LEMMA SendCommandKept ==
    ASSUME HandlersInv, NEW o \in Ops, SendCommand(o)
    PROVE  HandlersInv'
<1>1. Types /\ Sending /\ Witnessed /\ Remembered
  BY DEF HandlersInv
<1>2. /\ action[o] = "pending"
      /\ op[o].capability \in {"session.command", "character.recon"}
      /\ action' = [action EXCEPT ![o] = "dispatched"]
      /\ shown' = shown \cup Kept(game', native)
      /\ UNCHANGED <<inside, snap, reports, native, receipts, changes, crashes, left>>
  BY DEF SendCommand, Deliverable
<1>3. /\ game' \in Game /\ game'.session = game.session /\ game'.done \subseteq game.done \cup {o}
      /\ game'.owner = game.owner /\ game'.captured \in {game.captured, o}
  <2>1. o \in 0..MaxOperations
    BY HandlerConstants DEF Ops
  <2>2. CASE op[o].capability = "session.command"
    <3>1. game' = [game EXCEPT !.done = @ \cup {o}]
      BY <2>2 DEF SendCommand
    <3>. QED
      BY <1>1, <3>1 DEF Types, Game
  <2>3. CASE op[o].capability = "character.recon"
    <3>1. game' = [game EXCEPT !.captured = o]
      BY <2>3 DEF SendCommand
    <3>. QED
      BY <1>1, <2>1, <3>1 DEF Types, Game
  <2>. QED
    BY <1>2, <2>2, <2>3
<1>4. action' \in [Ops -> Statuses] /\ action'[o] = "dispatched"
      /\ \A p \in Ops : p # o => action'[p] = action[p]
  BY <1>1, <1>2 DEF Types, Statuses
<1>5. Kept(game', native) \subseteq Ops
  BY <1>3 DEF Kept, Game
<1>6. Types'
  BY <1>1, <1>2, <1>3, <1>4, <1>5 DEF Types, inside
<1>7. op[o] # Unused
  BY <1>1, <1>2 DEF Sending, Unused
<1>. QED
  BY <1>1, <1>2, <1>3, <1>4, <1>6, <1>7, BridgeFrame DEF Witnessed, Remembered, Sent, inside

\* A recovery gives up an outing that is home, and its receipt says so.
LEMMA RecoverKept ==
    ASSUME HandlersInv, NEW o \in Ops, Recover(o)
    PROVE  HandlersInv'
<1>1. Types /\ Witnessed /\ Remembered
  BY DEF HandlersInv
<1>2. /\ action[o] = "pending" /\ native # NoOuting /\ Restored
      /\ receipts' = receipts \cup {<<native.op, game.session>>}
      /\ native' = NoOuting
      /\ action' = [action EXCEPT ![o] = "dispatched"]
      /\ UNCHANGED <<inside, game, snap, reports, changes, crashes, shown, left>>
  BY DEF Recover, Deliverable
<1>3. action' \in [Ops -> Statuses] /\ action'[o] = "dispatched"
      /\ \A p \in Ops : p # o => action'[p] = action[p]
  BY <1>1, <1>2 DEF Types, Statuses
<1>4. native.op \in Ops /\ game.session \in Sessions
  BY <1>1, <1>2 DEF Types, Retained, Game, Sessions
<1>5. Types'
  BY <1>1, <1>2, <1>3, <1>4 DEF Types, Retained, inside
<1>6. native.op \in shown
  <2>1. native.op \in Kept(game, native)
    BY <1>2, <1>4 DEF Restored, Kept
  <2>. QED
    BY <1>1, <2>1 DEF Witnessed
<1>7. Kept(game', native') \subseteq Kept(game, native)
  BY <1>2, NamedAreOps, <1>1 DEF Kept, NoOuting
<1>. QED
  BY <1>1, <1>2, <1>3, <1>5, <1>6, <1>7, BridgeFrame DEF Witnessed, Remembered, Sent, inside

\* An acknowledgement changes nothing but the status.
LEMMA AcknowledgeKept ==
    ASSUME HandlersInv, NEW o \in Ops, Acknowledge(o)
    PROVE  HandlersInv'
<1>1. Types /\ Witnessed /\ Remembered
  BY DEF HandlersInv
<1>2. PICK outcome \in {"completed", "failed"} : action' = [action EXCEPT ![o] = outcome]
  BY DEF Acknowledge
<1>3. /\ action[o] = "dispatched"
      /\ UNCHANGED <<inside, game, snap, reports, native, receipts, changes, crashes, shown, left>>
  BY DEF Acknowledge
<1>4. action' \in [Ops -> Statuses] /\ action'[o] = outcome
      /\ \A p \in Ops : p # o => action'[p] = action[p]
  BY <1>1, <1>2 DEF Types, Statuses
<1>5. Types'
  BY <1>1, <1>3, <1>4 DEF Types, inside
<1>. QED
  BY <1>1, <1>3, <1>4, <1>5, BridgeFrame DEF Witnessed, Remembered, Sent, inside

\* A running script moves the character or handles its equipment.
LEMMA ScriptActsKept ==
    ASSUME HandlersInv, NEW o \in Ops, ScriptActs(o)
    PROVE  HandlersInv'
<1>1. Types /\ Witnessed /\ Remembered
  BY DEF HandlersInv
<1>2. /\ shown' = shown \cup Kept(game', native)
      /\ UNCHANGED <<inside, snap, action, reports, native, receipts, changes, crashes, left>>
  BY DEF ScriptActs
<1>3. /\ game' \in Game /\ game'.session = game.session /\ game'.done = game.done
      /\ game'.owner = game.owner /\ game'.captured = game.captured
  BY <1>1 DEF ScriptActs, Types, Game
<1>4. Kept(game', native) \subseteq Ops
  BY <1>3 DEF Kept, Game
<1>5. Types'
  BY <1>1, <1>2, <1>3, <1>4 DEF Types, inside
<1>. QED
  BY <1>1, <1>2, <1>3, <1>5, BridgeFrame DEF Witnessed, Remembered, Sent, inside

\* The end of a script: a return that is reported is one that was seen, and
\* only such an outing is no longer retained.
LEMMA ScriptEndsKept ==
    ASSUME HandlersInv, NEW o \in Ops, ScriptEnds(o)
    PROVE  HandlersInv'
<1>1. Types /\ Traces /\ Witnessed /\ Remembered
  BY DEF HandlersInv
<1>. DEFINE home(g) == op[o].capability = "outing" /\ native.op = o
                       /\ AtRefuge(g) /\ g.hands = native.hands
<1>2. /\ game.owner = o
      /\ UNCHANGED <<inside, snap, action, receipts, changes, crashes, left>>
  BY DEF ScriptEnds
<1>3. PICK finished, accepted \in BOOLEAN, corpses \in {FALSE, game.corpses} :
        LET over == [game EXCEPT !.owner = Nobody,
                                 !.done = IF finished /\ ~IsController(o) THEN @ \cup {o} ELSE @,
                                 !.corpses = IF op[o].capability = "room.loot" THEN corpses ELSE @]
            returned == op[o].capability = "outing" /\ native.op = o
                        /\ AtRefuge(over) /\ over.hands = native.hands
            told == accepted /\ op[o].session = game.session IN
        /\ (accepted => IsController(o)) /\ (corpses # game.corpses => op[o].capability = "room.loot")
        /\ game' = over
        /\ shown' = shown \cup Kept(over, native)
        /\ reports' = IF told
                      THEN reports \cup {[op |-> o, ok |-> finished, started |-> TRUE,
                                          returned |-> returned]}
                      ELSE reports
        /\ native' = IF native.op = o /\ returned /\ told THEN NoOuting ELSE native
  BY Zenon DEF ScriptEnds
<1>. DEFINE report == [op |-> o, ok |-> finished, started |-> TRUE, returned |-> home(game')]
<1>4. /\ game' \in Game /\ game'.session = game.session /\ game'.done \subseteq game.done \cup {o}
      /\ game'.owner = Nobody /\ game'.captured = game.captured
  <2>1. corpses \in BOOLEAN
    BY <1>1 DEF Types, Game
  <2>2. Nobody \in 0..MaxOperations
    BY HandlerConstants DEF Nobody
  <2>. QED
    BY <1>1, <1>3, <2>1, <2>2 DEF Types, Game
<1>5. home(game') => o \in Kept(game', native)
  BY DEF Kept
<1>6. report \in Report /\ report.op = o /\ report.started /\ (report.returned => home(game'))
  BY DEF Report
<1>7. /\ shown' = shown \cup Kept(game', native)
      /\ reports' \in {reports, reports \cup {report}}
      /\ native' = native \/ (native' = NoOuting /\ native.op = o /\ home(game'))
  BY <1>3
<1>. HIDE DEF home, report
<1>8. Kept(game', native) \subseteq Ops
  BY <1>4 DEF Kept, Game
<1>9. native' \in {native, NoOuting} /\ (native' # native => native.op = o /\ o \in shown')
  BY <1>5, <1>7
<1>10. /\ reports' \subseteq Report
       /\ \A r \in reports' :
            r \in reports \/ (r.op = o /\ r.started /\ (r.returned => o \in shown'))
  BY <1>1, <1>5, <1>6, <1>7 DEF Types
<1>11. Types'
  BY <1>1, <1>2, <1>4, <1>7, <1>8, <1>9, <1>10 DEF Types, Retained, inside
<1>12. Kept(game', native') \subseteq Kept(game', native)
  BY <1>9, HandlerConstants DEF Kept, NoOuting, Ops
<1>13. Sent(o)
  BY <1>1, <1>2, HandlerConstants DEF Traces, Ops, Nobody
<1>. QED
  BY <1>1, <1>2, <1>4, <1>7, <1>9, <1>10, <1>11, <1>12, <1>13, BridgeFrame
     DEF Witnessed, Remembered, Sent, inside

\* The game goes on by itself.
LEMMA GameGoesOnKept ==
    ASSUME HandlersInv, GameGoesOn
    PROVE  HandlersInv'
<1>1. Types /\ Sending /\ Witnessed /\ Remembered
  BY DEF HandlersInv
<1>2. /\ shown' = shown \cup Kept(game', native)
      /\ UNCHANGED <<inside, snap, action, reports, native, receipts, crashes, left>>
  BY DEF GameGoesOn
<1>3. /\ game' \in Game /\ game'.session = game.session /\ game'.done = game.done
      /\ game'.owner = game.owner
      /\ game'.captured = game.captured \/ (game'.captured \in Ops /\ op[game'.captured].at # "none")
  <2>1. ASSUME NEW o \in Ops, op[o].at \in {"admitted", "launch", "wait", "verify"},
               game' = [game EXCEPT !.captured = o]
        PROVE  game' \in Game /\ game'.captured = o /\ op[o].at # "none"
    <3>1. o \in 0..MaxOperations
      BY HandlerConstants DEF Ops
    <3>. QED
      BY <1>1, <2>1, <3>1 DEF Types, Game
  <2>2. CASE \E o \in Ops : /\ op[o].at \in {"admitted", "launch", "wait", "verify"}
                            /\ game' = [game EXCEPT !.captured = o]
    BY <1>1, <2>1, <2>2 DEF Types, Game
  <2>3. CASE \/ \E r \in {"refuge", "field"} : game' = [game EXCEPT !.room = r]
             \/ \E h \in {"own", "other"} : game' = [game EXCEPT !.hands = h]
             \/ game' = [game EXCEPT !.well = ~@]
             \/ game' = [game EXCEPT !.corpses = ~@]
    BY <1>1, <2>3 DEF Types, Game
  <2>. QED
    BY <2>2, <2>3 DEF GameGoesOn
<1>4. Kept(game', native) \subseteq Ops
  BY <1>3 DEF Kept, Game
<1>5. Types'
  BY <1>1, <1>2, <1>3, <1>4 DEF Types, inside
<1>6. game'.captured \in {game.captured, 0} \/ op[game'.captured] # Unused
  BY <1>3 DEF Unused
<1>. QED
  BY <1>1, <1>2, <1>3, <1>5, <1>6, BridgeFrame DEF Witnessed, Remembered, Sent, inside

\* A snapshot shows what the game is, and may excuse the outing that is open.
LEMMA PublishKept ==
    ASSUME HandlersInv, Publish
    PROVE  HandlersInv'
<1>1. Types /\ Alone /\ Sending /\ Traces /\ Witnessed /\ Remembered
  BY DEF HandlersInv
<1>2. /\ snap' = game /\ excused \subseteq excused' /\ excused' \subseteq excused \cup Ops
      /\ UNCHANGED <<game, op, handoff, action, reports, native, receipts, changes, crashes, shown, left>>
  BY DEF Publish
<1>3. Types'
  BY <1>1, <1>2 DEF Types, Snapshots
<1>4. Alone' /\ Sending'
  BY <1>1, <1>2 DEF Alone, Sending, Outing
<1>5. Traces'
  BY <1>1, <1>2 DEF Traces, Sent
<1>6. Kept(game, NoOuting) \subseteq Kept(game, native)
  BY HandlerConstants DEF Kept, NoOuting, Ops
<1>7. Witnessed'
  BY <1>1, <1>2, <1>6 DEF Witnessed, SuccessIsWitnessed, Kept, AtRefuge
<1>8. HoldsHandoff' /\ Resolving' => handoff'.op \in excused'
  <2>1. HoldsHandoff => handoff.op \in Ops
    BY <1>1 DEF Types, Handoff, HoldsHandoff
  <2>. QED
    BY <1>2, <2>1 DEF Publish, Resolving, HoldsHandoff, AtRefuge, OutingHands
<1>9. Remembered'
  BY <1>1, <1>2, <1>8 DEF Remembered, Outing
<1>. QED
  BY <1>3, <1>4, <1>5, <1>7, <1>9 DEF HandlersInv

\* Another session begins, with no receipts of its own.
LEMMA ReconnectKept ==
    ASSUME HandlersInv, Reconnect
    PROVE  HandlersInv'
<1>1. Types /\ Witnessed /\ Remembered
  BY DEF HandlersInv
<1>2. /\ crashes < MaxCrashes /\ crashes' = crashes + 1
      /\ game' = [game EXCEPT !.session = @ + 1, !.done = {}]
      /\ UNCHANGED <<inside, snap, action, reports, native, receipts, changes, shown, left>>
  BY DEF Reconnect
<1>3. /\ game' \in Game /\ game'.session = game.session + 1 /\ game'.done = {}
      /\ game'.owner = game.owner /\ game'.captured = game.captured
      /\ game'.room = game.room /\ game'.well = game.well /\ game'.hands = game.hands
  <2>1. game.session + 1 \in 1..(MaxCrashes + 1)
    BY <1>1, <1>2, HandlerConstants DEF Types, Game
  <2>. QED
    BY <1>1, <1>2, <2>1 DEF Types, Game
<1>4. Types'
  BY <1>1, <1>2, <1>3, HandlerConstants DEF Types, Game, inside
<1>5. Kept(game', native) \subseteq Kept(game, native)
  BY <1>3 DEF Kept, AtRefuge
<1>. QED
  BY <1>1, <1>2, <1>3, <1>4, <1>5, BridgeFrame DEF Witnessed, Remembered, Sent, inside

\* What Lich forgets, the sidecar remembers, or nobody has to any more.
LEMMA LichRestartsKept ==
    ASSUME HandlersInv, LichRestarts
    PROVE  HandlersInv'
<1>1. Types /\ Alone /\ Sending /\ Traces /\ Witnessed /\ Remembered
  BY DEF HandlersInv
<1>2. /\ crashes < MaxCrashes /\ crashes' = crashes + 1
      /\ game' = [game EXCEPT !.session = @ + 1, !.done = {}, !.owner = Nobody]
      /\ native' = NoOuting
      /\ shown' = shown \cup Kept(game', native)
      /\ excused' = excused \cup (({native.op} \cap Ops) \ {handoff.op})
      /\ UNCHANGED <<op, news, handoff, snap, action, reports, receipts, changes, left>>
  BY DEF LichRestarts
<1>3. /\ game' \in Game /\ game'.session = game.session + 1 /\ game'.done = {}
      /\ game'.owner = Nobody /\ game'.captured = game.captured
  <2>1. game.session + 1 \in 1..(MaxCrashes + 1) /\ Nobody \in 0..MaxOperations
    BY <1>1, <1>2, HandlerConstants DEF Types, Game, Nobody
  <2>. QED
    BY <1>1, <1>2, <2>1 DEF Types, Game
<1>4. Kept(game', native) \subseteq Ops
  BY <1>3 DEF Kept, Game
<1>5. Types'
  BY <1>1, <1>2, <1>3, <1>4, HandlerConstants DEF Types, Game, Retained
<1>6. Alone' /\ Sending'
  BY <1>1, <1>2 DEF Alone, Sending, Outing
<1>7. Traces'
  BY <1>1, <1>2, <1>3 DEF Traces, Sent
<1>8. Kept(game', native') \subseteq Kept(game', native)
  BY <1>2, HandlerConstants DEF Kept, NoOuting, Ops
<1>9. Witnessed'
  <2>1. Kept(game, native)' \subseteq shown'
    BY <1>2, <1>8 DEF Kept, AtRefuge
  <2>2. (snap # NoSnapshot => Kept(snap, NoOuting) \subseteq shown)'
    BY <1>1, <1>2 DEF Witnessed, Kept, AtRefuge
  <2>. QED
    BY <1>1, <1>2, <2>1, <2>2 DEF Witnessed, SuccessIsWitnessed
<1>10. Remembered'
  <2>1. \A p \in left : native.op = p => p \in excused' \/ handoff.op = p
    BY <1>1, <1>2 DEF Types
  <2>. QED
    BY <1>1, <1>2, <2>1 DEF Remembered, Outing, Resolving, AtRefuge, OutingHands, HoldsHandoff
<1>. QED
  BY <1>5, <1>6, <1>7, <1>9, <1>10 DEF HandlersInv

\* What the sidecar forgets, Lich remembers, or nobody has to any more.
LEMMA SidecarRestartsKept ==
    ASSUME HandlersInv, SidecarRestarts
    PROVE  HandlersInv'
<1>1. Types /\ Alone /\ Sending /\ Traces /\ Witnessed /\ Remembered
  BY DEF HandlersInv
<1>2. /\ crashes < MaxCrashes /\ crashes' = crashes + 1
      /\ op' = [o \in Ops |-> IF op[o].at \in {"none", "succeeded"} THEN op[o]
                              ELSE [op[o] EXCEPT !.at = "ended", !.base = NoSnapshot]]
      /\ action' = [o \in Ops |-> IF action[o] \in {"none", "completed"} THEN action[o] ELSE "failed"]
      /\ handoff' = NoOuting
      /\ reports' = {} /\ receipts' = {}
      /\ snap' = NoSnapshot /\ news' = {}
      /\ excused' = excused \cup (({handoff.op} \cap Ops) \ {native.op})
      /\ UNCHANGED <<game, native, changes, shown, left>>
  BY DEF SidecarRestarts
<1>3. \A o \in Ops :
        /\ op'[o] \in {Unused} \cup Operation
        /\ op[o] # Unused => op'[o] # Unused /\ op'[o].capability = op[o].capability
        /\ op'[o].at \in {"none", "succeeded", "ended"}
        /\ op'[o].at \in {"none", "succeeded"} => op'[o] = op[o]
  <2>. SUFFICES ASSUME NEW o \in Ops
                PROVE  /\ op'[o] \in {Unused} \cup Operation
                       /\ op[o] # Unused => op'[o] # Unused /\ op'[o].capability = op[o].capability
                       /\ op'[o].at \in {"none", "succeeded", "ended"}
                       /\ op'[o].at \in {"none", "succeeded"} => op'[o] = op[o]
    OBVIOUS
  <2>1. CASE op[o].at \in {"none", "succeeded"}
    BY <1>1, <1>2, <2>1 DEF Types
  <2>2. CASE op[o].at \notin {"none", "succeeded"}
    <3>1. op[o] \in Operation
      BY <1>1, <2>2, OperationFields
    <3>2. op'[o] = [op[o] EXCEPT !.at = "ended", !.base = NoSnapshot]
      BY <1>2, <2>2
    <3>3. op'[o] \in Operation /\ op'[o].at = "ended" /\ op'[o].capability = op[o].capability
      BY <3>1, <3>2 DEF Operation, Snapshots
    <3>. QED
      BY <3>3 DEF Unused
  <2>. QED
    BY <2>1, <2>2
<1>4. /\ action' \in [Ops -> Statuses]
      /\ \A o \in Ops : /\ action[o] = "none" => action'[o] = "none"
                        /\ action'[o] # "pending"
                        /\ Sent(o) => Sent(o)'
  BY <1>1, <1>2 DEF Types, Statuses, Sent
<1>5. Keeps
  BY <1>3, <1>4 DEF Keeps
<1>6. Types'
  <2>1. op' \in [Ops -> {Unused} \cup Operation]
    BY <1>2, <1>3
  <2>. QED
    <3>1. /\ game' = game /\ crashes' = crashes + 1 /\ crashes < MaxCrashes
          /\ snap' = NoSnapshot /\ reports' = {} /\ receipts' = {} /\ handoff' = NoOuting
          /\ native' = native /\ shown' = shown /\ left' = left /\ excused' \subseteq excused \cup Ops
      BY <1>2
    <3>2. game.session \in Nat
      BY <1>1, HandlerConstants DEF Types, Game
    <3>. QED
      BY <1>1, <1>4, <2>1, <3>1, <3>2, HandlerConstants DEF Types, Snapshots, Handoff
<1>7. Alone'
  BY <1>3 DEF Alone, BusyPoints
<1>8. Sending'
  BY <1>1, <1>3, <1>4 DEF Sending
<1>9. Traces'
  BY <1>1, <1>2, <1>5, NamedAreOps DEF Traces, Keeps, Types
<1>10. Witnessed'
  <2>0. game' = game /\ native' = native
    BY <1>2
  <2>1. Kept(game, native)' = Kept(game, native)
    BY <1>1, <1>5, <2>0, NamedAreOps DEF Kept, AtRefuge, Keeps, Traces, Sending, Sent, Unused
  <2>2. SuccessIsWitnessed'
    BY <1>1, <1>2, <1>3 DEF Witnessed, SuccessIsWitnessed
  <2>. QED
    BY <1>1, <1>2, <2>1, <2>2 DEF Witnessed
<1>11. Remembered'
  <2>1. \A p \in left : handoff.op = p => p \in excused' \/ native.op = p
    BY <1>1, <1>2 DEF Types
  <2>2. \A p \in Ops : ~(op'[p].at \in {"admitted", "launch", "wait"})
    BY <1>3
  <2>. QED
    BY <1>1, <1>2, <2>1, <2>2 DEF Remembered, HoldsHandoff
<1>. QED
  BY <1>6, <1>7, <1>8, <1>9, <1>10, <1>11 DEF HandlersInv

-----------------------------------------------------------------------------
(* Theorems.                                                                *)

\* Nothing is shown, sent or remembered at first.
LEMMA HandlersInitially == Init => HandlersInv
<1>. SUFFICES ASSUME Init PROVE HandlersInv
  OBVIOUS
<1>1. game \in Game /\ game.session = 1 /\ game.done = {} /\ game.owner = 0 /\ game.captured = 0
  BY HandlerConstants DEF Init, Game, Ops, Nobody
<1>2. Types
  BY <1>1, HandlerConstants DEF Init, Types, Snapshots, Statuses, Handoff, Retained
<1>3. \A o \in Ops : op[o] = Unused /\ op[o].at = "none" /\ action[o] = "none"
  BY DEF Init, Unused
<1>4. Alone /\ Sending
  BY <1>3 DEF Alone, Sending, BusyPoints, Outing
<1>5. Traces
  BY <1>1 DEF Init, Traces, Nobody
<1>6. Kept(game, native) = {}
  BY <1>1, HandlerConstants DEF Init, Kept, NoOuting, Ops
<1>7. Witnessed
  BY <1>3, <1>6 DEF Init, Witnessed, SuccessIsWitnessed
<1>8. Remembered
  BY <1>3 DEF Init, Remembered, HoldsHandoff
<1>. QED
  BY <1>2, <1>4, <1>5, <1>7, <1>8 DEF HandlersInv

\* Every step keeps the invariant.
LEMMA HandlersStepKept == HandlersInv /\ [Next]_vars => HandlersInv'
<1>. SUFFICES ASSUME HandlersInv, [Next]_vars PROVE HandlersInv'
  OBVIOUS
<1>1. CASE UNCHANGED vars
  BY <1>1 DEF vars, HandlersInv, Types, Alone, Sending, Outing, Traces, Sent, Witnessed, Kept, AtRefuge,
              SuccessIsWitnessed, Remembered, HoldsHandoff, Resolving, OutingHands
<1>2. ASSUME NEW o \in Ops, NEW k \in AllCapabilities, Request(o, k) PROVE HandlersInv'
  BY <1>2, RequestKept
<1>3. ASSUME NEW o \in Ops, Handler(o) PROVE HandlersInv'
  BY <1>3, HandlerKept
<1>4. ASSUME NEW o \in Ops, Bridge(o) PROVE HandlersInv'
  BY <1>4, BeginScriptKept, BeginOutingKept, RefuseLaunchKept, SendCommandKept, RecoverKept,
     AcknowledgeKept, ScriptActsKept, ScriptEndsKept DEF Bridge
<1>. QED
  BY <1>1, <1>2, <1>3, <1>4, GameGoesOnKept, PublishKept, ReconnectKept, LichRestartsKept,
     SidecarRestartsKept DEF Next

\* The invariant holds throughout, for any plans and any number of restarts.
THEOREM HandlersInvariance == Spec => []HandlersInv
BY HandlersInitially, HandlersStepKept, PTL DEF Spec

\* An operation succeeds only when the game has kept what it promises, by its
\* own action, whatever the handlers were shown, told or not told.
THEOREM SuccessesAreWitnessed == Spec => []SuccessIsWitnessed
<1>1. HandlersInv => SuccessIsWitnessed
  BY DEF HandlersInv, Witnessed
<1>. QED
  BY <1>1, HandlersInvariance, PTL

\* No outing leaves before the earlier ones are home or excused: while its
\* action is pending no other handoff is open, so an outing that is still out
\* is the one the bridge retains, which then lets nobody leave before it is home.
THEOREM OutingsAreHomeFirst == Spec => OutingsComeHomeFirst
<1>1. HandlersInv /\ [Next]_vars =>
          [\A o \in Ops : BeginOuting(o) => left \subseteq shown \cup excused]_vars
  <2>. SUFFICES ASSUME HandlersInv, NEW o \in Ops, BeginOuting(o), NEW p \in left
                PROVE  p \in shown \cup excused
    OBVIOUS
  <2>1. Types /\ Sending /\ Traces /\ Witnessed /\ Remembered
    BY DEF HandlersInv
  <2>2. action[o] = "pending" /\ op[o].capability = "outing" /\ MayDepart
    BY DEF BeginOuting, Deliverable
  <2>3. Outing(o) /\ op[o].at = "wait"
    BY <2>1, <2>2 DEF Sending, Outing, Unused
  <2>4. p \in Ops /\ p # o /\ p # 0
    BY <2>1, <2>2, NamedAreOps DEF Types, Traces, Sent
  <2>5. handoff.op # p
    BY <2>1, <2>3, <2>4 DEF Remembered
  <2>6. native.op = p => p \in Kept(game, native)
    BY <2>2, <2>4 DEF MayDepart, Restored, Kept, NoOuting
  <2>. QED
    BY <2>1, <2>5, <2>6 DEF Remembered, Witnessed
<1>. QED
  BY <1>1, HandlersInvariance, PTL DEF Spec, OutingsComeHomeFirst
=============================================================================
