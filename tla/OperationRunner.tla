---------------------------- MODULE OperationRunner ----------------------------
(***************************************************************************)
(* CapabilityRunner of src/src/lich_agent_bridge/operations.py above the   *)
(* broker: a worker thread per operation proposes one action, waits for it *)
(* and ends the operation; clients stop operations and send controls to    *)
(* running controllers meanwhile; the bridge and the player act on the     *)
(* broker between any two steps.  What holds _lock is one step.            *)
(*                                                                         *)
(* Kinds of operation: "recon" (character.recon), "travel" (travel.go2),   *)
(* "test" (a test suite's controller), "controlled" and "refuge" (the      *)
(* controllers with control scripts, without and with a refuge), "plain"   *)
(* (every other capability, of which the broker step is modelled).         *)
(*                                                                         *)
(* Abstracted: what a snapshot or a report must show is a choice between   *)
(* verified and not.  An item audit repeats the broker step of "plain".    *)
(***************************************************************************)
EXTENDS ActionBroker

CONSTANTS
    OperationKinds,  \* the capabilities clients ask for
    MaxOperations,   \* bound: operations created in a behaviour
    HistoryLimit,    \* _history_limit
    MaxControls      \* the bound on pending controls, 32 in the code

\* The kind of the command a capability proposes.
CommandKind(k) ==
    CASE k = "recon" -> "inspection" [] k = "plain" -> "supervised" [] OTHER -> k

ASSUME RunnerConstants ==
    /\ OperationKinds \subseteq {"recon", "travel", "test", "controlled", "refuge", "plain"}
    /\ \A k \in OperationKinds : CommandKind(k) \in Kinds
    /\ OperationKinds \cap {"controlled", "refuge"} # {} => "control" \in Kinds
    /\ MaxOperations \in Nat /\ HistoryLimit \in Nat \ {0} /\ MaxControls \in Nat

VARIABLES
    op,       \* the operations and where their workers stand
    stopper,  \* where the client thread in interrupt stands
    known,    \* _operations: the ids not yet evicted
    handoff   \* _refuge_pending: per character the operation, 0 for none

brokerVars == vars
runnerVars == <<brokerVars, op, stopper, known, handoff>>

Ops == 1..MaxOperations
Terminal == {"succeeded", "failed", "timed_out", "interrupted"}
WorkerPoints == {"idle", "start", "admit", "check", "begin", "submit", "associate",
                 "recheck", "look", "read", "finally", "drain", "verify", "finish", "stop test",
                 "end", "revoke", "done"}

Operation ==
    [status: {"requested", "admitted", "running"} \cup Terminal, kind: OperationKinds,
     char: Characters, gen: Generations \cup {NoGeneration}, deadline: Time,
     pc: WorkerPoints, action: Nat, owned: BOOLEAN, interrupted: BOOLEAN,
     graceful: BOOLEAN, controls: SUBSET Ids, abort: {"", "failed", "timed_out", "interrupted"}]

NoOperation == [status |-> "none", pc |-> "idle"]

RunnerTypeOK ==
    /\ TypeOK
    /\ \A o \in Ops : op[o] = NoOperation \/ op[o] \in Operation
    /\ stopper \in [Ops -> {"idle", "marked", "calling", "returned"}]
    /\ known \subseteq Ops /\ Cardinality(known) <= HistoryLimit
    /\ handoff \in [Characters -> {0} \cup Ops]

Created == {o \in Ops : op[o].status # "none"}
Ended(o) == op[o].status \in Terminal
HasControls(o) == op[o].kind \in {"controlled", "refuge"}   \* _controller_actions
IsController(o) == HasControls(o) \/ op[o].kind = "test"
OwnAction(o) == actions[op[o].action]

-----------------------------------------------------------------------------
(* Creating an operation.                                                  *)

\* _create_operation: one unfinished operation per character; a full history
\* gives up its oldest finished operation.
Create(o, c, k, d) ==
    /\ op[o].status = "none"
    /\ \A p \in Ops : p < o => op[p].status # "none"
    /\ d > now
    /\ \A p \in known : op[p].char = c => Ended(p)
    /\ IF Cardinality(known) < HistoryLimit
       THEN known' = known \cup {o}
       ELSE \E p \in known :
              /\ Ended(p)
              /\ \A p2 \in known : Ended(p2) => p <= p2
              /\ known' = (known \ {p}) \cup {o}
    /\ op' = [op EXCEPT ![o] =
                [status |-> "requested", kind |-> k, char |-> c, gen |-> NoGeneration,
                 deadline |-> d, pc |-> "start", action |-> 0, owned |-> FALSE,
                 interrupted |-> FALSE, graceful |-> FALSE, controls |-> {}, abort |-> ""]]
    /\ UNCHANGED <<brokerVars, stopper, handoff>>

-----------------------------------------------------------------------------
(* The worker: _execute_operation and the handlers.                        *)

Goto(o, point) == op' = [op EXCEPT ![o].pc = point]

Late(o) == now >= op[o].deadline

\* _check_deadline_and_interruption raises with the first that applies.
Stopping(o) == Late(o) \/ op[o].interrupted
StopStatus(o) == IF Late(o) THEN "timed_out" ELSE "interrupted"

\* An abort is raised.  In the broker step, recon and travel run a finally
\* first, a test and an outing look for the report of what was launched.
Raise(o, status) ==
    op' = [op EXCEPT ![o].abort = status, ![o].pc = "stop test"]
RaiseInStep(o, status) ==
    op' = [op EXCEPT ![o].abort = status,
                     ![o].pc = CASE op[o].kind \in {"recon", "travel"} -> "finally"
                                 [] op[o].kind \in {"test", "refuge"} -> "drain"
                                 [] OTHER -> "stop test"]

\* _resolve_prior_refuge: the handoff of an earlier outing is verified.
Resolves(c) == handoff' = [handoff EXCEPT ![c] = 0]

\* The handler reads a fresh snapshot and judges it.  A controller first
\* resolves what an earlier outing left open; a travel must do so when the
\* session changed, and may otherwise go to that outing's refuge only.
Start(o) ==
    /\ op[o].pc = "start"
    /\ LET c == op[o].char IN
       \/ Raise(o, "failed") /\ UNCHANGED handoff
       \/ /\ activeGen[c] # NoGeneration
          /\ op' = [op EXCEPT ![o].gen = activeGen[c], ![o].pc = "admit"]
          /\ IF handoff[c] # 0 /\ (IsController(o) \/ op[o].kind = "travel")
             THEN \/ Resolves(c)
                  \/ /\ op[o].kind = "travel"
                     /\ op[handoff[c]].gen = activeGen[c]
                     /\ UNCHANGED handoff
             ELSE UNCHANGED handoff
    /\ UNCHANGED <<brokerVars, stopper, known>>

\* _admit_and_start
Admit(o) ==
    /\ op[o].pc = "admit"
    /\ op' = [op EXCEPT ![o].status = "admitted", ![o].pc = "check"]
    /\ UNCHANGED <<brokerVars, stopper, known, handoff>>

Run(o) ==
    /\ op[o].pc = "check"
    /\ IF Stopping(o) THEN Raise(o, StopStatus(o))
       ELSE op' = [op EXCEPT ![o].status = "running", ![o].pc = "begin"]
    /\ UNCHANGED <<brokerVars, stopper, known, handoff>>

\* A second look at the session, then _run_broker_step up to submit.
BeginStep(o) ==
    /\ op[o].pc = "begin"
    /\ \/ IF Stopping(o) THEN Raise(o, StopStatus(o)) ELSE Goto(o, "submit")
       \/ Raise(o, "failed")
    /\ UNCHANGED <<brokerVars, stopper, known, handoff>>

\* ttl is the rest of the operation, rounded up to seconds unless the
\* proposal carries the operation's deadline (recon rounds down).
Lifetimes(o) ==
    {op[o].deadline - now} \cup
    (IF op[o].kind \in {"plain", "controlled", "refuge"} THEN {op[o].deadline - now + 1} ELSE {})

SubmitStep(o) ==
    /\ op[o].pc = "submit"
    /\ ~Late(o)
    /\ op[o].gen = activeGen[op[o].char]
    /\ \E r \in Rooms, confirm \in BOOLEAN, life \in Lifetimes(o) :
         Submit(op[o].char, CommandKind(op[o].kind), confirm, r, life,
                IF HasControls(o) THEN op[o].deadline ELSE 0)
    /\ op' = [op EXCEPT ![o].action = issued + 1, ![o].pc = "associate"]
    /\ UNCHANGED <<stopper, known, handoff>>

SubmitRefused(o) ==
    /\ op[o].pc = "submit"
    /\ Raise(o, IF Late(o) THEN "timed_out" ELSE "failed")
    /\ UNCHANGED <<brokerVars, stopper, known, handoff>>

\* Mutant of Associate: a stop that came before the association is missed.
AssociateOnly(o) ==
    /\ op[o].pc = "associate"
    /\ op' = [op EXCEPT ![o].owned = op[o].kind # "plain",
                        ![o].pc = IF op[o].kind \in {"recon", "travel", "test"}
                                  THEN "recheck" ELSE "read"]
    /\ handoff' = [handoff EXCEPT ![op[o].char] = IF op[o].kind = "refuge" THEN o ELSE @]
    /\ UNCHANGED <<brokerVars, stopper, known>>

\* The action's id becomes known to interrupt.  For a controller, in the same
\* lock, a stop that came before takes effect, and an outing is recorded.
Associate(o) ==
    /\ op[o].pc = "associate"
    /\ op' = [op EXCEPT ![o].owned = op[o].kind # "plain",
                        ![o].pc = IF op[o].kind \in {"recon", "travel", "test"}
                                  THEN "recheck" ELSE "read"]
    /\ handoff' = [handoff EXCEPT ![op[o].char] = IF op[o].kind = "refuge" THEN o ELSE @]
    /\ IF HasControls(o) /\ Stopping(o) THEN RevokeOwned(op[o].action)
                                        ELSE UNCHANGED brokerVars
    /\ UNCHANGED <<stopper, known>>

\* A stop that came while submit was returning.
Recheck(o) ==
    /\ op[o].pc = "recheck"
    /\ IF ~Stopping(o)
       THEN Goto(o, IF op[o].kind = "recon" THEN "look" ELSE "read") /\ UNCHANGED brokerVars
       ELSE IF op[o].kind = "test"
       THEN /\ RequestTestStop(op[o].action)
            /\ IF actions'[op[o].action].status = "cancelled"
               THEN RaiseInStep(o, StopStatus(o)) ELSE Goto(o, "read")
       ELSE RaiseInStep(o, StopStatus(o)) /\ UNCHANGED brokerVars
    /\ UNCHANGED <<stopper, known, handoff>>

\* The wait for the action.  Recon looks for a stop before it reads.
Look(o) ==
    /\ op[o].pc = "look"
    /\ IF Stopping(o) THEN RaiseInStep(o, StopStatus(o)) ELSE Goto(o, "read")
    /\ UNCHANGED <<brokerVars, stopper, known, handoff>>

\* Mutant of Read: the wait ends with the action only.
ReadPatiently(o) ==
    /\ op[o].pc = "read"
    /\ Observe
    /\ IF IsPending(ExpiredActions[op[o].action])
          \/ ExpiredActions[op[o].action].status = "dispatched"
       THEN Goto(o, IF op[o].kind = "recon" THEN "look" ELSE "read")
       ELSE Goto(o, IF op[o].kind \in {"recon", "travel"} THEN "finally" ELSE "verify")
    /\ UNCHANGED <<stopper, known, handoff>>

\* A test is not left because of an interrupt: its report is waited for.
Read(o) ==
    /\ op[o].pc = "read"
    /\ Observe
    /\ LET status == ExpiredActions[op[o].action].status
           test == op[o].kind = "test" IN
       IF status = "completed"
       THEN Goto(o, IF op[o].kind \in {"recon", "travel"} THEN "finally" ELSE "verify")
       ELSE IF status \in RevokedStatuses \cup {"failed"}
       THEN RaiseInStep(o, IF test /\ Stopping(o) THEN StopStatus(o) ELSE "failed")
       ELSE IF Late(o) \/ (op[o].interrupted /\ ~test) THEN RaiseInStep(o, StopStatus(o))
       ELSE Goto(o, IF op[o].kind = "recon" THEN "look" ELSE "read")
    /\ UNCHANGED <<stopper, known, handoff>>

\* Mutant of Finally: only the association is removed.
FinallyForgets(o) ==
    /\ op[o].pc = "finally"
    /\ op' = [op EXCEPT ![o].owned = FALSE,
                        ![o].pc = IF op[o].abort = "" THEN "verify" ELSE "stop test"]
    /\ UNCHANGED <<brokerVars, stopper, known, handoff>>

\* finally of recon and travel: withdraw or stop the action, whatever happened.
Finally(o) ==
    /\ op[o].pc = "finally"
    /\ Cancel(op[o].action)
    /\ op' = [op EXCEPT ![o].owned = FALSE,
                        ![o].pc = IF op[o].abort = "" THEN "verify" ELSE "stop test"]
    /\ UNCHANGED <<stopper, known, handoff>>

\* After an abort in the step: a report that is already there may show that
\* the outing is safely over; a stop of a test may be noticed.
Drain(o) ==
    /\ op[o].pc = "drain"
    /\ \/ Goto(o, "stop test") /\ UNCHANGED handoff
       \/ /\ IsLaunched(OwnAction(o)) /\ op[o].kind = "test"
          /\ Raise(o, IF Stopping(o) THEN StopStatus(o) ELSE "failed")
          /\ UNCHANGED handoff
       \/ /\ IsLaunched(OwnAction(o)) /\ op[o].kind = "refuge"
          /\ op[o].gen = activeGen[op[o].char]
          /\ Resolves(op[o].char)
          /\ \/ Raise(o, "failed")
             \/ Raise(o, IF op[o].graceful THEN "interrupted" ELSE op[o].abort)
    /\ UNCHANGED <<brokerVars, stopper, known>>

\* The end state or the controller's report shows what it should: an outing
\* is over, and a travel has brought the character back to its refuge.
Verified(o) ==
    /\ op[o].pc = "verify"
    /\ op[o].gen = activeGen[op[o].char]
    /\ LET c == op[o].char IN
       handoff' = [handoff EXCEPT ![c] =
                     IF @ = o \/ op[o].kind = "travel" THEN 0 ELSE @]
    /\ IF op[o].graceful THEN Raise(o, "interrupted")
       ELSE Goto(o, "finish") \/ Raise(o, "failed")
    /\ UNCHANGED <<brokerVars, stopper, known>>

\* It does not, or a stop is noticed while evidence is waited for.
NotVerified(o) ==
    /\ op[o].pc = "verify"
    /\ \/ Raise(o, "failed")
       \/ op[o].kind \in {"recon", "test", "plain"} /\ Stopping(o) /\ Raise(o, StopStatus(o))
       \/ op[o].kind = "controlled" /\ Late(o) /\ Raise(o, "timed_out")
    /\ UNCHANGED <<brokerVars, stopper, known, handoff>>

-----------------------------------------------------------------------------
(* The end of an operation.                                                *)

\* The final stop or success race, in one lock; recon and plain have none.
StoppedAtEnd(o) ==
    \/ op[o].kind \notin {"recon", "plain"} /\ Stopping(o)
    \/ op[o].kind = "test" /\ OwnAction(o).stop

RevokedControl(a) == [Withdraw(Expire(a)) EXCEPT !.stop = TRUE]

\* _cancel_controller_controls, which the end and interrupt call: the pending
\* controls are revoked, and with revokeRun the launch as well.
CancelControls(o, revokeRun) ==
    LET hit == op[o].controls \cup (IF revokeRun THEN {op[o].action} ELSE {}) IN
    IF HasControls(o) /\ op[o].owned /\ hit # {}
    THEN /\ actions' = [i \in Ids |-> IF i \in hit THEN RevokedControl(actions[i])
                                      ELSE ExpiredActions[i]]
         /\ UNCHANGED <<enabled, activeGen, retired, issued, now>>
    ELSE UNCHANGED brokerVars

\* Mutant of Finish: success is published without the final look.
FinishUnchecked(o) ==
    /\ op[o].pc = "finish"
    /\ CancelControls(o, FALSE)
    /\ op' = [op EXCEPT ![o].status = "succeeded", ![o].pc = "done",
                        ![o].owned = FALSE, ![o].controls = {}]
    /\ UNCHANGED <<stopper, known, handoff>>

Finish(o) ==
    /\ op[o].pc = "finish"
    /\ IF StoppedAtEnd(o)
       THEN /\ Raise(o, IF Stopping(o) THEN StopStatus(o) ELSE "interrupted")
            /\ UNCHANGED brokerVars
       ELSE IF op[o].graceful
       THEN Raise(o, "interrupted") /\ UNCHANGED brokerVars
       ELSE /\ CancelControls(o, FALSE)
            /\ op' = [op EXCEPT ![o].status = "succeeded", ![o].pc = "done",
                                ![o].owned = FALSE, ![o].controls = {}]
    /\ UNCHANGED <<stopper, known, handoff>>

\* _stop_test_action after every abort
StopTest(o) ==
    /\ op[o].pc = "stop test"
    /\ IF op[o].kind = "test" /\ op[o].owned
       THEN RequestTestStop(op[o].action) ELSE UNCHANGED brokerVars
    /\ Goto(o, "end")
    /\ UNCHANGED <<stopper, known, handoff>>

\* _finish of an abort: the status first, the revocation in a second lock.
End(o) ==
    /\ op[o].pc = "end"
    /\ op' = [op EXCEPT ![o].status = op[o].abort, ![o].pc = "revoke"]
    /\ UNCHANGED <<brokerVars, stopper, known, handoff>>

RevokeAtEnd(o) ==
    /\ op[o].pc = "revoke"
    /\ CancelControls(o, TRUE)
    /\ op' = [op EXCEPT ![o].pc = "done", ![o].owned = FALSE, ![o].controls = {}]
    /\ UNCHANGED <<stopper, known, handoff>>

-----------------------------------------------------------------------------
(* Clients.                                                                *)

\* A launched outing is asked to come home instead of being stopped.
ComesHome(o) ==
    /\ op[o].kind = "refuge" /\ op[o].owned
    /\ MayReturn(op[o].action)

\* interrupt of an operation that is over, or that never was
InterruptNothing(o) ==
    /\ stopper[o] = "idle"
    /\ o \notin known \/ Ended(o)
    /\ stopper' = [stopper EXCEPT ![o] = "returned"]
    /\ UNCHANGED <<brokerVars, op, known, handoff>>

InterruptGracefully(o) ==
    /\ stopper[o] \in {"idle", "returned"}
    /\ o \in known /\ ~Ended(o)
    /\ ComesHome(o)
    /\ actions' = [i \in Ids |->
                     IF i \in op[o].controls THEN RevokedControl(actions[i])
                     ELSE IF i = op[o].action THEN [actions[i] EXCEPT !.return = TRUE]
                     ELSE ExpiredActions[i]]
    /\ op' = [op EXCEPT ![o].graceful = TRUE, ![o].controls = {}]
    /\ stopper' = [stopper EXCEPT ![o] = "returned"]
    /\ UNCHANGED <<enabled, activeGen, retired, issued, now, known, handoff>>

\* The part of interrupt that holds the lock...
InterruptMarks(o) ==
    /\ stopper[o] \in {"idle", "returned"}
    /\ o \in known /\ ~Ended(o)
    /\ ~ComesHome(o)
    /\ op' = [op EXCEPT ![o].interrupted = TRUE]
    /\ stopper' = [stopper EXCEPT ![o] = "marked"]
    /\ UNCHANGED <<brokerVars, known, handoff>>

\* ... then the owner is looked up, and its action withdrawn or stopped.
InterruptLooks(o) ==
    /\ stopper[o] = "marked"
    /\ IF HasControls(o)
       THEN /\ CancelControls(o, TRUE)
            /\ op' = [op EXCEPT ![o].controls = IF op[o].owned THEN {} ELSE @]
            /\ stopper' = [stopper EXCEPT ![o] = "returned"]
       ELSE /\ stopper' = [stopper EXCEPT ![o] = IF op[o].owned THEN "calling" ELSE "returned"]
            /\ UNCHANGED <<brokerVars, op>>
    /\ UNCHANGED <<known, handoff>>

InterruptCalls(o) ==
    /\ stopper[o] = "calling"
    /\ IF op[o].kind = "test" THEN RequestTestStop(op[o].action) ELSE Cancel(op[o].action)
    /\ stopper' = [stopper EXCEPT ![o] = "returned"]
    /\ UNCHANGED <<op, known, handoff>>

\* control_controller: a control of the exact run, of at most 5 seconds.
\* "status" only reads and may be asked for on the way home.
Control(o, status) ==
    LET c == op[o].char
        waiting == {i \in op[o].controls : now < actions[i].expiresAt} IN
    /\ o \in known /\ HasControls(o) /\ op[o].owned
    /\ ~Ended(o) /\ ~Stopping(o)
    /\ op[o].graceful => status
    /\ Expire(OwnAction(o)).status \in {"dispatched", "completed"}
    /\ op[o].gen = activeGen[c]
    /\ Cardinality(waiting) < MaxControls
    /\ \E r \in Rooms, life \in 1..(op[o].deadline - now) : Submit(c, "control", FALSE, r, life, 0)
    /\ op' = [op EXCEPT ![o].controls = waiting \cup {issued + 1}]
    /\ UNCHANGED <<stopper, known, handoff>>

-----------------------------------------------------------------------------
(* The bridge and the player act on the broker.  For an operation a result *)
(* of "sent_unverified" is as good as "succeeded".                         *)

Outside ==
    /\ \/ \E c \in Characters, g \in Generations :
            \/ AdmitGeneration(c, g) \/ Enable(c, g) \/ Disable(c, g)
            \/ \E r \in Rooms : \/ PollFindsNothing(c, g, r)
                                \/ \E i \in Issued : PollDelivers(c, g, r, i)
       \/ \E i \in Issued, g \in Generations :
            \/ \E r \in Rooms : Approve(i, g, r)
            \/ \E outcome \in {"succeeded", "failed"} : RecordResult(i, g, outcome)
    /\ UNCHANGED <<op, stopper, known, handoff>>

Clock == Tick /\ UNCHANGED <<op, stopper, known, handoff>>

Worker(o) ==
    \/ Start(o) \/ Admit(o) \/ Run(o) \/ BeginStep(o) \/ SubmitStep(o) \/ SubmitRefused(o)
    \/ Associate(o) \/ Recheck(o) \/ Look(o) \/ Read(o) \/ Finally(o) \/ Drain(o)
    \/ Verified(o) \/ NotVerified(o) \/ Finish(o) \/ StopTest(o) \/ End(o) \/ RevokeAtEnd(o)

Client(o) ==
    \/ InterruptNothing(o) \/ InterruptGracefully(o) \/ InterruptMarks(o)
    \/ InterruptLooks(o) \/ InterruptCalls(o)
    \/ \E status \in BOOLEAN : Control(o, status)

RunnerInit ==
    /\ Init
    /\ op = [o \in Ops |-> NoOperation]
    /\ stopper = [o \in Ops |-> "idle"]
    /\ known = {}
    /\ handoff = [c \in Characters |-> 0]

RunnerNext ==
    \/ \E o \in Ops, c \in Characters, k \in OperationKinds, d \in Time : Create(o, c, k, d)
    \/ \E o \in Created : Worker(o) \/ Client(o)
    \/ Outside
    \/ Clock

RunnerSpec == RunnerInit /\ [][RunnerNext]_runnerVars

\* The clock runs and worker threads are scheduled; nobody has to answer.
FairRunnerSpec ==
    /\ RunnerSpec
    /\ WF_runnerVars(Clock)
    /\ \A o \in Ops : WF_runnerVars(o \in Created /\ Worker(o))

-----------------------------------------------------------------------------
(* Properties.                                                             *)

\* An operation that ended has withdrawn what it owned: its action cannot be
\* delivered any more, what was launched and did not succeed carries a stop,
\* and a control that can still be delivered is of an operation that goes on.
EndOwnsNothing ==
    /\ \A o \in Created : op[o].pc = "done" /\ op[o].kind # "plain" /\ op[o].action # 0 =>
         /\ ~IsPending(OwnAction(o))
         /\ IsController(o) /\ op[o].status # "succeeded" /\ IsLaunched(OwnAction(o)) =>
                OwnAction(o).stop
         /\ op[o].kind = "travel" /\ OwnAction(o).status = "dispatched" => OwnAction(o).stop
    /\ \A i \in Issued : actions[i].kind = "control" /\ IsPending(Expire(actions[i])) =>
         \E o \in Created : op[o].pc # "done" /\ i \in op[o].controls

\* A controller's stop or a travel's that was admitted before the end is
\* never answered with a success, however late it came.
StoppedNeverSucceeds ==
    \A o \in Created : op[o].status = "succeeded" /\ op[o].kind \notin {"recon", "plain"} =>
        ~op[o].interrupted /\ ~op[o].graceful

\* When interrupt has returned, nothing of the operation can be delivered,
\* except while the worker is between submit and its look back.
StopReachesAction ==
    \A o \in Created :
        /\ op[o].interrupted /\ stopper[o] = "returned" /\ op[o].kind # "plain"
        /\ op[o].action # 0 /\ op[o].pc \notin {"associate", "recheck", "finally"}
        => ~IsPending(OwnAction(o))

\* Every operation ends, whoever stays silent.
OperationsEnd == \A o \in Ops : (op[o].status # "none") ~> (op[o].pc = "done")

\* wiki/project/Safety.md: an operation's stop revokes its exact owned
\* pending work.
StopRevokesOwnedWork ==
    \A o \in Created : op[o].status = "interrupted" /\ op[o].pc = "done" /\ op[o].action # 0 =>
        ~IsPending(OwnAction(o))
=============================================================================
