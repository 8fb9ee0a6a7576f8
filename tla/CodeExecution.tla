---------------------------- MODULE CodeExecution ----------------------------
(***************************************************************************)
(* One lab.execute_code of the MCP adapter: executeCode of executor.ts in  *)
(* the parent, executor-child.cjs in its process with the code of the      *)
(* caller, the two pipes between them, and the bridge of sdk-bridge.ts,    *)
(* which forwards the calls of the code to the session hub.  The code may  *)
(* make its calls in any number at once, catch what they throw, and end    *)
(* without awaiting them; the child may die, the hub may answer late,      *)
(* refuse, or not answer at all, and two timers end the execution.         *)
(*                                                                         *)
(* The i-th call of the code is the i-th step: both pipes keep the order.  *)
(* Admission (size, syntax, two executions per connection) comes before.   *)
(***************************************************************************)
EXTENDS Naturals, Sequences, FiniteSets

CONSTANTS MaxCalls, MaxMutations  \* EXECUTOR_LIMITS.maxCalls, MAX_MUTATION_ATTEMPTS

\* Assumed of the constants.
ExecutionLimits == MaxCalls \in Nat \ {0} /\ MaxMutations \in 1..MaxCalls

Mutations == {"perform", "stop"}
Methods == Mutations \cup {"watch"}   \* the other reads tell less than a watch

VARIABLES
    child,     \* the process: "boot", "idle", "run", "over", "gone"
    calls,     \* the calls of the code: their method, and the step a watch is about
    waiting,   \* those it has no reply to
    up, down,  \* the lines on the way to the parent and to the child
    phase,     \* the parent: "booting", "executing", "settled"
    closed,    \* BridgeState.closed
    failure,   \* BridgeState.mutationFailure is set
    pending,   \* pendingResult
    steps,     \* BridgeState.steps
    hub,       \* what became of a forwarded step at the session hub
    returned   \* the ExecutionResult

vars == <<child, calls, waiting, up, down, phase, closed, failure, pending, steps, hub, returned>>
code == <<child, calls, waiting>>
parent == <<phase, closed, pending, returned>>

NoResult == [success |-> FALSE, steps |-> <<>>]
MutationsOf(record) == {i \in DOMAIN record : record[i].method \in Mutations}
Open == {i \in DOMAIN steps : steps[i].open}   \* inFlightCalls

ExecutionTypeOK ==
    /\ child \in {"boot", "idle", "run", "over", "gone"}
    /\ phase \in {"booting", "executing", "settled"} /\ pending \in {"none", "success", "failure"}
    /\ closed \in BOOLEAN /\ failure \in BOOLEAN
    /\ waiting \subseteq DOMAIN calls /\ Len(steps) <= MaxCalls + 1 /\ DOMAIN hub = DOMAIN steps
    /\ \A i \in DOMAIN steps :
         /\ steps[i].method \in Methods /\ steps[i].dispatch \in {"", "unconfirmed", "acknowledged"}
         /\ hub[i] \in {"unsent", "sent", "refused", "admitted", "failed"}
    /\ phase = "settled" => closed

Init ==
    /\ child = "boot" /\ calls = <<>> /\ waiting = {} /\ up = <<"ready">> /\ down = <<>>
    /\ phase = "booting" /\ closed = FALSE /\ failure = FALSE /\ pending = "none"
    /\ steps = <<>> /\ hub = <<>> /\ returned = NoResult

-----------------------------------------------------------------------------
(* executor-child.cjs and the code; the parent kills it when it is settled *)

\* One more than the limit shows what the limit does.  A watch names the
\* operation of a perform the code has the receipt of.
Call ==
    /\ child = "run" /\ Len(calls) <= MaxCalls /\ phase # "settled"
    /\ \E m \in Methods, about \in DOMAIN calls \cup {0} :
         /\ IF m = "watch" THEN about # 0 /\ calls[about].method = "perform" /\ about \notin waiting
                                /\ steps[about].dispatch = "acknowledged"
                           ELSE about = 0
         /\ calls' = Append(calls, [method |-> m, about |-> about])
    /\ waiting' = waiting \cup {Len(calls')}
    /\ up' = Append(up, "call")
    /\ UNCHANGED <<child, down, parent, failure, steps, hub>>

\* __labUserCode has ended, or thrown, or its result is too large.
CodeEnds ==
    /\ child = "run" /\ child' = "over" /\ phase # "settled"
    /\ \/ up' = Append(up, IF \E i \in waiting : calls[i].method \in Mutations THEN "unawaited" ELSE "result")
       \/ up' = Append(up, "error")
    /\ UNCHANGED <<calls, waiting, down, parent, failure, steps, hub>>

\* A reply after the end finds no pending call.
ChildReads ==
    /\ child \in {"boot", "idle", "run", "over"} /\ down # <<>> /\ down' = Tail(down)
    /\ phase # "settled"
    /\ child' = IF Head(down) = 0 THEN "run" ELSE child
    /\ waiting' = IF child = "run" THEN waiting \ {Head(down)} ELSE waiting
    /\ UNCHANGED <<calls, up, parent, failure, steps, hub>>

\* A crash, the memory limit, or the kill of the parent.
ChildDies ==
    /\ child # "gone" /\ child' = "gone" /\ phase # "settled"
    /\ UNCHANGED <<calls, waiting, up, down, parent, failure, steps, hub>>

-----------------------------------------------------------------------------
(* executor.ts                                                             *)

\* Mutant of Done: a failed mutation the code has caught is forgotten.
DoneAsPromised(success, record, failed) ==
    /\ phase' = "settled" /\ closed' = TRUE
    /\ returned' = [success |-> success, steps |-> record]

\* done; record and failed are the steps and the failure as they are then.
Done(success, record, failed) ==
    /\ phase' = "settled" /\ closed' = TRUE
    /\ returned' = [success |-> success /\ ~failed, steps |-> record]

\* completePendingResult
Complete(result, record, failed) ==
    /\ pending' = result
    /\ IF result # "none" /\ phase # "settled" /\ \A i \in DOMAIN record : ~record[i].open
       THEN Done(result = "success", record, failed)
       ELSE UNCHANGED <<phase, returned>> /\ closed' = (closed \/ pending' # "none")

\* write: nothing is written after the end.
Write(line) == down' = IF phase # "settled" THEN Append(down, line) ELSE down

Ready ==
    /\ Head(up) = "ready" /\ phase' = "executing" /\ down' = Append(down, 0)
    /\ UNCHANGED <<closed, pending, returned, failure, steps, hub>>

NewStep(i, error) ==
    [method |-> calls[i].method, about |-> calls[i].about, open |-> ~error, error |-> error,
     dispatch |-> IF ~error /\ calls[i].method \in Mutations THEN "unconfirmed" ELSE "", status |-> ""]

\* bridge.call up to the request: the budget of mutations, the perform after a
\* failure, the validation of the parameters (valid).
MayForward(i, valid) ==
    /\ valid
    /\ calls[i].method \in Mutations => Cardinality(MutationsOf(steps)) < MaxMutations
    /\ calls[i].method = "perform" => ~failure

Forward(i, valid) ==
    LET sent == MayForward(i, valid) IN
    /\ steps' = Append(steps, NewStep(i, ~sent))
    /\ hub' = Append(hub, IF sent THEN "sent" ELSE "unsent")
    /\ failure' = (failure \/ (~sent /\ calls[i].method \in Mutations))
    /\ IF sent THEN UNCHANGED <<down, parent>>
       ELSE Write(i) /\ Complete(pending, steps', failure')

LabCall ==
    LET i == Len(steps) + 1 IN
    /\ Head(up) = "call" /\ phase = "executing"
    /\ IF i > MaxCalls
       THEN /\ steps' = Append(steps, NewStep(i, TRUE))
            /\ hub' = Append(hub, "unsent")
            /\ Write(i)
            /\ Complete("failure", steps', failure) /\ UNCHANGED failure
       ELSE \E valid \in BOOLEAN : Forward(i, valid)

Unconfirmed == \E i \in DOMAIN steps : steps[i].dispatch = "unconfirmed" /\ ~steps[i].error

Ended ==
    /\ Head(up) \in {"result", "unawaited", "error"}
    /\ Complete(IF Head(up) = "result" /\ ~Unconfirmed THEN "success" ELSE "failure", steps, failure)
    /\ UNCHANGED <<down, failure, steps, hub>>

\* lines.on('line')
ParentReads ==
    /\ up # <<>> /\ up' = Tail(up) /\ phase # "settled"
    /\ IF closed THEN UNCHANGED <<down, parent, failure, steps, hub>>
       ELSE Ready \/ LabCall \/ Ended
    /\ UNCHANGED code

\* child.on('close'), after the last line.
Closed ==
    /\ child = "gone" /\ up = <<>> /\ phase # "settled" /\ pending = "none"
    /\ Complete("failure", steps, failure)
    /\ UNCHANGED <<code, up, down, failure, steps, hub>>

\* bootTimer and executionTimer.
TimesOut ==
    /\ phase # "settled" /\ Done(FALSE, steps, failure)
    /\ UNCHANGED <<code, up, down, failure, pending, steps, hub>>

-----------------------------------------------------------------------------
(* The session hub, and the replies of bridge.call                         *)

\* A request arrives, also when nobody waits for its reply any more, and the
\* operation of a perform may fail later.
HubHandles ==
    \E i \in DOMAIN hub :
      /\ \/ hub[i] = "sent" /\ \E outcome \in {"admitted", "refused"} : hub' = [hub EXCEPT ![i] = outcome]
         \/ hub[i] = "admitted" /\ steps[i].method = "perform" /\ hub' = [hub EXCEPT ![i] = "failed"]
      /\ UNCHANGED <<code, up, down, parent, failure, steps>>

Settle(i, record, failed) ==
    /\ steps' = record /\ failure' = failed
    /\ Write(i)
    /\ Complete(pending, record, failed)
    /\ UNCHANGED <<code, up, hub>>

\* The operation a reply is about, for a perform its own.
Subject(i) == IF steps[i].method = "watch" THEN steps[i].about ELSE i

Reply ==
    \E i \in Open :
      /\ hub[i] \in {"admitted", "failed"}
      /\ LET known == steps[i].method \in {"perform", "watch"}
             status == IF known THEN hub[Subject(i)] ELSE ""
             named == {j \in DOMAIN steps : known /\ j \in {i, Subject(i)}}
         IN Settle(i, [j \in DOMAIN steps |->
                         [steps[j] EXCEPT !.open = @ /\ j # i,
                                          !.status = IF j \in named THEN status ELSE @,
                                          !.dispatch = IF j = i /\ @ # "" THEN "acknowledged" ELSE @]],
                   failure \/ status = "failed")

\* Refused, lost on either way, timed out, or without a usable receipt.
ReplyFails ==
    \E i \in Open :
      Settle(i, [steps EXCEPT ![i].open = FALSE, ![i].error = TRUE],
             failure \/ steps[i].method \in Mutations)

Next ==
    \/ Call \/ CodeEnds \/ ChildReads \/ ChildDies
    \/ ParentReads \/ Closed \/ TimesOut
    \/ HubHandles \/ Reply \/ ReplyFails

Spec == Init /\ [][Next]_vars

-----------------------------------------------------------------------------
(* Properties.                                                             *)

\* The report of an execution accounts for every mutation: each one that went
\* to the hub, and may be carried out even after the report, has its receipt
\* or is said to be unconfirmed, and "success" means that every one was
\* acknowledged and none is known to have failed, whatever the code caught or
\* did not await, whichever timer fired and whenever the child died.
ReportIsComplete ==
    phase = "settled" =>
        /\ \A i \in MutationsOf(steps) : hub[i] # "unsent" =>
             i \in DOMAIN returned.steps /\ returned.steps[i].dispatch # ""
        /\ returned.success => \A i \in MutationsOf(steps) :
             /\ returned.steps[i].dispatch = "acknowledged" /\ returned.steps[i].status # "failed"
             /\ ~returned.steps[i].error
=============================================================================
