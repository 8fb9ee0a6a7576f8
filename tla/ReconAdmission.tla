---------------------------- MODULE ReconAdmission ----------------------------
(***************************************************************************)
(* The race between the cancellation of a question and the operation its   *)
(* worker is just starting: QuestionControl (question.py) and              *)
(* EvidenceSession._recon (evidence_tools.py), both of                     *)
(* src/src/lich_agent_bridge, with their two locks.  The caller's timeout, *)
(* a forget and the worker's own deadline may all cancel.                  *)
(*                                                                         *)
(* The operation is the recon that capabilities.start admits: it may run   *)
(* while it is "pending", interrupt() marks it.  How its worker follows    *)
(* the mark, and the gap that is left there, is OperationRunner's.         *)
(***************************************************************************)
EXTENDS Naturals

CONSTANTS
    Cancellers,  \* threads that may call cancel: the caller, forget
    Worker,      \* the thread of the question
    Nobody

ASSUME Threads == Worker \notin Cancellers /\ Nobody \notin Cancellers \cup {Worker}

VARIABLES
    pc,          \* where each thread stands
    cancelLock,  \* _cancel_lock
    admission,   \* the lock of _recon
    cancelled,   \* cancelled.is_set()
    callback,    \* revoke is registered in _cancel_callbacks
    owned,       \* owned["id"] is set
    revoked,     \* owned["revoked"]
    operation,   \* the recon operation
    late         \* the question's deadline has passed

locks == <<cancelLock, admission>>
vars == <<pc, locks, cancelled, callback, owned, revoked, operation, late>>

All == Cancellers \cup {Worker}
\* cancel() is called at "cancel" and has returned at "returned"; the worker
\* runs from "check" to "end" and cancels at "cancel" like everybody else.
ControlPoints == {"idle", "cancel", "revoke", "revoking", "release", "returned",
        "check", "register", "late register", "admit", "start", "admitted", "watch",
        "cleanup", "cleaning", "unregister", "end"}

ReconTypeOK ==
    /\ pc \in [All -> ControlPoints]
    /\ cancelLock \in All \cup {Nobody} /\ admission \in All \cup {Nobody}
    /\ cancelled \in BOOLEAN /\ callback \in BOOLEAN
    /\ owned \in BOOLEAN /\ revoked \in BOOLEAN /\ late \in BOOLEAN
    /\ operation \in {"none", "pending", "ended", "interrupted"}
    /\ revoked => owned
    /\ owned <=> operation # "none"

Goto(t, next) == pc' = [pc EXCEPT ![t] = next]

\* interrupt(): nothing happens to an operation that already ended.
Interrupted == IF operation = "pending" THEN "interrupted" ELSE operation

\* The body of revoke, under the admission lock.
RevokeOwned ==
    /\ operation' = IF owned /\ ~revoked THEN Interrupted ELSE operation
    /\ revoked' = owned

-----------------------------------------------------------------------------
(* cancel(reason)                                                          *)

CallCancel(t) ==
    /\ pc[t] = "idle"
    /\ Goto(t, "cancel")
    /\ UNCHANGED <<locks, cancelled, callback, owned, revoked, operation, late>>

\* A second caller waits for the lock, so for the cleanup of the first.
EnterCancel(t) ==
    /\ pc[t] = "cancel"
    /\ cancelLock = Nobody
    /\ cancelLock' = t
    /\ Goto(t, IF callback THEN "revoke" ELSE "release")
    /\ cancelled' = TRUE
    /\ callback' = FALSE
    /\ UNCHANGED <<admission, owned, revoked, operation, late>>

\* The callback waits until admission has published what it started.
EnterRevoke(t) ==
    /\ pc[t] = "revoke"
    /\ admission = Nobody
    /\ admission' = t
    /\ Goto(t, "revoking")
    /\ UNCHANGED <<cancelLock, cancelled, callback, owned, revoked, operation, late>>

LeaveRevoke(t) ==
    /\ pc[t] = "revoking"
    /\ RevokeOwned
    /\ admission' = Nobody
    /\ Goto(t, "release")
    /\ UNCHANGED <<cancelLock, cancelled, callback, owned, late>>

LeaveCancel(t) ==
    /\ pc[t] = "release"
    /\ cancelLock' = Nobody
    /\ Goto(t, IF t = Worker THEN "cleanup" ELSE "returned")
    /\ UNCHANGED <<admission, cancelled, callback, owned, revoked, operation, late>>

-----------------------------------------------------------------------------
(* _recon, in the worker.                                                  *)

\* control.remaining() outside of any lock: raises, cancels first when the
\* deadline has passed, or goes on.
Remaining(next, abort) ==
    Goto(Worker, IF cancelled THEN abort ELSE IF late THEN "cancel" ELSE next)

Check ==
    /\ pc[Worker] = "check"
    /\ Remaining("register", "end")
    /\ UNCHANGED <<locks, cancelled, callback, owned, revoked, operation, late>>

\* on_cancel: a registration that comes too late runs at once.
Register ==
    /\ pc[Worker] = "register"
    /\ cancelLock = Nobody
    /\ IF cancelled
       THEN /\ cancelLock' = Worker
            /\ Goto(Worker, "late register")
            /\ UNCHANGED callback
       ELSE /\ callback' = TRUE
            /\ Goto(Worker, "admit")
            /\ UNCHANGED cancelLock
    /\ UNCHANGED <<admission, cancelled, owned, revoked, operation, late>>

\* The late registration revokes what is owned, which is nothing yet.
RegisteredLate ==
    /\ pc[Worker] = "late register"
    /\ admission = Nobody
    /\ RevokeOwned
    /\ cancelLock' = Nobody
    /\ Goto(Worker, "admit")
    /\ UNCHANGED <<admission, cancelled, callback, owned, late>>

EnterAdmission ==
    /\ pc[Worker] = "admit"
    /\ admission = Nobody
    /\ admission' = Worker
    /\ Goto(Worker, "start")
    /\ UNCHANGED <<cancelLock, cancelled, callback, owned, revoked, operation, late>>

\* Mutant of Start: the check inside the lock is left out.
StartUnchecked ==
    /\ pc[Worker] = "start"
    /\ operation' = "pending"
    /\ owned' = TRUE
    /\ Goto(Worker, "admitted")
    /\ UNCHANGED <<locks, cancelled, callback, revoked, late>>

\* Mutant of Start: the deadline is handled by control.remaining(), which
\* cancels while the admission lock is held.
StartCancelsInside ==
    /\ pc[Worker] = "start"
    /\ IF cancelled \/ late
       THEN /\ Goto(Worker, IF cancelled THEN "admitted" ELSE "cancel")
            /\ UNCHANGED <<owned, operation>>
       ELSE /\ operation' = "pending"
            /\ owned' = TRUE
            /\ Goto(Worker, "admitted")
    /\ UNCHANGED <<locks, cancelled, callback, revoked, late>>

\* Inside the lock nothing may call cancel: the deadline is only compared.
\* A start that is denied leaves like a question that was cancelled.
Start ==
    /\ pc[Worker] = "start"
    /\ \/ UNCHANGED <<owned, operation>>
       \/ /\ ~cancelled /\ ~late
          /\ operation' = "pending"
          /\ owned' = TRUE
    /\ Goto(Worker, "admitted")
    /\ UNCHANGED <<locks, cancelled, callback, revoked, late>>

LeaveAdmission ==
    /\ pc[Worker] = "admitted"
    /\ admission' = Nobody
    /\ Goto(Worker, IF owned THEN "watch" ELSE "unregister")
    /\ UNCHANGED <<cancelLock, cancelled, callback, owned, revoked, operation, late>>

\* The watch loop reads the operation between two checks of the control, and
\* gives up when the evidence budget of the recon is spent.
Watch ==
    /\ pc[Worker] = "watch"
    /\ Remaining("watch", "cleanup")
    /\ UNCHANGED <<locks, cancelled, callback, owned, revoked, operation, late>>

WatchEnds ==
    /\ pc[Worker] = "watch"
    /\ ~cancelled
    /\ Goto(Worker, IF operation = "pending" THEN "cleanup" ELSE "unregister")
    /\ UNCHANGED <<locks, cancelled, callback, owned, revoked, operation, late>>

\* finally: revoke what is not over, then take the callback back.
Cleanup ==
    /\ pc[Worker] = "cleanup"
    /\ IF owned
       THEN /\ admission = Nobody
            /\ RevokeOwned
            /\ Goto(Worker, "unregister")
       ELSE Goto(Worker, "unregister") /\ UNCHANGED <<revoked, operation>>
    /\ UNCHANGED <<locks, cancelled, callback, owned, late>>

Unregister ==
    /\ pc[Worker] = "unregister"
    /\ cancelLock = Nobody
    /\ callback' = FALSE
    /\ Goto(Worker, "end")
    /\ UNCHANGED <<locks, cancelled, owned, revoked, operation, late>>

-----------------------------------------------------------------------------
OperationEnds ==
    /\ operation = "pending"
    /\ operation' = "ended"
    /\ UNCHANGED <<pc, locks, cancelled, callback, owned, revoked, late>>

DeadlinePasses ==
    /\ ~late
    /\ late' = TRUE
    /\ UNCHANGED <<pc, locks, cancelled, callback, owned, revoked, operation>>

Init ==
    /\ pc = [t \in All |-> IF t = Worker THEN "check" ELSE "idle"]
    /\ cancelLock = Nobody /\ admission = Nobody
    /\ cancelled = FALSE /\ callback = FALSE
    /\ owned = FALSE /\ revoked = FALSE /\ late = FALSE
    /\ operation = "none"

Cancel(t) == EnterCancel(t) \/ EnterRevoke(t) \/ LeaveRevoke(t) \/ LeaveCancel(t)

Recon ==
    \/ Check \/ Register \/ RegisteredLate \/ EnterAdmission \/ Start \/ LeaveAdmission
    \/ Watch \/ WatchEnds \/ Cleanup \/ Unregister

Finished == \A t \in All : pc[t] \in {"returned", "end"}

Next ==
    \/ \E t \in Cancellers : CallCancel(t)
    \/ \E t \in All : Cancel(t)
    \/ Recon
    \/ OperationEnds
    \/ DeadlinePasses
    \/ Finished /\ UNCHANGED vars

Spec == Init /\ [][Next]_vars

\* Every thread that holds or waits for a lock is scheduled.
FairSpec ==
    /\ Spec
    /\ \A t \in All : WF_vars(Cancel(t))
    /\ WF_vars(Recon)
    /\ WF_vars(DeadlinePasses)

-----------------------------------------------------------------------------
(* Properties.                                                             *)

\* Cancellation is synchronous: when any call of cancel has returned, no
\* operation of the question goes on unmarked, and none appears; and the
\* worker leaves nothing behind, with or without a cancellation.
NothingOutlivesQuestion ==
    /\ (\E t \in Cancellers : pc[t] = "returned") => operation # "pending"
    /\ pc[Worker] = "end" => operation # "pending" /\ ~callback

\* The two locks are never waited for in a circle: every cancel returns.
CancelReturns == \A t \in Cancellers : (pc[t] = "cancel") ~> (pc[t] = "returned")
=============================================================================
