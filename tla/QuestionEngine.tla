---------------------------- MODULE QuestionEngine ----------------------------
(***************************************************************************)
(* Copilot of src/src/lich_agent_bridge/engine.py: how questions of several*)
(* characters share the model slots, and how forgetting, a new session and *)
(* the deadline race with an answer that is already on its way.  A question*)
(* has two threads: the caller's (ask) and the worker's (_answer).  What   *)
(* holds _state_lock or QuestionControl's cancel lock is one step.         *)
(*                                                                         *)
(* Abstracted: prompts, sources and texts; the dialogue of a character is  *)
(* the questions recorded in it.  _inflight is keyed by character.         *)
(***************************************************************************)
EXTENDS Integers, FiniteSets

CONSTANTS
    Characters, Generations, NoGeneration,
    Questions,      \* bound: the questions asked in a behaviour
    NoQuestion,
    Slots,          \* _max_concurrent_questions
    MaxForgets      \* bound: times a dialogue is forgotten

ASSUME EngineConstants ==
    /\ Characters # {}
    /\ NoGeneration \notin Generations
    /\ NoQuestion \notin Questions
    /\ Slots \in Nat \ {0}
    /\ MaxForgets \in Nat

VARIABLES
    session,   \* _generations
    inflight,  \* _inflight
    dialogue,  \* _dialogue
    owner,     \* the character of a question
    asker,     \* the thread in ask
    worker,    \* the thread in work
    cancelled, \* QuestionControl.cancelled and reason
    changed,   \* QuestionControl.changed
    finished,  \* the Event of ask
    result,    \* the list of ask
    late,      \* the deadline has passed
    epoch,     \* history: how often a character's dialogue was forgotten
    asked      \* history: the epoch in which a question was admitted

threads == <<asker, worker>>
controls == <<cancelled, changed, finished, result, late>>
vars == <<session, inflight, dialogue, owner, threads, controls, epoch, asked>>

AskerStates == {"new", "admitted", "waiting", "committing", "unwinding", "done"}
WorkerStates == {"none", "running", "finished", "notified", "done"}

EngineTypeOK ==
    /\ session \in [Characters -> Generations \cup {NoGeneration}]
    /\ inflight \in [Characters -> Questions \cup {NoQuestion}]
    /\ dialogue \in [Characters -> SUBSET Questions]
    /\ owner \in [Questions -> Characters]
    /\ asker \in [Questions -> AskerStates] /\ worker \in [Questions -> WorkerStates]
    /\ cancelled \in [Questions -> {"", "timeout", "invalidated"}]
    /\ changed \in [Questions -> BOOLEAN] /\ finished \in [Questions -> BOOLEAN]
    /\ result \in [Questions -> {"", "answer", "error"}]
    /\ late \in [Questions -> BOOLEAN]
    /\ epoch \in [Characters -> 0..MaxForgets]
    /\ asked \in [Questions -> 0..MaxForgets]

-----------------------------------------------------------------------------
\* QuestionControl.cancel: the first reason stays.
CancelWith(q, reason) ==
    /\ cancelled' = [cancelled EXCEPT ![q] = IF @ = "" THEN reason ELSE @]
    /\ changed' = [changed EXCEPT ![q] = TRUE]

\* QuestionControl.remaining raises; a passed deadline cancels.
Raises(q) == cancelled[q] # "" \/ late[q]

\* _release_question: only the question that holds the slot gives it back.
Release(q) ==
    inflight' = [inflight EXCEPT ![owner[q]] = IF @ = q THEN NoQuestion ELSE @]

-----------------------------------------------------------------------------
(* ask                                                                     *)

Busy(c) == inflight[c] # NoQuestion
SlotFree == Cardinality({c \in Characters : Busy(c)}) < Slots

Admit(q, c) ==
    /\ asker[q] = "new"
    /\ ~Busy(c)
    /\ SlotFree
    /\ inflight' = [inflight EXCEPT ![c] = q]
    /\ owner' = [owner EXCEPT ![q] = c]
    /\ asked' = [asked EXCEPT ![q] = epoch[c]]
    /\ asker' = [asker EXCEPT ![q] = "admitted"]
    /\ UNCHANGED <<session, dialogue, worker, controls, epoch>>

\* QuestionBusy, QuestionCapacity, or QuestionInvalidated when the caller
\* expects a session that is not the current one.
Refuse(q, c, expected) ==
    /\ asker[q] = "new"
    /\ expected # session[c] \/ Busy(c) \/ ~SlotFree
    /\ asker' = [asker EXCEPT ![q] = "done"]
    /\ UNCHANGED <<session, inflight, dialogue, owner, worker, controls, epoch, asked>>

StartWorker(q) ==
    /\ asker[q] = "admitted"
    /\ asker' = [asker EXCEPT ![q] = "waiting"]
    /\ worker' = [worker EXCEPT ![q] = "running"]
    /\ UNCHANGED <<session, inflight, dialogue, owner, controls, epoch, asked>>

\* No thread can be started: nobody but ask can give the slot back.
StartFails(q) ==
    /\ asker[q] = "admitted"
    /\ asker' = [asker EXCEPT ![q] = "unwinding"]
    /\ UNCHANGED <<session, inflight, dialogue, owner, worker, controls, epoch, asked>>

\* Mutant of WaitEnds: the wait has no deadline of its own.
WaitEndsOnChange(q) ==
    /\ asker[q] = "waiting"
    /\ changed[q]
    /\ IF Raises(q)
       THEN CancelWith(q, "timeout") /\ asker' = [asker EXCEPT ![q] = "unwinding"]
       ELSE /\ asker' = [asker EXCEPT ![q] =
                           IF result[q] = "answer" THEN "committing" ELSE "unwinding"]
            /\ UNCHANGED <<cancelled, changed>>
    /\ UNCHANGED <<session, inflight, dialogue, owner, worker, finished, result, late, epoch, asked>>

\* The wait ends by the deadline, a cancellation or the worker.
WaitEnds(q) ==
    /\ asker[q] = "waiting"
    /\ late[q] \/ changed[q]
    /\ IF Raises(q)
       THEN CancelWith(q, "timeout") /\ asker' = [asker EXCEPT ![q] = "unwinding"]
       ELSE /\ asker' = [asker EXCEPT ![q] =
                           IF result[q] = "answer" THEN "committing" ELSE "unwinding"]
            /\ UNCHANGED <<cancelled, changed>>
    /\ UNCHANGED <<session, inflight, dialogue, owner, worker, finished, result, late, epoch, asked>>

\* Mutant of Commit: the answer is recorded without looking at the control.
CommitUnchecked(q) ==
    /\ asker[q] = "committing"
    /\ asker' = [asker EXCEPT ![q] = "unwinding"]
    /\ dialogue' = [dialogue EXCEPT ![owner[q]] = @ \cup {q}]
    /\ UNCHANGED <<session, inflight, owner, worker, controls, epoch, asked>>

\* Under the lock, the answer is retained unless the control was cancelled.
Commit(q) ==
    /\ asker[q] = "committing"
    /\ asker' = [asker EXCEPT ![q] = "unwinding"]
    /\ IF Raises(q)
       THEN CancelWith(q, "timeout") /\ UNCHANGED dialogue
       ELSE /\ dialogue' = [dialogue EXCEPT ![owner[q]] = @ \cup {q}]
            /\ UNCHANGED <<cancelled, changed>>
    /\ UNCHANGED <<session, inflight, owner, worker, finished, result, late, epoch, asked>>

\* Mutant of Unwind: the slot is given back though the worker goes on.
UnwindAlways(q) ==
    /\ asker[q] = "unwinding"
    /\ asker' = [asker EXCEPT ![q] = "done"]
    /\ Release(q)
    /\ UNCHANGED <<session, dialogue, owner, worker, controls, epoch, asked>>

\* finally: give the slot back unless the worker still runs.
Unwind(q) ==
    /\ asker[q] = "unwinding"
    /\ asker' = [asker EXCEPT ![q] = "done"]
    /\ IF finished[q] \/ worker[q] = "none" THEN Release(q) ELSE UNCHANGED inflight
    /\ UNCHANGED <<session, dialogue, owner, worker, controls, epoch, asked>>

-----------------------------------------------------------------------------
(* work                                                                    *)

\* The model adapter returns, by itself or because the control was cancelled.
WorkerFinishes(q, r) ==
    /\ worker[q] = "running"
    /\ worker' = [worker EXCEPT ![q] = "finished"]
    /\ result' = [result EXCEPT ![q] = r]
    /\ finished' = [finished EXCEPT ![q] = TRUE]
    /\ UNCHANGED <<session, inflight, dialogue, owner, asker, cancelled, changed, late, epoch, asked>>

WorkerNotifies(q) ==
    /\ worker[q] = "finished"
    /\ worker' = [worker EXCEPT ![q] = "notified"]
    /\ changed' = [changed EXCEPT ![q] = TRUE]
    /\ UNCHANGED <<session, inflight, dialogue, owner, asker, cancelled, finished, result, late, epoch, asked>>

\* Mutant of WorkerLeaves: the slot is left to the caller.
WorkerLeavesSlot(q) ==
    /\ worker[q] = "notified"
    /\ worker' = [worker EXCEPT ![q] = "done"]
    /\ UNCHANGED <<session, inflight, dialogue, owner, asker, controls, epoch, asked>>

\* An abandoned worker gives its slot back itself.
WorkerLeaves(q) ==
    /\ worker[q] = "notified"
    /\ worker' = [worker EXCEPT ![q] = "done"]
    /\ IF cancelled[q] # "" THEN Release(q) ELSE UNCHANGED inflight
    /\ UNCHANGED <<session, dialogue, owner, asker, controls, epoch, asked>>

-----------------------------------------------------------------------------
(* forget, admit_generation, and the clock.                                *)

ForgetDialogue(c) ==
    /\ epoch[c] < MaxForgets
    /\ epoch' = [epoch EXCEPT ![c] = @ + 1]
    /\ dialogue' = [dialogue EXCEPT ![c] = {}]
    /\ IF Busy(c) THEN CancelWith(inflight[c], "invalidated")
                  ELSE UNCHANGED <<cancelled, changed>>

Forget(c) ==
    /\ ForgetDialogue(c)
    /\ UNCHANGED <<session, inflight, owner, threads, finished, result, late, asked>>

\* The state reducer accepted a snapshot of another generation: what was
\* asked and answered in the old one is dropped in the same step.
AdmitGeneration(c, g) ==
    /\ g # session[c]
    /\ session' = [session EXCEPT ![c] = g]
    /\ ForgetDialogue(c)
    /\ UNCHANGED <<inflight, owner, threads, finished, result, late, asked>>

DeadlinePasses(q) ==
    /\ asker[q] \notin {"new", "done"}
    /\ ~late[q]
    /\ late' = [late EXCEPT ![q] = TRUE]
    /\ UNCHANGED <<session, inflight, dialogue, owner, threads, cancelled, changed, finished, result, epoch, asked>>

-----------------------------------------------------------------------------
Init ==
    /\ session = [c \in Characters |-> NoGeneration]
    /\ inflight = [c \in Characters |-> NoQuestion]
    /\ dialogue = [c \in Characters |-> {}]
    /\ owner \in [Questions -> {CHOOSE c \in Characters : TRUE}]
    /\ asker = [q \in Questions |-> "new"] /\ worker = [q \in Questions |-> "none"]
    /\ cancelled = [q \in Questions |-> ""]
    /\ changed = [q \in Questions |-> FALSE] /\ finished = [q \in Questions |-> FALSE]
    /\ result = [q \in Questions |-> ""]
    /\ late = [q \in Questions |-> FALSE]
    /\ epoch = [c \in Characters |-> 0]
    /\ asked = [q \in Questions |-> 0]

Asker(q) == StartWorker(q) \/ WaitEnds(q) \/ Commit(q) \/ Unwind(q)

WorkerReturns(q) == \E r \in {"answer", "error"} : WorkerFinishes(q, r)
WorkerCleanup(q) == WorkerNotifies(q) \/ WorkerLeaves(q)

Next ==
    \/ \E q \in Questions :
         \/ \E c \in Characters : Admit(q, c)
                                  \/ \E g \in Generations : Refuse(q, c, g)
         \/ Asker(q) \/ StartFails(q)
         \/ WorkerReturns(q) \/ WorkerCleanup(q)
         \/ DeadlinePasses(q)
    \/ \E c \in Characters : Forget(c) \/ \E g \in Generations : AdmitGeneration(c, g)

Spec == Init /\ [][Next]_vars

\* Threads run and deadlines pass; a model adapter promises nothing.
FairSpec ==
    /\ Spec
    /\ \A q \in Questions : /\ WF_vars(Asker(q))
                            /\ WF_vars(WorkerCleanup(q))
                            /\ WF_vars(DeadlinePasses(q))

-----------------------------------------------------------------------------
(* Properties.                                                             *)

\* An answer is retained only in the conversation it was asked in: neither a
\* forget nor a new session in between lets a late answer through.
AnswersStayInConversation ==
    \A c \in Characters : \A q \in dialogue[c] : owner[q] = c /\ asked[q] = epoch[c]

\* A model call that runs keeps its slot until it is done, however its caller
\* was sent away: the number of model calls never exceeds the slots, and a
\* character never has two.
RunningHoldsSlot ==
    /\ \A q \in Questions : worker[q] = "running" => inflight[owner[q]] = q
    /\ Cardinality({c \in Characters : inflight[c] # NoQuestion}) <= Slots

\* Whatever the adapter does, the player is answered or told.
AskReturns == \A q \in Questions : (asker[q] # "new") ~> (asker[q] = "done")

\* No order of the two threads' last steps leaves a slot taken for ever: it is
\* freed as soon as the model adapter returns, if only at its own timeout.
SlotIsFreed ==
    \A q \in Questions :
        (inflight[owner[q]] = q) ~> (inflight[owner[q]] # q \/ worker[q] = "running")
=============================================================================
