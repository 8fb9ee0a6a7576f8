------------------------ MODULE QuestionEngineProofs ------------------------
(***************************************************************************)
(* Proofs about QuestionEngine, for any number of questions, characters,   *)
(* sessions and slots.                                                     *)
(*                                                                         *)
(* Both properties rest on who holds a slot.  The caller and the worker of *)
(* a question may each give it back, under conditions they read without    *)
(* the other; QuestionOK says what these conditions come to: a question    *)
(* that is neither answered nor cancelled holds its slot, and so does one  *)
(* whose model call runs; and the question that holds a slot was asked in  *)
(* the present conversation, or it is cancelled.                           *)
(***************************************************************************)
EXTENDS QuestionEngine, FiniteSetTheorems, TLAPS

BusyCharacters == {c \in Characters : Busy(c)}

Holds(q) == inflight[owner[q]] = q

QuestionOK(q) ==
    /\ \A c \in Characters : inflight[c] = q => owner[q] = c /\ asker[q] # "new"
    /\ asker[q] \in {"new", "admitted"} => worker[q] = "none"
    /\ worker[q] \in {"none", "running"} => ~finished[q]
    /\ worker[q] = "running" => Holds(q)
    /\ asker[q] = "admitted" => Holds(q)
    /\ asker[q] \in {"waiting", "committing"} /\ cancelled[q] = "" => Holds(q)
    /\ Holds(q) /\ cancelled[q] = "" => asked[q] = epoch[owner[q]]

\* What is recorded was recorded by a caller that has left ask's wait.
DialogueOK(c) ==
    \A q \in dialogue[c] : /\ owner[q] = c /\ asked[q] = epoch[c]
                           /\ asker[q] \in {"unwinding", "done"}

SlotsOK == IsFiniteSet(BusyCharacters) /\ Cardinality(BusyCharacters) <= Slots

EngineInv ==
    /\ EngineTypeOK
    /\ \A q \in Questions : QuestionOK(q)
    /\ \A c \in Characters : DialogueOK(c)
    /\ SlotsOK

-----------------------------------------------------------------------------
(* Slots and cancellations.                                                 *)

\* Giving back a slot frees the character of the question that held it, and
\* touches no other.
LEMMA ReleaseFrees ==
    ASSUME EngineInv, NEW q \in Questions, Release(q)
    PROVE  /\ inflight' \in [Characters -> Questions \cup {NoQuestion}]
           /\ SlotsOK'
           /\ \A c \in Characters : inflight'[c] = IF inflight[c] = q THEN NoQuestion ELSE inflight[c]
<1>1. /\ inflight \in [Characters -> Questions \cup {NoQuestion}] /\ owner[q] \in Characters
      /\ \A c \in Characters : inflight[c] = q => owner[q] = c
  BY DEF EngineInv, EngineTypeOK, QuestionOK
<1>2. inflight' = [inflight EXCEPT ![owner[q]] = IF inflight[owner[q]] = q THEN NoQuestion
                                                 ELSE inflight[owner[q]]]
  BY <1>1 DEF Release
<1>3. inflight' \in [Characters -> Questions \cup {NoQuestion}]
  BY <1>1, <1>2
<1>4. \A c \in Characters : inflight'[c] = IF inflight[c] = q THEN NoQuestion ELSE inflight[c]
  BY <1>1, <1>2
<1>5. BusyCharacters' \subseteq BusyCharacters
  BY <1>4 DEF BusyCharacters, Busy
<1>6. IsFiniteSet(BusyCharacters) /\ Cardinality(BusyCharacters) <= Slots
  BY DEF EngineInv, SlotsOK
<1>7. IsFiniteSet(BusyCharacters') /\ Cardinality(BusyCharacters') <= Cardinality(BusyCharacters)
  BY <1>5, <1>6, FS_Subset
<1>8. Cardinality(BusyCharacters') \in Nat /\ Cardinality(BusyCharacters) \in Nat /\ Slots \in Nat
  BY <1>6, <1>7, FS_CardinalityType, EngineConstants
<1>9. Cardinality(BusyCharacters') <= Slots
  BY <1>6, <1>7, <1>8
<1>10. SlotsOK'
  BY <1>7, <1>9 DEF SlotsOK
<1>. QED
  BY <1>3, <1>4, <1>10

\* A slot that is not given back or taken keeps the bound.
LEMMA SlotsUnchanged ==
    ASSUME EngineInv, UNCHANGED inflight
    PROVE  SlotsOK'
BY DEF EngineInv, SlotsOK, BusyCharacters, Busy

\* A cancellation marks one question, and never takes a mark back.
LEMMA CancelMarks ==
    ASSUME EngineTypeOK, NEW q \in Questions, NEW reason \in {"timeout", "invalidated"},
           CancelWith(q, reason)
    PROVE  /\ cancelled' \in [Questions -> {"", "timeout", "invalidated"}]
           /\ changed' \in [Questions -> BOOLEAN]
           /\ cancelled'[q] # ""
           /\ \A x \in Questions : x # q => cancelled'[x] = cancelled[x]
BY DEF EngineTypeOK, CancelWith

\* The step of the caller q that gives no slot back and may mark q cancelled.
LEMMA CallerStep ==
    ASSUME EngineInv, NEW q \in Questions, NEW to \in {"unwinding", "committing"},
           asker[q] \in {"admitted", "waiting", "committing"},
           asker[q] = "admitted" => to = "unwinding",
           asker' = [asker EXCEPT ![q] = to],
           cancelled' \in [Questions -> {"", "timeout", "invalidated"}],
           changed' \in [Questions -> BOOLEAN],
           \A x \in Questions : cancelled'[x] = "" => cancelled[x] = "",
           UNCHANGED <<session, inflight, owner, worker, finished, result, late, epoch, asked>>
    PROVE  /\ SlotsOK' /\ \A x \in Questions : QuestionOK(x)'
           /\ UNCHANGED dialogue => EngineInv'
<1>1. asker \in [Questions -> AskerStates] /\ asker' \in [Questions -> AskerStates]
  BY DEF EngineInv, EngineTypeOK, AskerStates
<1>2. ASSUME NEW x \in Questions PROVE QuestionOK(x)'
  <2>1. QuestionOK(x) /\ (x = q => QuestionOK(q))
    BY DEF EngineInv
  <2>2. CASE x = q
    BY <1>1, <2>1, <2>2 DEF QuestionOK, Holds
  <2>3. CASE x # q
    BY <1>1, <2>1, <2>3 DEF QuestionOK, Holds
  <2>. QED
    BY <2>2, <2>3
<1>3. SlotsOK'
  BY SlotsUnchanged
<1>4. ASSUME UNCHANGED dialogue, NEW c \in Characters PROVE DialogueOK(c)'
  <2>1. \A x \in dialogue[c] : x \in Questions /\ x # q
    BY DEF EngineInv, EngineTypeOK, DialogueOK
  <2>2. DialogueOK(c) /\ \A x \in Questions : x # q => asker'[x] = asker[x]
    BY <1>1 DEF EngineInv
  <2>. QED
    BY <1>4, <2>1, <2>2 DEF DialogueOK
<1>. QED
  BY <1>1, <1>2, <1>3, <1>4 DEF EngineInv, EngineTypeOK

-----------------------------------------------------------------------------
(* ask.                                                                     *)

\* An admission takes a free slot of a character that is not busy.
LEMMA AdmitInv ==
    ASSUME EngineInv, NEW q \in Questions, NEW c \in Characters, Admit(q, c)
    PROVE  EngineInv'
<1>1. /\ inflight' = [inflight EXCEPT ![c] = q] /\ owner' = [owner EXCEPT ![q] = c]
      /\ asked' = [asked EXCEPT ![q] = epoch[c]] /\ asker' = [asker EXCEPT ![q] = "admitted"]
      /\ asker[q] = "new" /\ inflight[c] = NoQuestion
      /\ UNCHANGED <<session, dialogue, worker, controls, epoch>>
  BY DEF Admit, Busy
<1>2. EngineTypeOK /\ EngineTypeOK'
  BY <1>1 DEF EngineInv, EngineTypeOK, AskerStates, controls
<1>3. q # NoQuestion /\ \A d \in Characters : inflight'[d] = IF d = c THEN q ELSE inflight[d]
  <2>1. inflight \in [Characters -> Questions \cup {NoQuestion}]
    BY <1>2 DEF EngineTypeOK
  <2>. QED
    BY <1>1, <2>1, EngineConstants
<1>4. ASSUME NEW x \in Questions PROVE QuestionOK(x)'
  <2>1. QuestionOK(x) /\ NoQuestion \notin Questions
    BY EngineConstants DEF EngineInv
  <2>2. CASE x = q
    <3>1. \A d \in Characters : inflight[d] # q
      BY <1>1, <2>1, <2>2 DEF QuestionOK
    <3>2. /\ owner'[q] = c /\ inflight'[c] = q /\ asked'[q] = epoch[c] /\ asker'[q] = "admitted"
          /\ \A d \in Characters : d # c => inflight'[d] # q
      BY <1>1, <1>2, <3>1 DEF EngineTypeOK
    <3>3. worker[q] = "none" /\ ~finished[q]
      BY <1>1, <2>1, <2>2 DEF QuestionOK
    <3>. QED
      BY <1>1, <2>2, <3>2, <3>3 DEF QuestionOK, Holds, controls
  <2>3. CASE x # q
    <3>1. \A d \in Characters : inflight'[d] = x <=> inflight[d] = x
      BY <1>1, <1>3, <2>1, <2>3
    <3>2. /\ owner'[x] = owner[x] /\ asked'[x] = asked[x] /\ asker'[x] = asker[x]
          /\ owner[x] \in Characters
      BY <1>1, <1>2, <2>3 DEF EngineTypeOK
    <3>. QED
      BY <1>1, <2>1, <3>1, <3>2 DEF QuestionOK, Holds, controls
  <2>. QED
    BY <2>2, <2>3
<1>5. ASSUME NEW d \in Characters PROVE DialogueOK(d)'
  <2>1. \A x \in dialogue[d] : x \in Questions /\ x # q
    BY <1>1, <1>2 DEF EngineInv, EngineTypeOK, DialogueOK
  <2>2. /\ DialogueOK(d) /\ UNCHANGED <<dialogue, epoch>>
        /\ \A x \in Questions : x # q =>
             asker'[x] = asker[x] /\ owner'[x] = owner[x] /\ asked'[x] = asked[x]
    BY <1>1, <1>2 DEF EngineInv, EngineTypeOK
  <2>. QED
    BY <2>1, <2>2 DEF DialogueOK
<1>6. SlotsOK'
  <2>1. IsFiniteSet(BusyCharacters) /\ Cardinality(BusyCharacters) < Slots /\ c \notin BusyCharacters
    BY <1>1 DEF EngineInv, SlotsOK, Admit, SlotFree, BusyCharacters, Busy
  <2>2. BusyCharacters' = BusyCharacters \cup {c}
    BY <1>3 DEF BusyCharacters, Busy
  <2>3. /\ IsFiniteSet(BusyCharacters')
        /\ Cardinality(BusyCharacters') = Cardinality(BusyCharacters) + 1
    BY <2>1, <2>2, FS_AddElement
  <2>4. Cardinality(BusyCharacters) \in Nat /\ Slots \in Nat
    BY <2>1, FS_CardinalityType, EngineConstants
  <2>5. Cardinality(BusyCharacters') <= Slots
    BY <2>1, <2>3, <2>4
  <2>. QED
    BY <2>3, <2>5 DEF SlotsOK
<1>. QED
  BY <1>2, <1>4, <1>5, <1>6 DEF EngineInv

\* A refusal holds nothing.
LEMMA RefuseInv ==
    ASSUME EngineInv, NEW q \in Questions, NEW c \in Characters, NEW g \in Generations,
           Refuse(q, c, g)
    PROVE  EngineInv'
<1>1. /\ asker[q] = "new" /\ asker' = [asker EXCEPT ![q] = "done"]
      /\ UNCHANGED <<session, inflight, dialogue, owner, worker, controls, epoch, asked>>
  BY DEF Refuse
<1>2. EngineTypeOK /\ EngineTypeOK' /\ SlotsOK'
  BY <1>1, SlotsUnchanged DEF EngineInv, EngineTypeOK, AskerStates, controls
<1>3. ASSUME NEW x \in Questions PROVE QuestionOK(x)'
  <2>1. QuestionOK(x)
    BY DEF EngineInv
  <2>. QED
    BY <1>1, <1>2, <2>1 DEF EngineTypeOK, QuestionOK, Holds, controls
<1>4. ASSUME NEW d \in Characters PROVE DialogueOK(d)'
  BY <1>1, <1>2 DEF EngineInv, EngineTypeOK, DialogueOK
<1>. QED
  BY <1>2, <1>3, <1>4 DEF EngineInv

\* The worker begins while the caller's admission still holds the slot, or
\* its thread cannot be started and the admission is unwound.
LEMMA StartInv ==
    ASSUME EngineInv, NEW q \in Questions, StartWorker(q) \/ StartFails(q)
    PROVE  EngineInv'
<1>1. CASE StartFails(q)
  BY <1>1, CallerStep DEF StartFails, controls, EngineInv, EngineTypeOK
<1>2. CASE StartWorker(q)
  <2>1. /\ asker[q] = "admitted" /\ asker' = [asker EXCEPT ![q] = "waiting"]
        /\ worker' = [worker EXCEPT ![q] = "running"]
        /\ UNCHANGED <<session, inflight, dialogue, owner, controls, epoch, asked>>
    BY <1>2 DEF StartWorker
  <2>2. EngineTypeOK /\ EngineTypeOK' /\ SlotsOK'
    BY <2>1, SlotsUnchanged DEF EngineInv, EngineTypeOK, AskerStates, WorkerStates, controls
  <2>3. ASSUME NEW x \in Questions PROVE QuestionOK(x)'
    <3>1. QuestionOK(x)
      BY DEF EngineInv
    <3>2. CASE x # q
      BY <2>1, <2>2, <3>1, <3>2 DEF EngineTypeOK, QuestionOK, Holds, controls
    <3>3. CASE x = q
      <4>1. worker[q] = "none" /\ ~finished[q] /\ asker'[q] = "waiting" /\ worker'[q] = "running"
        BY <2>1, <2>2, <3>1, <3>3 DEF QuestionOK, EngineTypeOK
      <4>2. Holds(q)
        BY <2>1, <3>1, <3>3 DEF QuestionOK
      <4>. QED
        BY <2>1, <3>1, <3>3, <4>1, <4>2 DEF QuestionOK, Holds, controls
    <3>. QED
      BY <3>2, <3>3
  <2>4. ASSUME NEW d \in Characters PROVE DialogueOK(d)'
    BY <2>1, <2>2 DEF EngineInv, EngineTypeOK, DialogueOK
  <2>. QED
    BY <2>2, <2>3, <2>4 DEF EngineInv
<1>. QED
  BY <1>1, <1>2

\* The wait ends: the caller goes on to commit, or unwinds, and then its
\* question may be cancelled.
LEMMA WaitEndsInv ==
    ASSUME EngineInv, NEW q \in Questions, WaitEnds(q)
    PROVE  EngineInv'
<1>1. EngineTypeOK /\ asker[q] = "waiting"
  BY DEF EngineInv, WaitEnds
<1>2. UNCHANGED <<session, inflight, dialogue, owner, worker, finished, result, late, epoch, asked>>
  BY DEF WaitEnds
<1>3. CASE Raises(q)
  <2>1. /\ asker' = [asker EXCEPT ![q] = "unwinding"]
        /\ CancelWith(q, "timeout")
    BY <1>3 DEF WaitEnds
  <2>2. /\ cancelled' \in [Questions -> {"", "timeout", "invalidated"}]
        /\ changed' \in [Questions -> BOOLEAN]
        /\ \A x \in Questions : cancelled'[x] = "" => cancelled[x] = ""
    BY <1>1, <2>1, CancelMarks
  <2>. QED
    BY <1>1, <1>2, <2>1, <2>2, CallerStep
<1>4. CASE ~Raises(q)
  <2>1. PICK to \in {"unwinding", "committing"} : asker' = [asker EXCEPT ![q] = to]
    BY <1>4 DEF WaitEnds
  <2>2. UNCHANGED <<cancelled, changed>>
    BY <1>4 DEF WaitEnds
  <2>. QED
    BY <1>1, <1>2, <2>1, <2>2, CallerStep DEF EngineTypeOK
<1>. QED
  BY <1>3, <1>4

\* The commit: an answer that is recorded belongs to a question that is not
\* cancelled, so it still holds its slot and its conversation is the present one.
LEMMA CommitInv ==
    ASSUME EngineInv, NEW q \in Questions, Commit(q)
    PROVE  EngineInv'
<1>1. /\ EngineTypeOK /\ asker[q] = "committing" /\ asker' = [asker EXCEPT ![q] = "unwinding"]
      /\ UNCHANGED <<session, inflight, owner, worker, finished, result, late, epoch, asked>>
  BY DEF EngineInv, Commit
<1>2. CASE Raises(q)
  <2>1. CancelWith(q, "timeout") /\ UNCHANGED dialogue
    BY <1>2 DEF Commit
  <2>2. /\ cancelled' \in [Questions -> {"", "timeout", "invalidated"}]
        /\ changed' \in [Questions -> BOOLEAN]
        /\ \A x \in Questions : cancelled'[x] = "" => cancelled[x] = ""
    BY <1>1, <2>1, CancelMarks
  <2>. QED
    BY <1>1, <2>1, <2>2, CallerStep
<1>3. CASE ~Raises(q)
  <2>1. /\ dialogue' = [dialogue EXCEPT ![owner[q]] = @ \cup {q}]
        /\ UNCHANGED <<cancelled, changed>> /\ cancelled[q] = ""
    BY <1>3 DEF Commit, Raises
  <2>2. SlotsOK' /\ \A x \in Questions : QuestionOK(x)'
    BY <1>1, <2>1, CallerStep DEF EngineTypeOK
  <2>3. owner[q] \in Characters /\ asked[q] = epoch[owner[q]]
    BY <1>1, <2>1 DEF EngineInv, QuestionOK, EngineTypeOK
  <2>4. EngineTypeOK'
    BY <1>1, <2>1, <2>3 DEF EngineTypeOK, AskerStates
  <2>5. ASSUME NEW c \in Characters PROVE DialogueOK(c)'
    <3>1. DialogueOK(c) /\ dialogue[c] \subseteq Questions
      BY <1>1 DEF EngineInv, EngineTypeOK
    <3>2. dialogue'[c] = IF c = owner[q] THEN dialogue[c] \cup {q} ELSE dialogue[c]
      BY <1>1, <2>1, <2>3 DEF EngineTypeOK
    <3>3. \A x \in Questions : asker'[x] = IF x = q THEN "unwinding" ELSE asker[x]
      BY <1>1 DEF EngineTypeOK
    <3>. QED
      BY <1>1, <2>3, <3>1, <3>2, <3>3 DEF DialogueOK
  <2>. QED
    BY <2>2, <2>4, <2>5 DEF EngineInv
<1>. QED
  BY <1>2, <1>3

\* The end of ask: the slot is given back unless the model call still runs.
LEMMA UnwindInv ==
    ASSUME EngineInv, NEW q \in Questions, Unwind(q)
    PROVE  EngineInv'
<1>1. /\ EngineTypeOK /\ asker[q] = "unwinding" /\ asker' = [asker EXCEPT ![q] = "done"]
      /\ UNCHANGED <<session, dialogue, owner, worker, controls, epoch, asked>>
  BY DEF EngineInv, Unwind
<1>2. /\ inflight' \in [Characters -> Questions \cup {NoQuestion}] /\ SlotsOK'
      /\ \/ UNCHANGED inflight
         \/ /\ finished[q] \/ worker[q] = "none"
            /\ \A c \in Characters :
                 inflight'[c] = IF inflight[c] = q THEN NoQuestion ELSE inflight[c]
  <2>1. CASE finished[q] \/ worker[q] = "none"
    BY <2>1, ReleaseFrees DEF Unwind
  <2>2. CASE ~(finished[q] \/ worker[q] = "none")
    BY <1>1, <2>2, SlotsUnchanged DEF Unwind, EngineTypeOK
  <2>. QED
    BY <2>1, <2>2
<1>3. EngineTypeOK'
  BY <1>1, <1>2 DEF EngineTypeOK, AskerStates, controls
<1>4. ASSUME NEW x \in Questions PROVE QuestionOK(x)'
  <2>1. QuestionOK(x) /\ owner[x] \in Characters /\ NoQuestion \notin Questions
    BY <1>1, EngineConstants DEF EngineInv, EngineTypeOK
  <2>2. /\ asker'[x] = IF x = q THEN "done" ELSE asker[x]
        /\ \A c \in Characters : inflight'[c] = x => inflight[c] = x
        /\ x # q => \A c \in Characters : inflight'[c] = x <=> inflight[c] = x
    BY <1>1, <1>2, <2>1 DEF EngineTypeOK
  <2>3. worker[x] = "running" => Holds(x)'
    BY <1>1, <1>2, <2>1, <2>2 DEF QuestionOK, Holds, controls
  <2>4. (Holds(x)' => Holds(x)) /\ (x # q => (Holds(x)' <=> Holds(x)))
    BY <1>1, <2>1, <2>2 DEF Holds
  <2>5. UNCHANGED <<owner[x], worker[x], finished[x], cancelled[x], asked[x], epoch[owner[x]]>>
    BY <1>1 DEF controls
  <2>. QED
    BY <2>1, <2>2, <2>3, <2>4, <2>5 DEF QuestionOK
<1>5. ASSUME NEW d \in Characters PROVE DialogueOK(d)'
  BY <1>1 DEF EngineInv, EngineTypeOK, DialogueOK
<1>. QED
  BY <1>2, <1>3, <1>4, <1>5 DEF EngineInv

-----------------------------------------------------------------------------
(* work.                                                                    *)

\* The worker returns and notifies: it holds what it held.
LEMMA WorkerInv ==
    ASSUME EngineInv, NEW q \in Questions, WorkerReturns(q) \/ WorkerNotifies(q)
    PROVE  EngineInv'
<1>1. /\ EngineTypeOK /\ worker[q] \in {"running", "finished"}
      /\ worker' = [worker EXCEPT ![q] = IF worker[q] = "running" THEN "finished" ELSE "notified"]
      /\ finished' \in [Questions -> BOOLEAN] /\ changed' \in [Questions -> BOOLEAN]
      /\ \A x \in Questions : x # q => finished'[x] = finished[x]
      /\ result' \in [Questions -> {"", "answer", "error"}]
      /\ UNCHANGED <<session, inflight, dialogue, owner, asker, cancelled, late, epoch, asked>>
  <2>1. EngineTypeOK
    BY DEF EngineInv
  <2>2. CASE WorkerReturns(q)
    <3>1. PICK r \in {"answer", "error"} : WorkerFinishes(q, r)
      BY <2>2 DEF WorkerReturns
    <3>. QED
      BY <2>1, <3>1 DEF WorkerFinishes, EngineTypeOK
  <2>3. CASE WorkerNotifies(q)
    BY <2>1, <2>3 DEF WorkerNotifies, EngineTypeOK
  <2>. QED
    BY <2>2, <2>3
<1>2. EngineTypeOK' /\ SlotsOK'
  BY <1>1, SlotsUnchanged DEF EngineTypeOK, WorkerStates
<1>3. ASSUME NEW x \in Questions PROVE QuestionOK(x)'
  <2>1. QuestionOK(x)
    BY DEF EngineInv
  <2>2. worker'[x] = IF x = q THEN (IF worker[q] = "running" THEN "finished" ELSE "notified")
                     ELSE worker[x]
    BY <1>1 DEF EngineTypeOK
  <2>3. /\ UNCHANGED <<inflight, owner, asker[x], cancelled[x], asked[x], epoch>>
        /\ x # q => UNCHANGED finished[x]
        /\ Holds(x)' <=> Holds(x)
    BY <1>1 DEF Holds
  <2>4. x = q => worker[x] \in {"running", "finished"}
    BY <1>1
  <2>. QED
    BY <2>1, <2>2, <2>3, <2>4 DEF QuestionOK
<1>4. ASSUME NEW d \in Characters PROVE DialogueOK(d)'
  BY <1>1 DEF EngineInv, DialogueOK
<1>. QED
  BY <1>2, <1>3, <1>4 DEF EngineInv

\* The worker leaves, with the slot if its question was cancelled.
LEMMA WorkerLeavesInv ==
    ASSUME EngineInv, NEW q \in Questions, WorkerLeaves(q)
    PROVE  EngineInv'
<1>1. /\ EngineTypeOK /\ worker[q] = "notified" /\ worker' = [worker EXCEPT ![q] = "done"]
      /\ UNCHANGED <<session, dialogue, owner, asker, controls, epoch, asked>>
  BY DEF EngineInv, WorkerLeaves
<1>2. /\ inflight' \in [Characters -> Questions \cup {NoQuestion}] /\ SlotsOK'
      /\ \/ UNCHANGED inflight
         \/ /\ cancelled[q] # ""
            /\ \A c \in Characters :
                 inflight'[c] = IF inflight[c] = q THEN NoQuestion ELSE inflight[c]
  <2>1. CASE cancelled[q] # ""
    BY <2>1, ReleaseFrees DEF WorkerLeaves
  <2>2. CASE cancelled[q] = ""
    BY <1>1, <2>2, SlotsUnchanged DEF WorkerLeaves, EngineTypeOK
  <2>. QED
    BY <2>1, <2>2
<1>3. EngineTypeOK'
  BY <1>1, <1>2 DEF EngineTypeOK, WorkerStates, controls
<1>4. ASSUME NEW x \in Questions PROVE QuestionOK(x)'
  <2>1. QuestionOK(x) /\ owner[x] \in Characters /\ NoQuestion \notin Questions
    BY <1>1, EngineConstants DEF EngineInv, EngineTypeOK
  <2>2. /\ worker'[x] = IF x = q THEN "done" ELSE worker[x]
        /\ \A c \in Characters : inflight'[c] = x => inflight[c] = x
        /\ x # q => \A c \in Characters : inflight'[c] = x <=> inflight[c] = x
    BY <1>1, <1>2, <2>1 DEF EngineTypeOK
  <2>3. x = q /\ (cancelled[q] = "" \/ asker[q] = "admitted") => UNCHANGED inflight
    BY <1>1, <1>2, <2>1 DEF QuestionOK
  <2>4. (Holds(x)' => Holds(x)) /\ (x # q => (Holds(x)' <=> Holds(x)))
    BY <1>1, <2>1, <2>2 DEF Holds
  <2>5. /\ UNCHANGED <<owner[x], asker[x], finished[x], cancelled[x], asked[x], epoch[owner[x]]>>
        /\ x = q => worker[x] = "notified"
        /\ UNCHANGED inflight => (Holds(x)' <=> Holds(x))
    BY <1>1 DEF controls, Holds
  <2>. QED
    BY <2>1, <2>2, <2>3, <2>4, <2>5 DEF QuestionOK
<1>5. ASSUME NEW d \in Characters PROVE DialogueOK(d)'
  BY <1>1 DEF EngineInv, DialogueOK
<1>. QED
  BY <1>2, <1>3, <1>4, <1>5 DEF EngineInv

-----------------------------------------------------------------------------
(* forget, admit_generation, and the clock.                                 *)

\* Forgetting empties the conversation and cancels the question that holds
\* the character's slot: whatever it answers belongs to no conversation.
LEMMA ForgetInv ==
    ASSUME EngineInv, NEW c \in Characters, ForgetDialogue(c),
           session' \in [Characters -> Generations \cup {NoGeneration}],
           UNCHANGED <<inflight, owner, threads, finished, result, late, asked>>
    PROVE  EngineInv'
<1>1. /\ EngineTypeOK /\ epoch[c] < MaxForgets
      /\ epoch' = [epoch EXCEPT ![c] = epoch[c] + 1]
      /\ dialogue' = [dialogue EXCEPT ![c] = {}]
  BY DEF EngineInv, ForgetDialogue
<1>2. /\ cancelled' \in [Questions -> {"", "timeout", "invalidated"}]
      /\ changed' \in [Questions -> BOOLEAN]
      /\ \A x \in Questions : cancelled'[x] = "" => cancelled[x] = ""
      /\ \A x \in Questions : inflight[c] = x => cancelled'[x] # ""
  <2>1. CASE Busy(c)
    <3>1. inflight[c] \in Questions /\ CancelWith(inflight[c], "invalidated")
      BY <1>1, <2>1 DEF ForgetDialogue, Busy, EngineTypeOK
    <3>. QED
      BY <1>1, <3>1, CancelMarks
  <2>2. CASE ~Busy(c)
    <3>1. UNCHANGED <<cancelled, changed>> /\ inflight[c] \notin Questions
      BY <2>2, EngineConstants DEF ForgetDialogue, Busy
    <3>2. cancelled \in [Questions -> {"", "timeout", "invalidated"}]
      BY <1>1 DEF EngineTypeOK
    <3>3. changed \in [Questions -> BOOLEAN]
      BY <1>1 DEF EngineTypeOK
    <3>. QED
      BY <3>1, <3>2, <3>3
  <2>. QED
    BY <2>1, <2>2
<1>3. epoch[c] + 1 \in 0..MaxForgets
  <2>1. epoch[c] \in 0..MaxForgets /\ MaxForgets \in Nat
    BY <1>1, EngineConstants DEF EngineTypeOK
  <2>. QED
    BY <1>1, <2>1
<1>4. EngineTypeOK' /\ SlotsOK'
  BY <1>1, <1>2, <1>3, SlotsUnchanged DEF EngineTypeOK, threads
<1>5. ASSUME NEW x \in Questions PROVE QuestionOK(x)'
  <2>1. QuestionOK(x) /\ owner[x] \in Characters
    BY <1>1 DEF EngineInv, EngineTypeOK
  <2>2. epoch'[owner[x]] = IF owner[x] = c THEN epoch[c] + 1 ELSE epoch[owner[x]]
    BY <1>1, <2>1 DEF EngineTypeOK
  <2>. QED
    BY <1>2, <2>1, <2>2 DEF QuestionOK, Holds, threads
<1>6. ASSUME NEW d \in Characters PROVE DialogueOK(d)'
  <2>1. /\ dialogue'[d] = IF d = c THEN {} ELSE dialogue[d]
        /\ d # c => epoch'[d] = epoch[d]
    BY <1>1 DEF EngineTypeOK
  <2>. QED
    BY <2>1 DEF EngineInv, DialogueOK, threads
<1>. QED
  BY <1>4, <1>5, <1>6 DEF EngineInv

\* A deadline that passes is noticed later.
LEMMA DeadlineInv ==
    ASSUME EngineInv, NEW q \in Questions, DeadlinePasses(q)
    PROVE  EngineInv'
<1>1. /\ EngineTypeOK /\ late' = [late EXCEPT ![q] = TRUE]
      /\ UNCHANGED <<session, inflight, dialogue, owner, threads, cancelled, changed, finished,
                     result, epoch, asked>>
  BY DEF EngineInv, DeadlinePasses
<1>2. EngineTypeOK' /\ SlotsOK'
  BY <1>1, SlotsUnchanged DEF EngineTypeOK, threads
<1>3. ASSUME NEW x \in Questions PROVE QuestionOK(x)'
  BY <1>1 DEF EngineInv, QuestionOK, Holds, threads
<1>4. ASSUME NEW d \in Characters PROVE DialogueOK(d)'
  BY <1>1 DEF EngineInv, DialogueOK, threads
<1>. QED
  BY <1>2, <1>3, <1>4 DEF EngineInv

-----------------------------------------------------------------------------
(* The theorems.                                                            *)

\* Nothing is asked in the beginning.
LEMMA InitInv ==
    Init => EngineInv
<1>. SUFFICES ASSUME Init PROVE EngineInv
  OBVIOUS
<1>1. EngineTypeOK
  <2>1. (CHOOSE c \in Characters : TRUE) \in Characters
    BY EngineConstants
  <2>. QED
    <3>1. 0 \in 0..MaxForgets
      BY EngineConstants
    <3>2. owner \in [Questions -> Characters]
      BY <2>1 DEF Init
    <3>. QED
      BY <3>1, <3>2 DEF Init, EngineTypeOK, AskerStates, WorkerStates
<1>2. BusyCharacters = {}
  BY DEF Init, BusyCharacters, Busy
<1>3. SlotsOK
  BY <1>2, FS_EmptySet, EngineConstants DEF SlotsOK
<1>4. ASSUME NEW q \in Questions PROVE QuestionOK(q)
  BY <1>1, EngineConstants DEF Init, QuestionOK, Holds, EngineTypeOK
<1>5. ASSUME NEW c \in Characters PROVE DialogueOK(c)
  BY DEF Init, DialogueOK
<1>. QED
  BY <1>1, <1>3, <1>4, <1>5 DEF EngineInv

\* Every step keeps the invariant.
LEMMA NextInv ==
    EngineInv /\ [Next]_vars => EngineInv'
<1>. SUFFICES ASSUME EngineInv, [Next]_vars PROVE EngineInv'
  OBVIOUS
<1>1. ASSUME NEW q \in Questions, NEW c \in Characters, Admit(q, c) PROVE EngineInv'
  BY <1>1, AdmitInv
<1>2. ASSUME NEW q \in Questions, NEW c \in Characters, NEW g \in Generations, Refuse(q, c, g)
      PROVE EngineInv'
  BY <1>2, RefuseInv
<1>3. ASSUME NEW q \in Questions, Asker(q) \/ StartFails(q) PROVE EngineInv'
  BY <1>3, StartInv, WaitEndsInv, CommitInv, UnwindInv DEF Asker
<1>4. ASSUME NEW q \in Questions, WorkerReturns(q) \/ WorkerCleanup(q) PROVE EngineInv'
  BY <1>4, WorkerInv, WorkerLeavesInv DEF WorkerCleanup
<1>5. ASSUME NEW q \in Questions, DeadlinePasses(q) PROVE EngineInv'
  BY <1>5, DeadlineInv
<1>6. ASSUME NEW c \in Characters, Forget(c) PROVE EngineInv'
  BY <1>6, ForgetInv DEF Forget, EngineInv, EngineTypeOK
<1>7. ASSUME NEW c \in Characters, NEW g \in Generations, AdmitGeneration(c, g) PROVE EngineInv'
  <2>1. session' \in [Characters -> Generations \cup {NoGeneration}]
    BY <1>7 DEF AdmitGeneration, EngineInv, EngineTypeOK
  <2>. QED
    BY <1>7, <2>1, ForgetInv DEF AdmitGeneration
<1>8. CASE UNCHANGED vars
  <2>1. EngineTypeOK' /\ SlotsOK'
    BY <1>8, SlotsUnchanged DEF EngineInv, EngineTypeOK, vars, threads, controls
  <2>2. \A q \in Questions : QuestionOK(q)'
    BY <1>8 DEF EngineInv, QuestionOK, Holds, vars, threads, controls
  <2>3. \A c \in Characters : DialogueOK(c)'
    BY <1>8 DEF EngineInv, DialogueOK, vars, threads, controls
  <2>. QED
    BY <2>1, <2>2, <2>3 DEF EngineInv
<1>. QED
  BY <1>1, <1>2, <1>3, <1>4, <1>5, <1>6, <1>7, <1>8 DEF Next

\* Who holds a slot, who may give it back, and what may be recorded, in every
\* reachable state.
THEOREM EngineInvariance == Spec => []EngineInv
<1>1. Init => EngineInv
  BY InitInv
<1>2. EngineInv /\ [Next]_vars => EngineInv'
  BY NextInv
<1>. QED
  BY <1>1, <1>2, PTL DEF Spec

\* However many questions, characters and slots there are: a model call that
\* runs keeps its slot, and the slots are never exceeded (_release_question,
\* the worker's and ask's finally blocks).
THEOREM SlotsAreKept == Spec => []RunningHoldsSlot
<1>1. EngineInv => RunningHoldsSlot
  BY DEF EngineInv, QuestionOK, Holds, SlotsOK, BusyCharacters, Busy, RunningHoldsSlot
<1>. QED
  BY <1>1, EngineInvariance, PTL

\* Whatever is forgotten and whatever session begins while an answer is on
\* its way: what a character's dialogue holds was asked in it.
THEOREM AnswersStay == Spec => []AnswersStayInConversation
<1>1. EngineInv => AnswersStayInConversation
  BY DEF EngineInv, DialogueOK, AnswersStayInConversation
<1>. QED
  BY <1>1, EngineInvariance, PTL
=============================================================================
