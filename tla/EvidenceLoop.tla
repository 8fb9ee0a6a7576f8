----------------------------- MODULE EvidenceLoop -----------------------------
(***************************************************************************)
(* The evidence turns of one question: EvidenceLoop.run of                 *)
(* evidence_loop.py with the workspace of evidence_workspace.py, between a *)
(* model that answers anything and the session of evidence_tools.py, which *)
(* validates a request, and executes it or fails.  The question may be     *)
(* cancelled at any moment.                                                *)
(*                                                                         *)
(* A request is one exact pair of tool and arguments.  Sizes are counted   *)
(* in manifest entries: one for every record that is not supplied.         *)
(***************************************************************************)
EXTENDS Naturals, Sequences, FiniteSets, SequencesExt

CONSTANTS
    Requests,        \* what the model may ask for
    Priority, Size,  \* of a request's tool, and of the record of its result
    Identity,        \* equal for two requests with the same result
    Needs,           \* the requests whose results issue its handles
    MaxBatch, MaxRequests, MaxRounds,
    MaxResult, MaxContext  \* the limits of one record and of all of them

Read == 3  \* the priority of a deliberate read, the greatest

\* The constructor leaves room for the manifest of every other record.  The
\* identity of a result begins with the tool, which has the priority.
\* Assumed of the constants.
LoopLimits ==
    /\ MaxBatch \in Nat /\ MaxRequests \in Nat \ {0} /\ MaxRounds \in Nat \ {0}
    /\ MaxResult \in Nat \ {0} /\ MaxContext \in Nat
    /\ MaxResult + MaxRequests - 1 <= MaxContext
    /\ Priority \in [Requests -> 0..Read] /\ Size \in [Requests -> Nat]
    /\ \A q, r \in Requests : Identity[q] = Identity[r] => Priority[q] = Priority[r]

VARIABLES
    at,        \* where the loop stands
    rounds, used, finalOnly,
    entries,   \* _entries: their request, touched and reactivated
    index,     \* _requests: the entry of a request, 0 for none
    context,   \* the entries supplied in this turn
    batch,     \* the requests of the batch still to be executed
    executed,  \* how often the session was asked for a request
    turns,     \* calls of the model
    cancelled, \* the question's control
    wanted,    \* the entry this batch has asked for last and most, 0 for none
    before     \* executions before this batch

vars == <<at, rounds, used, finalOnly, entries, index, context, batch, executed, turns, cancelled,
          wanted, before>>
budget == <<rounds, used, finalOnly, turns>>
store == <<entries, index, executed, wanted>>

Ends == {"answered", "limit", "invalid", "failed", "cancelled"}

LoopTypeOK ==
    /\ at \in {"turn", "model", "run", "busy"} \cup Ends
    /\ rounds \in 0..MaxRounds /\ used \in 0..MaxRequests /\ finalOnly \in BOOLEAN
    /\ index \in [Requests -> 0..Len(entries)] /\ context \subseteq DOMAIN entries
    /\ batch \in Seq(Requests) /\ wanted \in 0..Len(entries)

Executions == Cardinality({r \in Requests : executed[r] > 0})

-----------------------------------------------------------------------------
(* EvidenceWorkspace                                                       *)

Omitted(r) == Size[r] > MaxResult
FullSize(i) == IF Omitted(entries[i].request) THEN 1 ELSE Size[entries[i].request]

Total(sizes) ==
    LET upTo[n \in 0..Len(sizes)] == IF n = 0 THEN 0 ELSE upTo[n - 1] + sizes[n]
    IN  upTo[Len(sizes)]

\* Of the manifest with the given records supplied in full.
Cost(shown) == Total([i \in DOMAIN entries |-> IF i \in shown THEN FullSize(i) ELSE 1])

\* Mutant of Fits: the manifest of what is not shown is not counted.
FitsUncounted(shown) == MapThenSumSet(FullSize, shown) <= MaxContext

Fits(shown) == Cost(shown) <= MaxContext

Rank(i) == IF entries[i].again THEN 4 ELSE Priority[entries[i].request]
Before(i, j) == Rank(i) > Rank(j) \/ (Rank(i) = Rank(j) /\ entries[i].touched > entries[j].touched)

MostWanted(left) == CHOOSE i \in left : \A j \in left \ {i} : Before(i, j)

\* Every record that still fits beside the manifest of the others, the most
\* wanted first.
Selection ==
    LET upTo[n \in 0..Len(entries)] ==
          IF n = 0 THEN [shown |-> {}, left |-> DOMAIN entries]
          ELSE LET sofar == upTo[n - 1]
                   i == MostWanted(sofar.left) IN
               [shown |-> IF Fits(sofar.shown \cup {i}) THEN sofar.shown \cup {i} ELSE sofar.shown,
                left  |-> sofar.left \ {i}]
    IN  upTo[Len(entries)].shown

\* The clock of the workspace moves with every request of a batch.
Clock == used - Len(batch)

Touch(i, again) == entries' = [entries EXCEPT ![i].touched = Clock, ![i].again = @ \/ again]

Activate(r) ==
    /\ Touch(index[r], TRUE)
    /\ wanted' = index[r]
    /\ UNCHANGED <<index, executed>>

\* A deliberate read is wanted unless something was asked for again, which
\* this result may be.
NowWanted(i, r, again) ==
    wanted' = IF again \/ (Priority[r] = Read /\ (wanted = 0 \/ ~entries[wanted].again)) THEN i ELSE wanted

\* The entry with the same identity, 0 for none; an omitted one has none.
Twin(r) ==
    LET twins == {q \in Requests : index[q] # 0 /\ Identity[q] = Identity[r] /\ ~Omitted(q)} IN
    IF twins = {} THEN 0 ELSE index[CHOOSE q \in twins : TRUE]

Add(r) ==
    /\ IF Twin(r) # 0
       THEN Touch(Twin(r), FALSE) /\ index' = [index EXCEPT ![r] = Twin(r)] /\ NowWanted(Twin(r), r, entries[Twin(r)].again)
       ELSE /\ entries' = Append(entries, [request |-> r, touched |-> Clock, again |-> FALSE])
            /\ index' = [index EXCEPT ![r] = Len(entries) + 1]
            /\ NowWanted(Len(entries) + 1, r, FALSE)
    /\ UNCHANGED executed

-----------------------------------------------------------------------------
(* EvidenceLoop.run: control.remaining() stands before and after all that  *)
(* takes time.                                                             *)

Stops == cancelled /\ at' = "cancelled"

\* select() renders the context of this turn and forgets the reactivations.
Turn ==
    /\ at = "turn"
    /\ \/ Stops /\ UNCHANGED <<budget, store, context>>
       \/ /\ ~cancelled
          /\ at' = "model" /\ turns' = turns + 1
          /\ context' = Selection
          /\ entries' = [i \in DOMAIN entries |-> [entries[i] EXCEPT !.again = FALSE]]
          /\ UNCHANGED <<rounds, used, finalOnly, index, executed, wanted>>
    /\ UNCHANGED <<batch, cancelled, before>>

\* session.validate: a handle must have been issued.
Valid(r) == \A q \in Needs[r] : executed[q] > 0

\* _parse_turn: the batches a turn may ask for.
Batches == UNION {[1..n -> Requests] : n \in 1..MaxBatch}

\* An answer, what is no turn at all, or a batch.  A batch that does not fit
\* leaves one turn without tools; one invalid member rejects all of it.
Responds ==
    /\ at = "model"
    /\ wanted' = 0 /\ before' = Executions
    /\ \/ Stops /\ UNCHANGED <<budget, batch>>
       \/ /\ ~cancelled /\ at' \in {"answered", "failed"} /\ UNCHANGED <<budget, batch>>
       \/ /\ ~cancelled /\ finalOnly /\ at' = "limit" /\ UNCHANGED <<budget, batch>>
       \/ /\ ~cancelled /\ ~finalOnly
          /\ \E asked \in Batches :
               \/ /\ used + Len(asked) > MaxRequests
                  /\ finalOnly' = TRUE /\ at' = "turn"
                  /\ UNCHANGED <<rounds, used, turns, batch>>
               \/ /\ used + Len(asked) <= MaxRequests
                  /\ \E i \in DOMAIN asked : ~Valid(asked[i])
                  /\ at' = "invalid" /\ UNCHANGED <<budget, batch>>
               \/ /\ used + Len(asked) <= MaxRequests
                  /\ \A i \in DOMAIN asked : Valid(asked[i])
                  /\ rounds' = rounds + 1 /\ used' = used + Len(asked)
                  /\ batch' = asked /\ at' = "run"
                  /\ UNCHANGED <<finalOnly, turns>>
    /\ UNCHANGED <<entries, index, executed, context, cancelled>>

\* The next member: what is cached is not executed again.  Its handles were
\* issued when the batch was validated, and none is revoked.
RunMember ==
    /\ at = "run" /\ batch # <<>>
    /\ \/ Stops /\ UNCHANGED <<store, batch>>
       \/ /\ ~cancelled /\ index[Head(batch)] # 0
          /\ batch' = Tail(batch)
          /\ Activate(Head(batch)) /\ UNCHANGED at
       \/ /\ ~cancelled /\ index[Head(batch)] = 0
          /\ executed' = [executed EXCEPT ![Head(batch)] = @ + 1] /\ at' = "busy"
          /\ UNCHANGED <<entries, index, wanted, batch>>
    /\ UNCHANGED <<budget, context, cancelled, before>>

\* The session raises, or _validate_result does not take its result.
NoResult == at' = "failed" /\ ~cancelled

\* The result, or none, or a cancellation meanwhile.
Executed ==
    /\ at = "busy"
    /\ \/ Stops /\ UNCHANGED <<store, batch>>
       \/ NoResult /\ UNCHANGED <<store, batch>>
       \/ /\ ~cancelled /\ at' = "run"
          /\ batch' = Tail(batch)
          /\ Add(Head(batch))
    /\ UNCHANGED <<budget, context, cancelled, before>>

BatchEnds ==
    /\ at = "run" /\ batch = <<>>
    /\ finalOnly' = (finalOnly \/ rounds >= MaxRounds \/ used >= MaxRequests)
    /\ at' = "turn"
    /\ UNCHANGED <<rounds, used, turns, store, context, batch, cancelled, before>>

CancelQuestion ==
    /\ ~cancelled /\ cancelled' = TRUE
    /\ UNCHANGED <<at, budget, store, context, batch, before>>

Init ==
    /\ at = "turn" /\ rounds = 0 /\ used = 0 /\ finalOnly = FALSE
    /\ entries = <<>> /\ index = [r \in Requests |-> 0] /\ context = {}
    /\ batch = <<>> /\ executed = [r \in Requests |-> 0] /\ turns = 0
    /\ cancelled = FALSE /\ wanted = 0 /\ before = 0

Next == Turn \/ Responds \/ RunMember \/ Executed \/ BatchEnds \/ CancelQuestion

Spec == Init /\ [][Next]_vars

-----------------------------------------------------------------------------
(* Property.                                                               *)

\* However the model behaves, its evidence is accounted for: the prompt stays
\* within the limit, manifest included; no request is executed twice; the
\* turns are bounded; a batch with an invalid member has executed nothing of
\* itself; and what the model has asked for last, again or as a deliberate
\* read, is really before it in the next turn and has not been evicted.
EvidenceIsAccounted ==
    /\ Cost(context) <= MaxContext \/ at # "model"
    /\ \A r \in Requests : executed[r] <= 1
    /\ turns <= MaxRounds + 1
    /\ at = "invalid" => Executions = before
    /\ at = "model" /\ wanted # 0 => wanted \in context
=============================================================================
