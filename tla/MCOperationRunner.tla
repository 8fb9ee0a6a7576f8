-------------------------- MODULE MCOperationRunner --------------------------
(* OperationRunner with one character: one operation of any kind under     *)
(* every client, or an outing and the operation after it, which the first  *)
(* one's handoff and eviction from the history concern, with no other      *)
(* client than the bridge and with actions left on.                        *)
EXTENDS OperationRunner, Sequences

VARIABLE plan  \* the kinds of the operations asked for

planVars == <<runnerVars, plan>>

Plans ==
    {<<k>> : k \in OperationKinds}
    \cup {<<"refuge", k>> : k \in OperationKinds \cap {"refuge", "travel"}}

Alone == Len(plan) = 1

PlanInit == RunnerInit /\ plan \in Plans

PlanNext ==
    /\ UNCHANGED plan
    /\ \/ \E o \in DOMAIN plan, c \in Characters, d \in Time :
            (Alone \/ d = Horizon) /\ Create(o, c, plan[o], d)
       \/ \E o \in Created : Worker(o) \/ (Alone /\ Client(o))
       \/ Outside /\ (Alone \/ enabled \subseteq enabled')
       \/ Clock

PlanSpec == PlanInit /\ [][PlanNext]_planVars

\* The fairness of FairRunnerSpec.
FairPlanSpec ==
    /\ PlanSpec
    /\ WF_planVars(Clock /\ UNCHANGED plan)
    /\ \A o \in Ops : WF_planVars(o \in Created /\ Worker(o) /\ UNCHANGED plan)
=============================================================================
