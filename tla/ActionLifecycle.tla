--------------------------- MODULE ActionLifecycle ---------------------------
(***************************************************************************)
(* What the broker promises for the actions it owns, without sessions,     *)
(* rooms, clocks or switches: the docstring of actions.py ("Own the        *)
(* complete lifecycle") and wiki/project/Safety.md read as a protocol.     *)
(* An action is offered, the player consents when consent is needed, it is *)
(* sent at most once and then reported on; until it is sent it may be      *)
(* withdrawn, and from the moment it is stopped it is never sent.          *)
(* One step may move several actions, but sends at most one of them.       *)
(***************************************************************************)
EXTENDS Naturals

CONSTANT Ids

VARIABLES phase, stopped

lifecycleVars == <<phase, stopped>>

Phases == {"absent", "awaiting", "ready", "sent", "reported", "withdrawn"}

Offer(i) == phase[i] = "absent" /\ phase'[i] \in {"awaiting", "ready"} /\ ~stopped'[i]

Consent(i) == phase[i] = "awaiting" /\ phase'[i] = "ready" /\ ~stopped'[i]

Send(i) == phase[i] = "ready" /\ phase'[i] = "sent" /\ ~stopped[i] /\ ~stopped'[i]

Report(i) == phase[i] = "sent" /\ phase'[i] = "reported" /\ stopped'[i] = stopped[i]

\* Withdrawing may leave a stop marker, and only withdrawn or sent work has one.
WithdrawOne(i) == phase[i] \in {"awaiting", "ready"} /\ phase'[i] = "withdrawn"

Stop(i) ==
    /\ phase[i] \in {"sent", "reported", "withdrawn"}
    /\ phase'[i] = phase[i]
    /\ stopped'[i]

Keep(i) == phase'[i] = phase[i] /\ stopped'[i] = stopped[i]

Init ==
    /\ phase = [i \in Ids |-> "absent"]
    /\ stopped = [i \in Ids |-> FALSE]

Next ==
    /\ phase' \in [Ids -> Phases]
    /\ stopped' \in [Ids -> BOOLEAN]
    /\ \A i \in Ids : \/ Offer(i) \/ Consent(i) \/ Send(i) \/ Report(i)
                      \/ WithdrawOne(i) \/ Stop(i) \/ Keep(i)
    /\ \A i, j \in Ids : Send(i) /\ Send(j) => i = j

Spec == Init /\ [][Next]_lifecycleVars
=============================================================================
