------------------------------- MODULE ItemAudit -------------------------------
(***************************************************************************)
(* The item.audit capability of operations.py: diagnostics on one exact    *)
(* item, which is taken in hand for the spells and must come back to where *)
(* it was, or after a failure to the safest place that is known to be the  *)
(* character's own.  Every step goes through the broker, so commands are   *)
(* delivered late, fail, or are carried out after the audit has given up.  *)
(*                                                                         *)
(* The item is where it is: "pack" and "chest" are the character's own     *)
(* containers, "ground" is nobody's, "lost" stands for an item that is not *)
(* found, found twice, or has another fingerprint.                         *)
(***************************************************************************)
EXTENDS Naturals, Sequences

CONSTANTS
    PlainMethods, SpellMethods,  \* the requested diagnostics, in their order
    Safest,                      \* safest_owned_locations when it is known
    Restorable                   \* the locations with a restore command

Owned == {"pack", "hand", "chest"}
Rank == [pack |-> 1, hand |-> 0, chest |-> 2]   \* safety_rank

Methods == {PlainMethods[i] : i \in DOMAIN PlainMethods} \cup {SpellMethods[i] : i \in DOMAIN SpellMethods}

\* Assumed of the constants: a diagnostic is never mistaken for a move.
AuditConstants ==
    /\ Safest \subseteq Owned /\ Restorable \subseteq Owned
    /\ PlainMethods \in Seq(Methods) /\ SpellMethods \in Seq(Methods)
    /\ Methods \cap ({"take", "restore"} \cup Owned) = {}

VARIABLES
    item,      \* where the item is
    replaced,  \* the session is no longer the bound one
    origin,    \* binding.original_location, "" before
    todo,      \* the commands still to be run
    command,   \* the action waited for, and its status
    abandoned, \* commands given up while the broker still had them
    produced,  \* diagnostics the game has answered
    evidence,  \* operation.evidence
    stopped,   \* a stop or the deadline: "", "interrupted", "timed_out"
    at,        \* where the worker stands
    alert      \* the last alert

vars == <<item, replaced, origin, todo, command, abandoned, produced, evidence, stopped, at, alert>>

Places == Owned \cup {"ground", "lost"}
Commands == Methods \cup {"take"} \cup Owned
NoCommand == [name |-> "", status |-> "none"]

AuditTypeOK ==
    /\ item \in Places /\ origin \in Owned \cup {""} /\ replaced \in BOOLEAN
    /\ todo \in Seq(Commands \cup {"restore"})
    /\ command = NoCommand \/ command.name \in Commands
    /\ abandoned \subseteq Commands /\ produced \subseteq Methods /\ evidence \subseteq Methods
    /\ stopped \in {"", "interrupted", "timed_out"}
    /\ at \in {"bind", "step", "wait", "look", "clean", "placing", "placed", "succeeded", "ended"}
    /\ alert \in {"", "blocked", "retained", "no command", "secured", "failed"}

game == <<item, replaced, produced, stopped>>
plan == <<origin, todo>>

-----------------------------------------------------------------------------
\* _verify_binding: the same session, the exact item, in a place of one's own.
Bound == ~replaced /\ item \in Owned

Abort == at' = "clean" /\ UNCHANGED <<todo, evidence, alert>>

\* _bind_item and admission; nothing was done yet, nothing is to be cleaned.
Bind ==
    /\ at = "bind"
    /\ IF Bound /\ stopped = ""
       THEN /\ origin' = item /\ at' = "step"
            /\ todo' = PlainMethods \o (IF SpellMethods = <<>> THEN <<>> ELSE <<"take">> \o SpellMethods)
                       \o <<"restore">>
       ELSE at' = "ended" /\ UNCHANGED plan
    /\ UNCHANGED <<game, command, abandoned, evidence, alert>>

\* A take of what is in hand and a restoration of what is home are left out.
Needless(step) == (step = "take" /\ item = "hand") \/ (step = "restore" /\ item = origin)

CommandFor(step) == IF step = "restore" THEN origin ELSE step

Submit(name) == command' = [name |-> name, status |-> "pending"]

\* _run_action_step and _restore_original up to the submission.
Step ==
    /\ at = "step" /\ todo # <<>>
    /\ LET step == Head(todo) IN
       IF ~Bound \/ (stopped # "" /\ ~Needless(step))
          \/ (step = "restore" /\ ~Needless(step) /\ origin \notin Restorable)
       THEN Abort /\ UNCHANGED command
       ELSE IF Needless(step)
       THEN todo' = Tail(todo) /\ UNCHANGED <<command, at, evidence, alert>>
       ELSE Submit(CommandFor(step)) /\ at' = "wait" /\ UNCHANGED <<todo, evidence, alert>>
    /\ UNCHANGED <<game, origin, abandoned>>

\* The broker step ends with the action, or without it when a stop came: the
\* action of an audit is then not withdrawn.
Wait ==
    /\ at = "wait"
    /\ \/ /\ command.status = "completed" /\ at' = "look"
          /\ UNCHANGED <<command, abandoned>>
       \/ /\ command.status = "failed" \/ (command.status \in {"pending", "sent"} /\ stopped # "")
          /\ at' = "clean"
          /\ abandoned' = IF command.status = "pending" THEN abandoned \cup {command.name} ELSE abandoned
          /\ command' = NoCommand
    /\ UNCHANGED <<game, plan, evidence, alert>>

\* An event that registered, attributed evidence asks for has come.
Answered(step) == step \in produced

\* Mutant of Look: what was done is not looked at.
LookAway ==
    /\ at = "look"
    /\ command' = NoCommand
    /\ todo' = Tail(todo) /\ at' = "step"
    /\ evidence' = IF Head(todo) \in Methods THEN evidence \cup {Head(todo)} ELSE evidence
    /\ UNCHANGED <<alert, game, origin, abandoned>>

\* After the step the exact item must show it: the registered evidence was
\* answered, the item is in hand, or it is back home.
Look ==
    /\ at = "look"
    /\ command' = NoCommand
    /\ LET step == Head(todo)
           shown == CASE step = "take" -> item = "hand"
                      [] step = "restore" -> item = origin
                      [] OTHER -> Answered(step) IN
       IF Bound /\ shown
       THEN /\ todo' = Tail(todo) /\ at' = "step"
            /\ evidence' = IF step \in Methods THEN evidence \cup {step} ELSE evidence
            /\ UNCHANGED alert
       ELSE Abort
    /\ UNCHANGED <<game, origin, abandoned>>

\* All steps are done: the last look decides.
Finish ==
    /\ at = "step" /\ todo = <<>>
    /\ IF Bound /\ item = origin THEN at' = "succeeded" /\ UNCHANGED <<todo, evidence, alert>> ELSE Abort
    /\ UNCHANGED <<game, origin, command, abandoned>>

-----------------------------------------------------------------------------
(* _safe_cleanup                                                           *)

Candidates(known) == ({origin} \cup (IF known THEN Safest ELSE {})) \cap Owned
Target(known) == CHOOSE p \in Candidates(known) : \A q \in Candidates(known) : Rank[q] <= Rank[p]

Ended(told) == alert' = told /\ at' = "ended" /\ UNCHANGED command

\* The item stays where it is home, or is placed in the safest place known;
\* after the deadline no command is issued any more.
Clean ==
    /\ at = "clean"
    /\ \E known \in BOOLEAN :
         IF ~Bound THEN Ended("blocked")
         ELSE IF item = origin \/ item = Target(known) THEN Ended("retained")
         ELSE IF stopped = "timed_out" THEN Ended("no command")
         ELSE IF Target(known) \notin Restorable THEN Ended("blocked")
         ELSE Submit(Target(known)) /\ at' = "placing" /\ UNCHANGED alert
    /\ UNCHANGED <<game, plan, abandoned, evidence>>

\* Cleanup waits through an interruption, not past the deadline.
Placing ==
    /\ at = "placing"
    /\ \/ command.status = "completed" /\ at' = "placed" /\ UNCHANGED <<alert, abandoned>>
       \/ /\ command.status = "failed" \/ (command.status \in {"pending", "sent"} /\ stopped = "timed_out")
          /\ alert' = "failed" /\ at' = "ended"
          /\ abandoned' = IF command.status = "pending" THEN abandoned \cup {command.name} ELSE abandoned
    /\ UNCHANGED <<game, plan, command, evidence>>

Placed ==
    /\ at = "placed"
    /\ Ended(IF Bound /\ item = command.name THEN "secured" ELSE "failed")
    /\ UNCHANGED <<game, plan, abandoned, evidence>>

-----------------------------------------------------------------------------
(* The bridge carries commands out, and the game goes on.                  *)

worker == <<plan, at, evidence, alert>>

\* What a command does to the item, if the item is still at hand.
Effect(name) ==
    /\ item' = IF item = "lost" THEN item ELSE IF name = "take" THEN "hand"
               ELSE IF name \in Owned /\ item = "hand" THEN name ELSE item
    /\ produced' = IF name \in Methods /\ item # "lost" THEN produced \cup {name} ELSE produced

Carried ==
    /\ command.status = "pending" /\ at \in {"wait", "placing"}
    /\ Effect(command.name)
    /\ command' = [command EXCEPT !.status = "sent"]
    /\ UNCHANGED <<worker, replaced, abandoned, stopped>>

\* An acknowledgement, or a refusal before anything was sent.
Acknowledged ==
    /\ \/ command.status = "sent" /\ \E s \in {"completed", "failed"} : command' = [command EXCEPT !.status = s]
       \/ command.status = "pending" /\ command' = [command EXCEPT !.status = "failed"]
    /\ UNCHANGED <<worker, game, abandoned>>

\* A command that was given up is delivered after all, or expires.
CarriedLate ==
    /\ \E name \in abandoned :
         /\ abandoned' = abandoned \ {name}
         /\ Effect(name) \/ UNCHANGED <<item, produced>>
    /\ UNCHANGED <<worker, command, replaced, stopped>>

PlayerMoves == item' \in Places /\ UNCHANGED <<worker, command, abandoned, replaced, produced, stopped>>

SessionReplaced ==
    /\ ~replaced /\ replaced' = TRUE
    /\ UNCHANGED <<worker, item, command, abandoned, produced, stopped>>

Stopped ==
    /\ \/ stopped = "" /\ stopped' \in {"interrupted", "timed_out"}
       \/ stopped = "interrupted" /\ stopped' = "timed_out"
    /\ UNCHANGED <<worker, item, command, abandoned, produced, replaced>>

Init ==
    /\ item \in {"pack", "hand"} /\ replaced = FALSE
    /\ origin = "" /\ todo = <<>> /\ command = NoCommand
    /\ abandoned = {} /\ produced = {} /\ evidence = {}
    /\ stopped = "" /\ at = "bind" /\ alert = ""

AuditStep == Bind \/ Step \/ Wait \/ Look \/ Finish \/ Clean \/ Placing \/ Placed

Next ==
    \/ AuditStep
    \/ Carried \/ Acknowledged \/ CarriedLate
    \/ PlayerMoves \/ SessionReplaced \/ Stopped

Spec == Init /\ [][Next]_vars

-----------------------------------------------------------------------------
(* Properties.                                                             *)

\* A step of the audit that ends it tells the truth about the item: success
\* means every diagnostic was answered and the item is home, "secured" and
\* "retained" that it is in a place of its owner; and an item that LAB may
\* have left in the hand is never given up without one of the other alerts,
\* which an interruption alone cannot bring about.
EndsTruthfully ==
    /\ at' = "succeeded" /\ at # at' => item' = origin /\ Methods \subseteq produced
    /\ at = "clean" /\ at' = "ended" =>
         \/ alert' = "retained" /\ (item = origin \/ item \in Safest)
         \/ alert' = "no command" /\ stopped = "timed_out"
         \/ alert' = "blocked" /\ (~Bound \/ origin \notin Restorable \/ ~(Safest \subseteq Restorable))
    /\ alert' = "secured" /\ alert # alert' => item' \in {origin} \cup Safest

AuditEndsTruthfully == [][EndsTruthfully]_vars
=============================================================================
