--------------------------- MODULE MCActionBroker ---------------------------
(* Instances of ActionBroker for TLC.                                      *)
EXTENDS ActionBroker
=============================================================================
