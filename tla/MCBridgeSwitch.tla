---------------------------- MODULE MCBridgeSwitch ----------------------------
(* BridgeSwitch on small bounds: every order of a few commands, their      *)
(* workers and answers, with one restart and one lost request.             *)
EXTENDS BridgeSwitch
=============================================================================
