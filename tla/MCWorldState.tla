---------------------------- MODULE MCWorldState ----------------------------
(* Instances of WorldStateWatch for TLC.                                   *)
EXTENDS WorldStateWatch
=============================================================================
