-------------------------- MODULE MCActionDelivery --------------------------
(* Instances of ActionDelivery for TLC.                                    *)
EXTENDS ActionDelivery, TLC

CONSTANTS r1, r2

MCRooms == {r1, r2}
MCSymmetry == Permutations(MCRooms)
=============================================================================
