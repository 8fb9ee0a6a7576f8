------------------------ MODULE MCSnapshotPublication ------------------------
(* Instances of SnapshotPublication for TLC.                               *)
EXTENDS SnapshotPublication, TLC

CONSTANTS g1, g2, t1, t2, calm, alarm

MCGenerations == {g1, g2}
MCOneGeneration == {g1}
MCThreads == {t1, t2}
MCOneThread == {t1}
MCContents == {calm, alarm}
MCAlarming == {alarm}
MCSymmetry == Permutations(MCGenerations) \cup Permutations(MCThreads)
=============================================================================
