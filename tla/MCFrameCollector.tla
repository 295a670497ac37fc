-------------------------- MODULE MCFrameCollector --------------------------
(* Small instances of FrameCollector, kept apart by task symmetry.            *)
EXTENDS FrameCollector, TLC

TaskSymmetry == Permutations(Task)
=============================================================================
