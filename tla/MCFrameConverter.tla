-------------------------- MODULE MCFrameConverter --------------------------
(* Instances of FrameConverter for TLC. Constants are given in the .cfg      *)
(* files.                                                                    *)
EXTENDS FrameConverter, TLC

Symmetry == Permutations(Workers)
=============================================================================
