----------------------------- MODULE MCEncoder -----------------------------
(* Instances of Encoder for TLC. Constants are given in the .cfg files.     *)
EXTENDS Encoder
=============================================================================
