----------------------------- MODULE MCProcess -----------------------------
(* Instances of Process for TLC. Constants are given in the .cfg files.     *)
EXTENDS Process
=============================================================================
