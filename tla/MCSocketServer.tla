--------------------------- MODULE MCSocketServer ---------------------------
(* Instances of SocketServer for TLC. Constants are given in the .cfg files. *)
EXTENDS SocketServer, TLC

Symmetry == Permutations(Clients)
=============================================================================
