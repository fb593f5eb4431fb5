---------------------------- MODULE MCPempServer ----------------------------
(* Instances of PempServer for TLC. *)
EXTENDS PempServer, TLC

\* The entries of clientThreads_ are interchangeable.
Slots == Permutations(Client)
=============================================================================
