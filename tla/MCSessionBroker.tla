-------------------------- MODULE MCSessionBroker --------------------------
(* Instances of SessionBroker for TLC. *)
EXTENDS SessionBroker, TLC

(* The identifiers, sessions and clients of an instance are interchangeable.*)
Symmetry ==
  Permutations(Threads) \cup Permutations(Pendings) \cup
  Permutations(Sessions) \cup Permutations(Clients)
=============================================================================
