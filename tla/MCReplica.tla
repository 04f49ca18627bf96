------------------------------ MODULE MCReplica ------------------------------
(***************************************************************************)
(* Replica with two clients.                                               *)
(***************************************************************************)
EXTENDS Replica, TLC

\* Clients and elements are interchangeable.
SymmetricValues == Permutations(Client) \cup Permutations(Elem)

================================================================================
