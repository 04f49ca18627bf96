------------------------------ MODULE MCReplicator ------------------------------
(***************************************************************************)
(* Replicator for TLC, with all types registered on all nodes.             *)
(***************************************************************************)
EXTENDS Replicator

Everywhere == [n \in Node |-> Uri]

================================================================================
