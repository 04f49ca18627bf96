------------------------------ MODULE MCReplication ------------------------------
(***************************************************************************)
(* Replication for TLC, with nodes that all know each other.                *)
(***************************************************************************)
EXTENDS Replication

Mesh == [n \in Node |-> Node \ {n}]

================================================================================
