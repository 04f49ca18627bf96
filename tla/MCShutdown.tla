------------------------------- MODULE MCShutdown -------------------------------
(***************************************************************************)
(* Shutdown on a line of three nodes: the outer ones have no handle of each *)
(* other.                                                                   *)
(***************************************************************************)
EXTENDS Shutdown

CONSTANTS n1, n2, n3

Line == [n \in Node |-> IF n = n2 THEN {n1, n3} ELSE {n2}]

================================================================================
