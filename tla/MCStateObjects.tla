----------------------------- MODULE MCStateObjects -----------------------------
(***************************************************************************)
(* StateObjects for TLC: two ids, and a text without a path (which          *)
(* subscribes, and is not valid).                                           *)
(***************************************************************************)
EXTENDS StateObjects, TLC

Texts == {<<"a", ":", "/", "a">>, <<"a", ":", "/", "*">>, <<"a">>}

\* State objects are opaque.
SymmetricObjects == Permutations(Object)

================================================================================
