----------------------------- MODULE GrowOnlyStore -----------------------------
(***************************************************************************)
(* What replication promises for one id: every node has a share of one      *)
(* grow-only map.  A node may raise a value, and may learn what some node   *)
(* has; nothing else appears in a share, and nothing disappears from it.    *)
(***************************************************************************)
EXTENDS GrowOnlyTypes

CONSTANTS Node, Key, Value

VARIABLE share   \* share[n] : the map as n knows it

Map == UNION {[K -> Value] : K \in SUBSET Key}

Has(n, k, v) == k \in DOMAIN share[n] /\ v <= share[n][k]

Init == share = [n \in Node |-> EmptyMap]

Update(n) ==
  \E k \in Key : \E v \in Value :
    /\ SetAssigns(share[n], k, v)
    /\ share' = [share EXCEPT ![n] = Merge(@, Entry(k, v))]

Learn(n) ==
  /\ share'[n] \in Map
  /\ Includes(share'[n], share[n])
  /\ \A k \in DOMAIN share'[n] : \E m \in Node : Has(m, k, share'[n][k])
  /\ share' = [share EXCEPT ![n] = share'[n]]

Next == share' # share /\ \E n \in Node : Update(n) \/ Learn(n)

Spec == Init /\ [][Next]_share

================================================================================
