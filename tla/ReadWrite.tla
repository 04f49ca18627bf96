------------------------------- MODULE ReadWrite -------------------------------
(***************************************************************************)
(* The read and write requests over several nodes: the handlers of the      *)
(* replicator (src/replicator_actor.cpp) and of the replicas, and the       *)
(* reader and writer actors they spawn (caf/crdt/detail/replica.hpp).       *)
(*                                                                          *)
(* One id, a gset, with a replica on every node.  A write adds an element   *)
(* of its own, named by the number of the request.  The way of a request    *)
(* through the replicator and the replica to its reader or writer is one    *)
(* step: only the set of nodes taken from the distribution layer can age    *)
(* on it, and that set may be any set here.  The way of read_local_atom and *)
(* write_local_atom through a replicator to its replica is one step too.    *)
(* The other updates of the replicas are left out; they add elements only.  *)
(* A lost message is one that stays in `wire`, and so does an answer to a   *)
(* reader or writer that has quit.                                          *)
(***************************************************************************)
EXTENDS Naturals, Sequences, FiniteSets

CONSTANTS
  Node,     \* handles of the replicators, as positive numbers in their order
  View,     \* sets of handles that get_intrested may return
  K,        \* the numbers of nodes that clients ask for
  SizeT,    \* values of size_t
  MaxOps,   \* bound: requests
  MaxTimeouts   \* bound: requests that time out

ASSUME NodesAreHandles == Node \subseteq Nat \ {0} /\ IsFiniteSet(Node)
ASSUME ViewsAreHandles == View \subseteq SUBSET (Node \cup {0})
ASSUME KIsNat == K \subseteq Nat
ASSUME CountersFit == SizeT \in Nat /\ SizeT > Cardinality(Node) + 2
ASSUME BoundsAreNat == MaxOps \in Nat /\ MaxTimeouts \in Nat

VARIABLES
  ops,       \* the requests so far, each with its reader or writer
  wire,      \* messages between readers and writers and the replicators
  mailbox,   \* mailbox[n] : what the replica on n has to handle
  cvrdt      \* cvrdt[n] : the writes in the state of the replica on n

vars == <<ops, wire, mailbox, cvrdt>>

\* The invalid handle of a node whose lookup failed (see DistributionLayer);
\* the order of handles puts it first.
Invalid == 0

Handle == Node \cup {Invalid}

OpId == 1 .. MaxOps

Rules == [rule : {"all", "majority"}] \cup [rule : {"k"}, k : K]

\* Fault: half of the nodes are taken for a majority of them.
NeededHalf(rule, to) ==
  CASE rule.rule = "all"      -> Cardinality(to)
    [] rule.rule = "majority" -> Cardinality(to) \div 2
    [] rule.rule = "k"        -> IF Cardinality(to) < rule.k THEN Cardinality(to)
                                 ELSE rule.k

\* messages_left at the start, for the handles `to`.
Needed(rule, to) ==
  CASE rule.rule = "all"      -> Cardinality(to)
    [] rule.rule = "majority" -> Cardinality(to) \div 2 + 1
    [] rule.rule = "k"        -> IF Cardinality(to) < rule.k THEN Cardinality(to)
                                 ELSE rule.k

\* Fault: the number sent is counted before the sending.
ContactedFewer(k, to) ==
  IF k = 0 THEN to
  ELSE {h \in to : Cardinality({g \in to : g < h}) + 1 < k}

\* The loops of send_write and send_read stop when the number sent reaches k:
\* the first k handles, and for k = 0 all of them.
Contacted(k, to) ==
  IF k = 0 THEN to
  ELSE {h \in to : Cardinality({g \in to : g < h}) < k}

Op == [kind : {"read", "write"}, to : SUBSET Handle,
       rule : Rules, left : 0 .. SizeT - 1, crdt : SUBSET OpId,
       status : {"waiting", "succeeded", "timeout", "unexpected"},
       after : SUBSET OpId]

Message ==
  [type : {"write_local", "read_local", "write_succeed"}, op : OpId, at : Node]
    \cup [type : {"read_succeed"}, op : OpId, at : Node, crdt : SUBSET OpId]

ReplicaMessage == [type : {"write_local", "read_local", "publish"}, op : OpId]

TypeOK ==
  /\ ops \in Seq(Op) /\ Len(ops) <= MaxOps
  /\ wire \in SUBSET Message
  /\ mailbox \in [Node -> Seq(ReplicaMessage)]
  /\ cvrdt \in [Node -> SUBSET OpId]

Init ==
  /\ ops = <<>>
  /\ wire = {}
  /\ mailbox = [n \in Node |-> <<>>]
  /\ cvrdt = [n \in Node |-> {}]

Waiting(i) == i \in DOMAIN ops /\ ops[i].status = "waiting"

Completed == {i \in DOMAIN ops : ops[i].status = "succeeded"}

Succeeded(kind) == {i \in Completed : ops[i].kind = kind}

--------------------------------------------------------------------------------

NewOp(kind, to, rule, status) ==
  [kind |-> kind, to |-> to, rule |-> rule, left |-> Needed(rule, to),
   crdt |-> {}, status |-> status, after |-> Completed]

\* Spawn a reader or writer, which sends to the first handles; what goes to the
\* invalid handle is dropped.  `others` are the handles get_intrested returned.
Spawn(kind, n, others, rule, type) ==
  LET to == others \cup {n}
  IN  /\ Len(ops) < MaxOps
      /\ ops' = Append(ops, NewOp(kind, to, rule, "waiting"))
      /\ wire' = wire \cup
           {[type |-> type, op |-> Len(ops) + 1, at |-> m] :
              m \in Contacted(Needed(rule, to), to) \ {Invalid}}
      /\ UNCHANGED <<mailbox, cvrdt>>

\* read_all_atom, read_majority_atom, read_k_atom.
RequestRead(n) ==
  \E others \in View : \E rule \in Rules :
    Spawn("read", n, others, rule, "read_local")

\* write_all_atom, write_majority_atom.
RequestWrite(n) ==
  \E others \in View : \E rule \in [rule : {"all", "majority"}] :
    Spawn("write", n, others, rule, "write_local")

\* write_k_atom: the replicator forwards write_all_atom with an argument too
\* many; the replica has no handler for it and the request fails.
RequestWriteK(n) ==
  \E others \in View : \E rule \in [rule : {"k"}, k : K] :
    /\ Len(ops) < MaxOps
    /\ ops' = Append(ops, NewOp("write", others \cup {n}, rule, "unexpected"))
    /\ UNCHANGED <<wire, mailbox, cvrdt>>

--------------------------------------------------------------------------------

\* A replicator forwards a message to its replica.
Arrive(m) ==
  /\ m \in wire
  /\ m.type \in {"write_local", "read_local"}
  /\ wire' = wire \ {m}
  /\ mailbox' = [mailbox EXCEPT ![m.at] = Append(@, [type |-> m.type, op |-> m.op])]
  /\ UNCHANGED <<ops, cvrdt>>

Handles(n, type) == mailbox[n] # <<>> /\ Head(mailbox[n]).type = type

\* write_local_atom: acknowledge, and publish to oneself.
OnWriteLocal(n) ==
  /\ Handles(n, "write_local")
  /\ LET i == Head(mailbox[n]).op
     IN  /\ mailbox' = [mailbox EXCEPT ![n] =
                          Append(Tail(@), [type |-> "publish", op |-> i])]
         /\ wire' = wire \cup {[type |-> "write_succeed", op |-> i, at |-> n]}
  /\ UNCHANGED <<ops, cvrdt>>

\* read_local_atom.
OnReadLocal(n) ==
  /\ Handles(n, "read_local")
  /\ mailbox' = [mailbox EXCEPT ![n] = Tail(@)]
  /\ wire' = wire \cup {[type |-> "read_succeed", op |-> Head(mailbox[n]).op,
                         at |-> n, crdt |-> cvrdt[n]]}
  /\ UNCHANGED <<ops, cvrdt>>

\* publish_atom: merge.
OnPublish(n) ==
  /\ Handles(n, "publish")
  /\ mailbox' = [mailbox EXCEPT ![n] = Tail(@)]
  /\ cvrdt' = [cvrdt EXCEPT ![n] = @ \cup {Head(mailbox[n]).op}]
  /\ UNCHANGED <<ops, wire>>

--------------------------------------------------------------------------------

\* Fault: the counter is signed.
CountedSigned(op) ==
  [op EXCEPT !.left = @ - 1, !.status = IF op.left = 1 THEN "succeeded" ELSE @]

\* Fault: the answer is counted after the test.
CountedLate(op) ==
  [op EXCEPT !.left = (@ + SizeT - 1) % SizeT,
             !.status = IF op.left = 0 THEN "succeeded" ELSE @]

\* --messages_left; at 0 the result is delivered and the actor quits.
Counted(op) ==
  LET left == (op.left + SizeT - 1) % SizeT
  IN  [op EXCEPT !.left = left,
                 !.status = IF left = 0 THEN "succeeded" ELSE @]

\* Fault: the reader keeps the last answer only.
AnsweredReplacing(op, m) ==
  IF m.type = "read_succeed" THEN [op EXCEPT !.crdt = m.crdt] ELSE op

\* What a reader merges and a writer ignores.
Answered(op, m) ==
  IF m.type = "read_succeed" THEN [op EXCEPT !.crdt = @ \cup m.crdt] ELSE op

\* write_succeed_atom at the writer, read_succeed_atom at the reader.
OnAnswer(m) ==
  /\ m \in wire
  /\ m.type \in {"write_succeed", "read_succeed"}
  /\ Waiting(m.op)
  /\ wire' = wire \ {m}
  /\ ops' = [ops EXCEPT ![m.op] = Counted(Answered(@, m))]
  /\ UNCHANGED <<mailbox, cvrdt>>

TimedOut == {i \in DOMAIN ops : ops[i].status = "timeout"}

\* Fault: the reader or writer does not quit after its last answer.
TimeoutAfterResult(i) ==
  /\ i \in DOMAIN ops /\ ops[i].status \in {"waiting", "succeeded"}
  /\ Cardinality(TimedOut) < MaxTimeouts
  /\ ops' = [ops EXCEPT ![i].status = "timeout"]
  /\ UNCHANGED <<wire, mailbox, cvrdt>>

\* timeout_atom.
Timeout(i) ==
  /\ Waiting(i)
  /\ Cardinality(TimedOut) < MaxTimeouts
  /\ ops' = [ops EXCEPT ![i].status = "timeout"]
  /\ UNCHANGED <<wire, mailbox, cvrdt>>

OnMailbox(n) == OnWriteLocal(n) \/ OnReadLocal(n) \/ OnPublish(n)

OnWire(m) == Arrive(m) \/ OnAnswer(m)

Next ==
  \/ \E n \in Node : RequestRead(n) \/ RequestWrite(n) \/ RequestWriteK(n) \/ OnMailbox(n)
  \/ \E m \in wire : OnWire(m)
  \/ \E i \in OpId : Timeout(i)

Spec == Init /\ [][Next]_vars

\* Actors with a message run, and messages arrive: as there are finitely many, it is
\* enough that some step of that kind, which changes `wire` or `mailbox`, happens while
\* one can.  Nothing is assumed of the timers.
Fairness == WF_<<wire, mailbox>>((\E n \in Node : OnMailbox(n)) \/ (\E m \in wire : OnWire(m)))

FairSpec == Spec /\ Fairness

--------------------------------------------------------------------------------

\* The replica on n has a write or has it before everything it handles later.
Accepted(i, n) ==
  \/ i \in cvrdt[n]
  \/ \E j \in DOMAIN mailbox[n] : mailbox[n][j] = [type |-> "publish", op |-> i]

\* A write that was reported as successful was accepted by all nodes of the
\* requesting node's view, or by more than half of them, as the client asked:
\* answers are counted once per node and none is taken for another.
SuccessMeansAccepted ==
  \A i \in Succeeded("write") :
    LET accepted == {n \in ops[i].to \cap Node : Accepted(i, n)}
    IN  CASE ops[i].rule.rule = "all"      -> accepted = ops[i].to
          [] ops[i].rule.rule = "majority" ->
               2 * Cardinality(accepted) > Cardinality(ops[i].to)

\* A read that was requested after a write had succeeded sees it when both went
\* by the same set of nodes, whatever the two asked for: although a replica
\* acknowledges a write before it applies it, and a reader asks the first
\* nodes of the set only.
ReadsSeeCompletedWrites ==
  \A r \in Succeeded("read") : \A w \in ops[r].after :
    ops[w].kind = "write" /\ ops[r].to = ops[w].to => w \in ops[r].crdt

\* The handles that a request with some rule sends to.
Quorum == [rule \in Rules |-> [to \in SUBSET Handle |-> Contacted(Needed(rule, to), to)]]

\* What the clients see of the requests, and what they have been told: nothing that they
\* can use before the end.
Requests ==
  [i \in DOMAIN ops |->
     [kind |-> ops[i].kind, quorum |-> Quorum[ops[i].rule][ops[i].to],
      after |-> ops[i].after]]

Outcome ==
  [i \in DOMAIN ops |->
     [status |-> ops[i].status,
      result |-> IF i \in Succeeded("read") THEN ops[i].crdt ELSE {}]]

Quorums == INSTANCE QuorumSet WITH requests <- Requests, outcome <- Outcome

\* The requests implement the set with quorums: whatever the views of the nodes that
\* request, a read sees the writes that were complete when it was requested if one
\* node was asked by both, and it sees what an earlier read saw if it asks everybody
\* that one did; a client is told one result, and once.
ImplementsQuorums == Quorums!Spec

\* No request waits for nothing: while its result is due, a message to one of the
\* nodes it asks or from it is on its way, or waits at the replica there.  Only the
\* timeout ends a request that asks an invalid handle, or 0 nodes.
WaitingIsOwed ==
  \A i \in OpId : Waiting(i) =>
    \/ Invalid \in ops[i].to \/ ops[i].rule = [rule |-> "k", k |-> 0]
    \/ \E m \in wire : m.op = i
    \/ \E n \in Node : \E j \in DOMAIN mailbox[n] :
         mailbox[n][j].op = i /\ mailbox[n][j].type # "publish"

\* A request that asks only nodes that can be reached is answered when no
\* message is lost; the timeout is not needed for it.  Asking 0 nodes is the
\* exception: messages_left wraps around at the first answer.  (A request is made
\* once and no request waits twice, so "always, sooner or later" is "in the end".)
RequestsComplete ==
  <>[](\A i \in OpId :
         Waiting(i) => Invalid \in ops[i].to \/ ops[i].rule = [rule |-> "k", k |-> 0])

================================================================================
