---------------------------- MODULE ReadWriteProofs ----------------------------
(***************************************************************************)
(* Proofs about ReadWrite for any nodes, views, numbers asked for and      *)
(* bounds: type correctness, that a successful write was accepted by those *)
(* it asked for, that later reads see it, and that the requests implement  *)
(* QuorumSet.                                                              *)
(*                                                                         *)
(* A reader or writer does not count answers per node, it counts answers.  *)
(* So the argument is that a node is asked once (OneOutstanding) and that  *)
(* the counter holds the number of nodes that have still to answer         *)
(* (Counted); as no more nodes are contacted than answers are needed, a    *)
(* request that succeeds has been answered by all of them.                 *)
(***************************************************************************)
EXTENDS ReadWrite, TLAPS, FiniteSetTheorems, WellFoundedInduction

--------------------------------------------------------------------------------
(***************************************************************************)
(* The invariant.                                                          *)
(***************************************************************************)

\* The handles that the reader or writer of i has sent to.
Asked(i) == Contacted(Needed(ops[i].rule, ops[i].to), ops[i].to)

InBox(n) == {mailbox[n][j] : j \in DOMAIN mailbox[n]}

\* Request i waits at the replica on n, in place j.
QueuedIn(i, n, j) == mailbox[n][j].op = i /\ mailbox[n][j].type # "publish"

Queued(i, n) == \E j \in DOMAIN mailbox[n] : QueuedIn(i, n, j)

OnWay(i, n) == \E m \in wire : m.op = i /\ m.at = n

\* The reader or writer of i has still to hear of n.
Outstanding(i, n) == Queued(i, n) \/ OnWay(i, n)

\* The replica on n has still to handle write i.
Requested(i, n) ==
  Queued(i, n) \/ \E m \in wire : m.op = i /\ m.at = n /\ m.type = "write_local"

\* The nodes that the reader or writer of i has heard of.
Done(i) == {n \in Asked(i) \cap Node : ~Outstanding(i, n)}

\* Messages belong to a request of their kind, and to a node that it asks.
MessagesAreAsked ==
  /\ \A m \in wire :
       /\ m.op \in DOMAIN ops /\ m.at \in Asked(m.op)
       /\ ops[m.op].kind = "write" <=> m.type \in {"write_local", "write_succeed"}
  /\ \A n \in Node : \A q \in InBox(n) :
       /\ q.op \in DOMAIN ops /\ n \in Asked(q.op)
       /\ ops[q.op].kind = "write" <=> q.type \in {"write_local", "publish"}

\* Of a request and a node there is one message at the most, on either side.
OneOutstanding ==
  /\ \A m1, m2 \in wire : m1.op = m2.op /\ m1.at = m2.at => m1 = m2
  /\ \A m \in wire : ~Queued(m.op, m.at)
  /\ \A n \in Node : \A j1, j2 \in DOMAIN mailbox[n] :
       /\ mailbox[n][j1].type # "publish" /\ mailbox[n][j2].type # "publish"
       /\ mailbox[n][j1].op = mailbox[n][j2].op
       => j1 = j2

\* The counter of a request that needs `needed` answers and has had `done`.  A
\* request for 0 answers wraps around and never gets to 0 again.
Counter(needed, done) ==
  IF done <= needed THEN needed - done ELSE SizeT + needed - done

AnswersAreCounted ==
  \A i \in DOMAIN ops :
    LET needed == Needed(ops[i].rule, ops[i].to)
        done == Cardinality(Done(i))
    IN  /\ ops[i].status = "waiting" => /\ ops[i].left = Counter(needed, done)
                                        /\ done < needed \/ needed = 0
        /\ ops[i].status = "succeeded" => needed > 0 /\ done = needed

\* A write is for all nodes or for a majority, and what has left for a node has not
\* been forgotten there.
WritesAreKept ==
  \A i \in DOMAIN ops : ops[i].kind = "write" /\ ops[i].status # "unexpected" =>
    /\ ops[i].rule.rule \in {"all", "majority"}
    /\ \A n \in Asked(i) \cap Node : Requested(i, n) \/ Accepted(i, n)

\* The replica on n has write w before it handles what is in place j.
HasBefore(w, n, j) ==
  \/ w \in cvrdt[n]
  \/ \E l \in DOMAIN mailbox[n] : l < j /\ mailbox[n][l] = [type |-> "publish", op |-> w]

\* A read follows the writes that had succeeded when it was requested, at every node
\* that both of them ask.
ReadsFollowWrites ==
  \A r \in DOMAIN ops : \A w \in ops[r].after :
    /\ w \in Completed
    /\ ops[r].kind = "read" /\ ops[w].kind = "write" => \A n \in Asked(r) \cap Asked(w) \cap Node :
         /\ \A j \in DOMAIN mailbox[n] : mailbox[n][j].op = r => HasBefore(w, n, j)
         /\ \A m \in wire : m.op = r /\ m.at = n /\ m.type = "read_succeed" => w \in m.crdt
         /\ n \in Done(r) => w \in ops[r].crdt

IInv ==
  /\ TypeOK /\ MessagesAreAsked /\ OneOutstanding /\ AnswersAreCounted
  /\ WritesAreKept /\ ReadsFollowWrites

--------------------------------------------------------------------------------
(***************************************************************************)
(* Mailboxes, and the sets of nodes that are asked.                        *)
(***************************************************************************)

\* Append adds one message at the end.
LEMMA Appended ==
  ASSUME NEW S, NEW s \in Seq(S), NEW m \in S
  PROVE  /\ Append(s, m) \in Seq(S)
         /\ Len(Append(s, m)) = Len(s) + 1 /\ Len(s) \in Nat
         /\ DOMAIN s = 1 .. Len(s) /\ DOMAIN Append(s, m) = 1 .. Len(s) + 1
         /\ \A i \in 1 .. Len(s) : Append(s, m)[i] = s[i]
         /\ Append(s, m)[Len(s) + 1] = m
OBVIOUS

\* Tail drops the first message and moves the others up.
LEMMA Tailed ==
  ASSUME NEW S, NEW s \in Seq(S), s # <<>>
  PROVE  /\ Tail(s) \in Seq(S)
         /\ Head(s) = s[1] /\ Head(s) \in S
         /\ Len(s) \in Nat \ {0} /\ DOMAIN s = 1 .. Len(s)
         /\ Len(Tail(s)) = Len(s) - 1 /\ DOMAIN Tail(s) = 1 .. Len(s) - 1
         /\ \A i \in 1 .. Len(s) - 1 : Tail(s)[i] = s[i + 1]
OBVIOUS

\* A set of handles is finite, and its size and what is needed fit in a size_t.
LEMMA HandlesAreFew ==
  ASSUME NEW to \in SUBSET Handle
  PROVE  /\ IsFiniteSet(to) /\ to \subseteq Nat
         /\ Cardinality(to) \in Nat /\ Cardinality(to) <= Cardinality(Node) + 1
         /\ Cardinality(Node) \in Nat
<1>1. IsFiniteSet(Handle) /\ Cardinality(Handle) <= Cardinality(Node) + 1
      /\ Cardinality(Node) \in Nat /\ Cardinality(Handle) \in Nat
  <2>1. IsFiniteSet(Node) /\ Cardinality(Node) \in Nat
    BY NodesAreHandles, FS_CardinalityType
  <2>2. /\ IsFiniteSet(Node \cup {Invalid})
        /\ \/ Cardinality(Node \cup {Invalid}) = Cardinality(Node)
           \/ Cardinality(Node \cup {Invalid}) = Cardinality(Node) + 1
    BY <2>1, FS_AddElement
  <2>3. QED
    BY <2>1, <2>2 DEF Handle
<1>2. Handle \subseteq Nat
  BY NodesAreHandles DEF Handle, Invalid
<1>3. IsFiniteSet(to) /\ Cardinality(to) <= Cardinality(Handle)
  BY <1>1, FS_Subset
<1>4. QED
  BY <1>1, <1>2, <1>3, FS_CardinalityType

LEMMA HalfOf ==
  ASSUME NEW c \in Nat
  PROVE  c \div 2 \in Nat /\ c \div 2 <= c /\ 2 * (c \div 2 + 1) > c
OBVIOUS

LEMMA NeededFits ==
  ASSUME NEW to \in SUBSET Handle, NEW rule \in Rules
  PROVE  /\ Needed(rule, to) \in 0 .. SizeT - 1
         /\ SizeT \in Nat /\ SizeT > Cardinality(Node) + 2
<1>1. Cardinality(to) \in Nat /\ Cardinality(to) <= Cardinality(Node) + 1
      /\ Cardinality(Node) \in Nat
  BY HandlesAreFew
<1>2. CASE rule.rule = "all"
  BY <1>1, <1>2, CountersFit DEF Needed
<1>3. CASE rule.rule = "majority"
  <2>1. Cardinality(to) \div 2 + 1 \in Nat
        /\ Cardinality(to) \div 2 + 1 <= Cardinality(Node) + 2
    BY <1>1, HalfOf
  <2>2. Needed(rule, to) = Cardinality(to) \div 2 + 1
    BY <1>3 DEF Needed
  <2>3. QED
    BY <1>1, <2>1, <2>2, CountersFit
<1>4. CASE rule.rule = "k"
  <2>1. rule.k \in Nat
    BY <1>4, KIsNat DEF Rules
  <2>2. Needed(rule, to) = IF Cardinality(to) < rule.k THEN Cardinality(to) ELSE rule.k
    BY <1>4 DEF Needed
  <2>3. QED
    BY <1>1, <2>1, <2>2, CountersFit
<1>5. QED
  BY <1>2, <1>3, <1>4 DEF Rules

\* The loops send to k handles at the most.
LEMMA ContactedBound ==
  ASSUME NEW to \in SUBSET Handle, NEW k \in Nat \ {0}
  PROVE  Cardinality(Contacted(k, to)) <= k
<1> DEFINE C == Contacted(k, to)
           Below(h) == {g \in to : g < h}
           f == [h \in C |-> Cardinality(Below(h))]
<1>1. C = {h \in to : Cardinality(Below(h)) < k}
  BY DEF Contacted
<1>2. IsFiniteSet(to) /\ to \subseteq Nat
  BY HandlesAreFew
<1>3. \A h \in to : IsFiniteSet(Below(h)) /\ Cardinality(Below(h)) \in Nat
  BY <1>2, FS_Subset, FS_CardinalityType
<1>4. f \in [C -> 0 .. k - 1]
  BY <1>1, <1>3
<1>5. ASSUME NEW g \in C, NEW h \in C, g < h
      PROVE  f[g] # f[h]
  <2>1. g \in to /\ h \in to
    BY <1>1
  <2>2. Below(g) \subseteq Below(h) /\ g \in Below(h) /\ g \notin Below(g)
    <3>1. \A x \in Nat : x < g => x < h
      BY <1>2, <1>5, <2>1
    <3>2. ~(g < g)
      BY <1>2, <2>1
    <3>3. QED
      BY <1>2, <1>5, <2>1, <3>1, <3>2
  <2>3. Cardinality(Below(g)) # Cardinality(Below(h))
    BY <1>3, <2>1, <2>2, FS_Subset
  <2>4. QED
    BY <2>3
<1>6. \A g, h \in C : g # h => f[g] # f[h]
  <2>1. \A g, h \in Nat : g # h => g < h \/ h < g
    OBVIOUS
  <2>2. C \subseteq Nat
    BY <1>1, <1>2
  <2>3. QED
    BY <1>5, <2>1, <2>2
<1>7. f \in Injection(C, 0 .. k - 1)
  BY <1>4, <1>6 DEF Injection, IsInjective
<1>8. IsFiniteSet(0 .. k - 1) /\ Cardinality(0 .. k - 1) = k
  BY FS_Interval
<1>9. QED
  BY <1>7, <1>8, FS_Injection

\* Who asks for more nodes asks those that the others ask.
LEMMA ContactedNested ==
  ASSUME NEW to \in SUBSET Handle, NEW j \in Nat \ {0}, NEW k \in Nat \ {0}, j <= k
  PROVE  Contacted(j, to) \subseteq Contacted(k, to)
<1>1. IsFiniteSet(to)
  BY HandlesAreFew
<1>2. \A h \in to : Cardinality({g \in to : g < h}) \in Nat
  BY <1>1, FS_Subset, FS_CardinalityType
<1>3. QED
  BY <1>2 DEF Contacted

\* ... and to k of them, if there are as many: the lowest handle that was left out has k
\* handles before it.
LEMMA ContactedReaches ==
  ASSUME NEW to \in SUBSET Handle, NEW k \in Nat \ {0}
  PROVE  Contacted(k, to) = to \/ Cardinality(Contacted(k, to)) >= k
<1> DEFINE C == Contacted(k, to)
           Below(h) == {g \in to : g < h}
<1>1. C = {h \in to : Cardinality(Below(h)) < k}
  BY DEF Contacted
<1>2. IsFiniteSet(to) /\ to \subseteq Nat
  BY HandlesAreFew
<1>3. IsFiniteSet(C) /\ Cardinality(C) \in Nat
  BY <1>1, <1>2, FS_Subset, FS_CardinalityType
<1> HIDE DEF C
<1>4. SUFFICES ASSUME C # to, ~(Cardinality(C) >= k)
               PROVE  FALSE
  BY DEF C
<1>5. to \ C \subseteq Nat /\ to \ C # {}
  BY <1>1, <1>2, <1>4
<1>6. PICK h \in to \ C : \A g \in to \ C : ~(<<g, h>> \in OpToRel(<, Nat))
  BY <1>5, NatLessThanWellFounded, WFMin
<1>7. \A g \in to \ C : ~(g < h)
  BY <1>5, <1>6 DEF OpToRel
<1>8. Below(h) \subseteq C
  BY <1>7
<1>9. Cardinality(Below(h)) <= Cardinality(C) /\ Cardinality(Below(h)) \in Nat
  BY <1>3, <1>8, FS_Subset, FS_CardinalityType
<1>10. h \in C
  BY <1>1, <1>3, <1>4, <1>9
<1> QED
  BY <1>10

LEMMA ContactedSubset == \A k, to : Contacted(k, to) \subseteq to
BY DEF Contacted

--------------------------------------------------------------------------------
(***************************************************************************)
(* Type correctness.                                                       *)
(***************************************************************************)

LEMMA MessageFields ==
  ASSUME NEW m \in Message
  PROVE  /\ m.op \in OpId /\ m.at \in Node
         /\ m.type \in {"write_local", "read_local", "write_succeed", "read_succeed"}
         /\ m.type = "read_succeed" => m.crdt \in SUBSET OpId
BY DEF Message

LEMMA OpFields ==
  ASSUME NEW op \in Op
  PROVE  /\ op.kind \in {"read", "write"} /\ op.to \in SUBSET Handle /\ op.rule \in Rules
         /\ op.left \in 0 .. SizeT - 1 /\ op.crdt \in SUBSET OpId
         /\ op.status \in {"waiting", "succeeded", "timeout", "unexpected"}
         /\ op.after \in SUBSET OpId
BY DEF Op

\* The counter goes round below 0.
LEMMA LeftWraps ==
  ASSUME NEW left \in 0 .. SizeT - 1, SizeT \in Nat, SizeT > 2
  PROVE  (left + SizeT - 1) % SizeT = IF left = 0 THEN SizeT - 1 ELSE left - 1
OBVIOUS

\* An answer is counted, and changes nothing but the counter and the status.
LEMMA CountedFields ==
  ASSUME NEW op \in Op
  PROVE  LET c == Counted(op)
         IN  /\ c \in Op
             /\ c.kind = op.kind /\ c.to = op.to /\ c.rule = op.rule
             /\ c.crdt = op.crdt /\ c.after = op.after
             /\ c.left = IF op.left = 0 THEN SizeT - 1 ELSE op.left - 1
             /\ c.status = IF op.left = 1 THEN "succeeded" ELSE op.status
<1> DEFINE left == (op.left + SizeT - 1) % SizeT
<1>1. op.left \in 0 .. SizeT - 1 /\ SizeT \in Nat /\ SizeT > 2
  <2>1. Cardinality(Node) \in Nat
    BY NodesAreHandles, FS_CardinalityType
  <2>2. QED
    BY <2>1, CountersFit, OpFields
<1>2. left = IF op.left = 0 THEN SizeT - 1 ELSE op.left - 1
  BY <1>1, LeftWraps
<1>3. left \in 0 .. SizeT - 1 /\ (left = 0 <=> op.left = 1)
  BY <1>1, <1>2
<1>4. Counted(op) = [op EXCEPT !.left = left,
                               !.status = IF left = 0 THEN "succeeded" ELSE @]
  BY DEF Counted
<1> HIDE DEF left
<1>5. QED
  BY <1>2, <1>3, <1>4 DEF Op

LEMMA NewOpType ==
  ASSUME TypeOK, NEW kind \in {"read", "write"}, NEW to \in SUBSET Handle,
         NEW rule \in Rules, NEW status \in {"waiting", "unexpected"}
  PROVE  NewOp(kind, to, rule, status) \in Op
<1>1. Needed(rule, to) \in 0 .. SizeT - 1
  BY NeededFits
<1>2. Completed \subseteq OpId
  <2>1. DOMAIN ops = 1 .. Len(ops) /\ Len(ops) \in Nat /\ Len(ops) <= MaxOps
    BY DEF TypeOK
  <2>2. DOMAIN ops \subseteq 1 .. MaxOps
    BY <2>1, BoundsAreNat
  <2>3. QED
    BY <2>2 DEF Completed, OpId
<1>3. QED
  BY <1>1, <1>2 DEF NewOp, Op

\* The set of handles that a request goes by.
LEMMA ViewIsOfHandles ==
  ASSUME NEW n \in Node, NEW others \in View
  PROVE  others \cup {n} \in SUBSET Handle /\ others \cup {n} # {}
<1>1. n \in others \cup {n}
  OBVIOUS
<1>2. QED
  BY <1>1, ViewsAreHandles DEF Handle, Invalid

LEMMA SpawnType ==
  ASSUME TypeOK, NEW kind \in {"read", "write"}, NEW n \in Node, NEW others \in View,
         NEW rule \in Rules, NEW type \in {"write_local", "read_local"},
         Spawn(kind, n, others, rule, type)
  PROVE  TypeOK'
<1> DEFINE to == others \cup {n}
           op == NewOp(kind, to, rule, "waiting")
<1>1. to \in SUBSET Handle
  BY ViewIsOfHandles
<1>2. op \in Op
  BY <1>1, NewOpType
<1>3. ops' = Append(ops, op) /\ Len(ops) < MaxOps
  BY DEF Spawn
<1> HIDE DEF op
<1>4. ops' \in Seq(Op) /\ Len(ops') <= MaxOps /\ Len(ops) + 1 \in OpId
  BY <1>2, <1>3, Appended, BoundsAreNat DEF TypeOK, OpId
<1>5. \A m \in Contacted(Needed(rule, to), to) \ {Invalid} :
        [type |-> type, op |-> Len(ops) + 1, at |-> m] \in Message
  BY <1>1, <1>4, ContactedSubset DEF Handle, Message
<1>6. wire' \in SUBSET Message
  BY <1>5 DEF TypeOK, Spawn
<1>7. QED
  BY <1>4, <1>6 DEF TypeOK, Spawn

LEMMA RequestType ==
  ASSUME TypeOK, NEW n \in Node, RequestRead(n) \/ RequestWrite(n) \/ RequestWriteK(n)
  PROVE  TypeOK'
<1>1. CASE RequestRead(n)
  BY <1>1, SpawnType DEF RequestRead
<1>2. CASE RequestWrite(n)
  BY <1>2, SpawnType DEF RequestWrite, Rules
<1>3. CASE RequestWriteK(n)
  <2>1. PICK others \in View, rule \in Rules :
          /\ Len(ops) < MaxOps
          /\ ops' = Append(ops, NewOp("write", others \cup {n}, rule, "unexpected"))
          /\ UNCHANGED <<wire, mailbox, cvrdt>>
    BY <1>3 DEF RequestWriteK, Rules
  <2>2. NewOp("write", others \cup {n}, rule, "unexpected") \in Op
    BY ViewIsOfHandles, NewOpType
  <2>3. ops' \in Seq(Op) /\ Len(ops') <= MaxOps
    BY <2>1, <2>2, Appended, BoundsAreNat DEF TypeOK
  <2>4. QED
    BY <2>1, <2>3 DEF TypeOK
<1>4. QED
  BY <1>1, <1>2, <1>3

LEMMA ArriveType ==
  ASSUME TypeOK, NEW m, Arrive(m)
  PROVE  TypeOK'
<1>1. m \in Message /\ m.at \in Node /\ [type |-> m.type, op |-> m.op] \in ReplicaMessage
  BY MessageFields DEF TypeOK, Arrive, ReplicaMessage
<1>2. Append(mailbox[m.at], [type |-> m.type, op |-> m.op]) \in Seq(ReplicaMessage)
  BY <1>1, Appended DEF TypeOK
<1>3. QED
  BY <1>1, <1>2 DEF TypeOK, Arrive

LEMMA OnMailboxType ==
  ASSUME TypeOK, NEW n \in Node, OnMailbox(n)
  PROVE  TypeOK'
<1>1. mailbox[n] \in Seq(ReplicaMessage) /\ mailbox[n] # <<>>
  BY DEF TypeOK, OnMailbox, OnWriteLocal, OnReadLocal, OnPublish, Handles
<1>2. Tail(mailbox[n]) \in Seq(ReplicaMessage) /\ Head(mailbox[n]).op \in OpId
  <2>1. Tail(mailbox[n]) \in Seq(ReplicaMessage) /\ Head(mailbox[n]) \in ReplicaMessage
    BY <1>1, Tailed
  <2>2. QED
    BY <2>1 DEF ReplicaMessage
<1>3. CASE OnWriteLocal(n)
  <2>1. [type |-> "publish", op |-> Head(mailbox[n]).op] \in ReplicaMessage
    BY <1>2 DEF ReplicaMessage
  <2>2. Append(Tail(mailbox[n]), [type |-> "publish", op |-> Head(mailbox[n]).op])
          \in Seq(ReplicaMessage)
    BY <1>2, <2>1, Appended
  <2>3. [type |-> "write_succeed", op |-> Head(mailbox[n]).op, at |-> n] \in Message
    BY <1>2 DEF Message
  <2>4. QED
    BY <1>3, <2>2, <2>3 DEF TypeOK, OnWriteLocal
<1>4. CASE OnReadLocal(n)
  <2>1. [type |-> "read_succeed", op |-> Head(mailbox[n]).op, at |-> n, crdt |-> cvrdt[n]]
          \in Message
    BY <1>2 DEF Message, TypeOK
  <2>2. QED
    BY <1>2, <1>4, <2>1 DEF TypeOK, OnReadLocal
<1>5. CASE OnPublish(n)
  BY <1>2, <1>5 DEF TypeOK, OnPublish
<1>6. QED
  BY <1>3, <1>4, <1>5 DEF OnMailbox

\* What OnAnswer makes of the request that is answered.
LEMMA AnswerFields ==
  ASSUME TypeOK, NEW m, OnAnswer(m)
  PROVE  LET i == m.op
             op == ops[i]
         IN  /\ m \in Message /\ i \in DOMAIN ops /\ op \in Op /\ op.status = "waiting"
             /\ DOMAIN ops' = DOMAIN ops /\ ops' \in Seq(Op) /\ Len(ops') = Len(ops)
             /\ \A k \in DOMAIN ops \ {i} : ops'[k] = ops[k]
             /\ ops'[i].kind = op.kind /\ ops'[i].to = op.to /\ ops'[i].rule = op.rule
             /\ ops'[i].after = op.after
             /\ ops'[i].crdt = IF m.type = "read_succeed" THEN op.crdt \cup m.crdt
                               ELSE op.crdt
             /\ ops'[i].left = IF op.left = 0 THEN SizeT - 1 ELSE op.left - 1
             /\ ops'[i].status = IF op.left = 1 THEN "succeeded" ELSE "waiting"
<1> DEFINE i == m.op
           op == ops[i]
           merged == Answered(op, m)
<1>1. m \in Message /\ i \in DOMAIN ops /\ op.status = "waiting"
  BY DEF TypeOK, OnAnswer, Waiting
<1>2. op \in Op
  BY <1>1 DEF TypeOK
<1>3. /\ merged \in Op
      /\ merged.kind = op.kind /\ merged.to = op.to /\ merged.rule = op.rule
      /\ merged.after = op.after /\ merged.left = op.left /\ merged.status = op.status
      /\ merged.crdt = IF m.type = "read_succeed" THEN op.crdt \cup m.crdt ELSE op.crdt
  BY <1>1, <1>2, MessageFields DEF Op, Answered
<1>4. ops' = [ops EXCEPT ![i] = Counted(merged)]
  BY DEF OnAnswer
<1> HIDE DEF merged
<1>5. Counted(merged) \in Op /\ ops \in Seq(Op)
  BY <1>3, CountedFields DEF TypeOK
<1>6. /\ DOMAIN ops' = DOMAIN ops /\ ops' \in Seq(Op) /\ Len(ops') = Len(ops)
      /\ \A k \in DOMAIN ops \ {i} : ops'[k] = ops[k]
      /\ ops'[i] = Counted(merged)
  BY <1>1, <1>4, <1>5
<1>7. QED
  BY <1>1, <1>2, <1>3, <1>6, CountedFields

LEMMA OnAnswerType ==
  ASSUME TypeOK, NEW m, OnAnswer(m)
  PROVE  TypeOK'
BY AnswerFields DEF TypeOK, OnAnswer

LEMMA TimeoutFields ==
  ASSUME TypeOK, NEW i, Timeout(i)
  PROVE  /\ i \in DOMAIN ops /\ ops[i] \in Op /\ ops[i].status = "waiting"
         /\ DOMAIN ops' = DOMAIN ops /\ ops' \in Seq(Op) /\ Len(ops') = Len(ops)
         /\ \A k \in DOMAIN ops \ {i} : ops'[k] = ops[k]
         /\ ops'[i] = [ops[i] EXCEPT !.status = "timeout"]
<1>1. i \in DOMAIN ops /\ ops[i].status = "waiting" /\ ops \in Seq(Op)
  BY DEF TypeOK, Timeout, Waiting
<1>2. ops[i] \in Op
  BY <1>1
<1>3. [ops[i] EXCEPT !.status = "timeout"] \in Op
  BY <1>2 DEF Op
<1>4. QED
  BY <1>1, <1>2, <1>3 DEF Timeout

LEMMA TimeoutType ==
  ASSUME TypeOK, NEW i, Timeout(i)
  PROVE  TypeOK'
BY TimeoutFields DEF TypeOK, Timeout

LEMMA TypeStep ==
  ASSUME TypeOK, [Next]_vars
  PROVE  TypeOK'
<1>1. CASE UNCHANGED vars
  BY <1>1 DEF vars, TypeOK
<1>2. CASE Next
  BY <1>2, RequestType, OnMailboxType, ArriveType, OnAnswerType, TimeoutType
     DEF Next, OnWire
<1>3. QED
  BY <1>1, <1>2

\* A request, its reader or writer and their messages keep their types: the counter,
\* which wraps around at 0, stays within a size_t.
THEOREM TypeCorrect == Spec => []TypeOK
<1>1. Init => TypeOK
  BY BoundsAreNat DEF Init, TypeOK
<1>2. TypeOK /\ [Next]_vars => TypeOK'
  BY TypeStep
<1>3. QED
  BY <1>1, <1>2, PTL DEF Spec

--------------------------------------------------------------------------------
(***************************************************************************)
(* What the invariant says of a request that has succeeded.                *)
(***************************************************************************)

LEMMA OpsTyped ==
  ASSUME TypeOK, NEW i \in DOMAIN ops
  PROVE  /\ ops[i] \in Op
         /\ ops[i].to \in SUBSET Handle /\ ops[i].rule \in Rules
         /\ Needed(ops[i].rule, ops[i].to) \in Nat
         /\ IsFiniteSet(ops[i].to)
         /\ Asked(i) \subseteq ops[i].to /\ IsFiniteSet(Asked(i))
         /\ Done(i) \subseteq Asked(i) \cap Node
         /\ IsFiniteSet(Done(i)) /\ Cardinality(Done(i)) \in Nat
         /\ Cardinality(Done(i)) <= Cardinality(Node)
<1>1. ops[i] \in Op
  BY DEF TypeOK
<1>2. ops[i].to \in SUBSET Handle /\ ops[i].rule \in Rules
  BY <1>1, OpFields
<1>3. Needed(ops[i].rule, ops[i].to) \in Nat
  BY <1>2, NeededFits
<1>4. IsFiniteSet(ops[i].to)
  BY <1>2, HandlesAreFew
<1>5. Asked(i) \subseteq ops[i].to
  BY ContactedSubset DEF Asked
<1>6. IsFiniteSet(Asked(i))
  BY <1>4, <1>5, FS_Subset
<1>7. Done(i) \subseteq Asked(i) \cap Node
  BY DEF Done
<1>8. IsFiniteSet(Done(i)) /\ Cardinality(Done(i)) <= Cardinality(Node)
  BY <1>7, NodesAreHandles, FS_Subset
<1>9. QED
  BY <1>1, <1>2, <1>3, <1>4, <1>5, <1>6, <1>7, <1>8, FS_CardinalityType

\* A request succeeds when everybody that it asks has answered.
LEMMA SuccessMeansAllAnswered ==
  ASSUME TypeOK, AnswersAreCounted, NEW i \in DOMAIN ops, ops[i].status = "succeeded"
  PROVE  /\ Done(i) = Asked(i) /\ Asked(i) \subseteq Node
         /\ Needed(ops[i].rule, ops[i].to) \in Nat \ {0}
         /\ Cardinality(Asked(i)) = Needed(ops[i].rule, ops[i].to)
<1> DEFINE needed == Needed(ops[i].rule, ops[i].to)
<1>1. needed \in Nat \ {0} /\ Cardinality(Done(i)) = needed
  BY OpsTyped DEF AnswersAreCounted
<1>2. Cardinality(Asked(i)) <= needed
  BY <1>1, OpsTyped, ContactedBound DEF Asked
<1>3. Cardinality(Done(i)) <= Cardinality(Asked(i))
      /\ (Cardinality(Asked(i)) = Cardinality(Done(i)) => Asked(i) = Done(i))
  BY OpsTyped, FS_Subset
<1>4. Cardinality(Asked(i)) \in Nat
  BY OpsTyped, FS_CardinalityType
<1>5. Cardinality(Asked(i)) = needed
  BY <1>1, <1>2, <1>3, <1>4
<1>6. QED
  BY <1>1, <1>3, <1>5, OpsTyped

\* So a write that has succeeded is at every node it asks.
LEMMA SuccessMeansKept ==
  ASSUME TypeOK, AnswersAreCounted, WritesAreKept,
         NEW w \in Succeeded("write"), NEW n \in Asked(w) \cap Node
  PROVE  Accepted(w, n)
<1>1. w \in DOMAIN ops /\ ops[w].status = "succeeded" /\ ops[w].kind = "write"
  BY DEF Succeeded, Completed
<1>2. n \in Done(w)
  BY <1>1, SuccessMeansAllAnswered
<1>3. ~Requested(w, n)
  BY <1>2 DEF Done, Outstanding, Requested, OnWay
<1>4. QED
  BY <1>1, <1>3 DEF WritesAreKept

--------------------------------------------------------------------------------
(***************************************************************************)
(* The steps of the messages, which leave the requests as they are.        *)
(***************************************************************************)

\* When no message is answered or forgotten, what is counted stays as it is.
LEMMA QuietStep ==
  ASSUME AnswersAreCounted, UNCHANGED ops,
         \A i : \A n \in Node : Outstanding(i, n)' <=> Outstanding(i, n)
  PROVE  /\ AnswersAreCounted'
         /\ \A i : Asked(i)' = Asked(i) /\ Done(i)' = Done(i)
<1>1. \A i : Asked(i)' = Asked(i)
  BY DEF Asked
<1>2. \A i : Done(i)' = Done(i)
  BY <1>1 DEF Done
<1>3. QED
  BY <1>1, <1>2 DEF AnswersAreCounted

\* A request gets to its replica.
LEMMA ArriveStep ==
  ASSUME IInv, NEW m, Arrive(m)
  PROVE  IInv' /\ \A i : Done(i)' = Done(i)
<1> DEFINE n == m.at
           q == [type |-> m.type, op |-> m.op]
           last == Len(mailbox[n]) + 1
<1>1. m \in wire /\ m \in Message /\ n \in Node /\ q \in ReplicaMessage /\ n \in Node
      /\ m.type \in {"write_local", "read_local"} /\ UNCHANGED <<ops, cvrdt>>
      /\ wire' = wire \ {m}
  BY MessageFields DEF IInv, TypeOK, Arrive, ReplicaMessage
<1>2. /\ \A k \in Node \ {n} : mailbox'[k] = mailbox[k]
      /\ mailbox'[n] = Append(mailbox[n], q)
  BY <1>1 DEF IInv, TypeOK, Arrive
<1>3. /\ DOMAIN mailbox[n] = 1 .. Len(mailbox[n]) /\ Len(mailbox[n]) \in Nat
      /\ DOMAIN mailbox'[n] = 1 .. last
      /\ \A j \in DOMAIN mailbox[n] : mailbox'[n][j] = mailbox[n][j]
      /\ mailbox'[n][last] = q
  BY <1>1, <1>2, Appended DEF IInv, TypeOK
<1>4. /\ \A j \in DOMAIN mailbox[n] : j \in DOMAIN mailbox'[n] /\ j < last
      /\ \A j \in DOMAIN mailbox'[n] : j \in DOMAIN mailbox[n] \/ j = last
      /\ last \in DOMAIN mailbox'[n] /\ last \notin DOMAIN mailbox[n]
  BY <1>3
<1> HIDE DEF last
<1>5. \A i : \A k \in Node : Queued(i, k)' <=> Queued(i, k) \/ (k = n /\ i = m.op)
  <2>1. \A i : \A k \in Node \ {n} : Queued(i, k)' <=> Queued(i, k)
    BY <1>2 DEF Queued, QueuedIn
  <2>2. \A i : Queued(i, n)' <=> Queued(i, n) \/ i = m.op
    BY <1>1, <1>3, <1>4 DEF Queued, QueuedIn
  <2>3. QED
    BY <2>1, <2>2
<1>6. \A i : \A k \in Node : OnWay(i, k)' <=> OnWay(i, k) /\ ~(k = n /\ i = m.op)
  BY <1>1 DEF OnWay, IInv, OneOutstanding
<1>7. \A i : \A k \in Node : Outstanding(i, k)' <=> Outstanding(i, k)
  BY <1>1, <1>5, <1>6 DEF Outstanding, OnWay
<1>8. /\ AnswersAreCounted'
      /\ \A i : Asked(i)' = Asked(i) /\ Done(i)' = Done(i)
  BY <1>1, <1>7, QuietStep DEF IInv
<1>9. MessagesAreAsked'
  <2>1. \A v \in wire' :
          /\ v.op \in DOMAIN ops' /\ v.at \in Asked(v.op)'
          /\ ops'[v.op].kind = "write" <=> v.type \in {"write_local", "write_succeed"}
    BY <1>1, <1>8 DEF IInv, MessagesAreAsked
  <2>2. ASSUME NEW k \in Node, NEW v \in InBox(k)'
        PROVE  /\ v.op \in DOMAIN ops' /\ k \in Asked(v.op)'
               /\ ops'[v.op].kind = "write" <=> v.type \in {"write_local", "publish"}
    <3>1. v \in InBox(k) \/ (k = n /\ v = q)
      BY <1>2, <1>3, <1>4 DEF InBox
    <3>2. QED
      BY <1>1, <1>8, <3>1 DEF IInv, MessagesAreAsked
  <2>3. QED
    BY <2>1, <2>2 DEF MessagesAreAsked
<1>10. OneOutstanding'
  <2>1. \A m1, m2 \in wire' : m1.op = m2.op /\ m1.at = m2.at => m1 = m2
    BY <1>1 DEF IInv, OneOutstanding
  <2>2. \A v \in wire' : v.at \in Node /\ ~Queued(v.op, v.at)'
    <3>1. \A v \in wire' : v.at \in Node /\ ~(v.at = n /\ v.op = m.op)
      BY <1>1, MessageFields DEF IInv, TypeOK, OneOutstanding
    <3>2. QED
      BY <1>1, <1>5, <3>1 DEF IInv, OneOutstanding
  <2>3. ASSUME NEW k \in Node, NEW j1 \in DOMAIN mailbox'[k], NEW j2 \in DOMAIN mailbox'[k],
               mailbox'[k][j1].type # "publish", mailbox'[k][j2].type # "publish",
               mailbox'[k][j1].op = mailbox'[k][j2].op
        PROVE  j1 = j2
    <3>1. CASE k # n
      BY <1>2, <2>3, <3>1 DEF IInv, OneOutstanding
    <3>2. CASE k = n
      <4>1. ~Queued(m.op, n)
        BY <1>1 DEF IInv, OneOutstanding
      <4>2. \A j \in DOMAIN mailbox[n] :
              mailbox[n][j].type # "publish" => mailbox[n][j].op # m.op
        BY <4>1 DEF Queued, QueuedIn
      <4>3. \A j \in DOMAIN mailbox'[n] :
              \/ j \in DOMAIN mailbox[n] /\ mailbox'[n][j] = mailbox[n][j]
              \/ j = last /\ mailbox'[n][j].op = m.op
        BY <1>3, <1>4
      <4>4. QED
        BY <2>3, <3>2, <4>2, <4>3 DEF IInv, OneOutstanding
    <3>3. QED
      BY <3>1, <3>2
  <2>4. QED
    BY <2>1, <2>2, <2>3 DEF OneOutstanding
<1>11. \A i : \A k \in Node : Accepted(i, k) => Accepted(i, k)'
  <2>1. \A i : \A k \in Node \ {n} : Accepted(i, k) => Accepted(i, k)'
    BY <1>1, <1>2 DEF Accepted
  <2>2. \A i : Accepted(i, n) => Accepted(i, n)'
    BY <1>1, <1>3, <1>4 DEF Accepted
  <2>3. QED
    BY <2>1, <2>2
<1>12. WritesAreKept'
  <2>1. \A i : \A k \in Node : Requested(i, k) => Requested(i, k)'
    BY <1>1, <1>5 DEF Requested
  <2>2. QED
    BY <1>1, <1>8, <1>11, <2>1 DEF IInv, WritesAreKept
<1>13. ReadsFollowWrites'
  <2>1. Completed' = Completed
    BY <1>1 DEF Completed
  <2>2. ASSUME NEW r \in DOMAIN ops, ops[r].kind = "read", NEW w \in ops[r].after, ops[w].kind = "write",
               NEW k \in Asked(r) \cap Asked(w) \cap Node, NEW j \in DOMAIN mailbox'[k],
               mailbox'[k][j].op = r
        PROVE  HasBefore(w, k, j)'
    <3>1. CASE j \in DOMAIN mailbox[k] /\ mailbox'[k][j] = mailbox[k][j]
      <4>1. HasBefore(w, k, j)
        BY <2>2, <3>1 DEF IInv, ReadsFollowWrites
      <4>2. CASE k = n
        BY <1>1, <1>3, <1>4, <4>1, <4>2 DEF HasBefore
      <4>3. CASE k # n
        BY <1>1, <1>2, <4>1, <4>3 DEF HasBefore
      <4>4. QED
        BY <4>2, <4>3
    <3>2. CASE k = n /\ j = last
      <4>1. w \in Succeeded("write")
        BY <2>2 DEF IInv, ReadsFollowWrites, Succeeded
      <4>2. Accepted(w, n)
        BY <3>2, <4>1, SuccessMeansKept DEF IInv
      <4>3. QED
        BY <1>1, <1>3, <1>4, <3>2, <4>2 DEF Accepted, HasBefore
    <3>3. QED
      BY <1>2, <1>3, <1>4, <3>1, <3>2
  <2>3. ASSUME NEW r \in DOMAIN ops, ops[r].kind = "read", NEW w \in ops[r].after, ops[w].kind = "write",
               NEW k \in Asked(r) \cap Asked(w) \cap Node
        PROVE  /\ \A v \in wire' : v.op = r /\ v.at = k /\ v.type = "read_succeed"
                    => w \in v.crdt
               /\ k \in Done(r) => w \in ops[r].crdt
    BY <1>1, <2>3 DEF IInv, ReadsFollowWrites
  <2>4. QED
    BY <1>1, <1>8, <2>1, <2>2, <2>3 DEF IInv, ReadsFollowWrites
<1>14. TypeOK'
  BY ArriveType DEF IInv
<1>15. QED
  BY <1>8, <1>9, <1>10, <1>12, <1>13, <1>14 DEF IInv

\* The replica on n has handled q: the others move up, and behind them there may be
\* the write that the replica publishes to itself.
LEMMA MovedUp ==
  ASSUME TypeOK, NEW n \in Node, OnMailbox(n)
  PROVE  LET q == Head(mailbox[n])
         IN  /\ q \in ReplicaMessage /\ q \in InBox(n)
             /\ 1 \in DOMAIN mailbox[n] /\ mailbox[n][1] = q /\ DOMAIN mailbox[n] \subseteq Nat
             /\ \A k \in Node \ {n} : mailbox'[k] = mailbox[k]
             /\ \A j \in DOMAIN mailbox[n] :
                  j = 1 \/ (j - 1 \in DOMAIN mailbox'[n] /\ mailbox'[n][j - 1] = mailbox[n][j])
             /\ \A j \in DOMAIN mailbox'[n] :
                  /\ j \in Nat \ {0}
                  /\ \/ j + 1 \in DOMAIN mailbox[n] /\ mailbox'[n][j] = mailbox[n][j + 1]
                     \/ /\ q.type = "write_local"
                        /\ mailbox'[n][j] = [type |-> "publish", op |-> q.op]
             /\ q.type = "write_local" =>
                  \E j \in DOMAIN mailbox'[n] :
                    mailbox'[n][j] = [type |-> "publish", op |-> q.op]
<1> DEFINE q == Head(mailbox[n])
           t == Tail(mailbox[n])
           p == [type |-> "publish", op |-> q.op]
<1>1. mailbox[n] \in Seq(ReplicaMessage) /\ mailbox[n] # <<>>
  BY DEF TypeOK, OnMailbox, OnWriteLocal, OnReadLocal, OnPublish, Handles
<1>2. /\ t \in Seq(ReplicaMessage) /\ q = mailbox[n][1] /\ q \in ReplicaMessage
      /\ Len(mailbox[n]) \in Nat \ {0} /\ DOMAIN mailbox[n] = 1 .. Len(mailbox[n])
      /\ Len(t) = Len(mailbox[n]) - 1 /\ DOMAIN t = 1 .. Len(mailbox[n]) - 1
      /\ \A j \in 1 .. Len(mailbox[n]) - 1 : t[j] = mailbox[n][j + 1]
  BY <1>1, Tailed
<1>3. p \in ReplicaMessage
  BY <1>2 DEF ReplicaMessage
<1>4. /\ Append(t, p) \in Seq(ReplicaMessage)
      /\ DOMAIN Append(t, p) = 1 .. Len(t) + 1
      /\ \A j \in 1 .. Len(t) : Append(t, p)[j] = t[j]
      /\ Append(t, p)[Len(t) + 1] = p
  BY <1>2, <1>3, Appended
<1>5. \A k \in Node \ {n} : mailbox'[k] = mailbox[k]
  BY DEF TypeOK, OnMailbox, OnWriteLocal, OnReadLocal, OnPublish
<1>6. \/ q.type = "write_local" /\ mailbox'[n] = Append(t, p)
      \/ q.type # "write_local" /\ mailbox'[n] = t
  BY DEF TypeOK, OnMailbox, OnWriteLocal, OnReadLocal, OnPublish, Handles
<1> HIDE DEF q, t, p
<1>7. /\ 1 \in DOMAIN mailbox[n] /\ DOMAIN mailbox[n] \subseteq Nat
      /\ q \in InBox(n)
  BY <1>2 DEF InBox
<1>8. \A j \in DOMAIN mailbox[n] :
        j = 1 \/ (j - 1 \in DOMAIN mailbox'[n] /\ mailbox'[n][j - 1] = mailbox[n][j])
  <2>1. \A j \in DOMAIN mailbox[n] : j = 1 \/ (j - 1 \in DOMAIN t /\ t[j - 1] = mailbox[n][j])
    BY <1>2
  <2>2. DOMAIN t \subseteq DOMAIN mailbox'[n] /\ \A j \in DOMAIN t : mailbox'[n][j] = t[j]
    BY <1>2, <1>4, <1>6
  <2>3. QED
    BY <2>1, <2>2
<1>9. ASSUME NEW j \in DOMAIN mailbox'[n]
      PROVE  /\ j \in Nat \ {0}
             /\ \/ j + 1 \in DOMAIN mailbox[n] /\ mailbox'[n][j] = mailbox[n][j + 1]
                \/ q.type = "write_local" /\ mailbox'[n][j] = p
  <2>1. CASE mailbox'[n] = t
    BY <1>2, <2>1
  <2>2. CASE q.type = "write_local" /\ mailbox'[n] = Append(t, p)
    <3>1. CASE j = Len(t) + 1
      BY <1>2, <1>4, <2>2, <3>1
    <3>2. CASE j \in 1 .. Len(t)
      BY <1>2, <1>4, <2>2, <3>2
    <3>3. QED
      BY <1>2, <1>4, <2>2, <3>1, <3>2
  <2>3. QED
    BY <1>6, <2>1, <2>2
<1>10. q.type = "write_local" => \E j \in DOMAIN mailbox'[n] : mailbox'[n][j] = p
  <2>1. Len(t) + 1 \in 1 .. Len(t) + 1
    BY <1>2
  <2>2. QED
    BY <1>4, <1>6, <2>1
<1>11. QED
  BY <1>2, <1>5, <1>7, <1>8, <1>9, <1>10 DEF q, p

\* What the replica on n says and what its state becomes.
LEMMA Handled ==
  ASSUME TypeOK, NEW n \in Node, OnMailbox(n)
  PROVE  LET q == Head(mailbox[n])
         IN  /\ UNCHANGED ops
             /\ \A k \in Node : cvrdt[k] \subseteq cvrdt'[k]
             /\ q.type = "publish" => wire' = wire /\ q.op \in cvrdt'[n]
             /\ q.type # "publish" => \E a :
                  /\ wire' = wire \cup {a}
                  /\ a.op = q.op /\ a.at = n
                  /\ \/ q.type = "write_local" /\ a.type = "write_succeed"
                     \/ /\ q.type = "read_local" /\ a.type = "read_succeed"
                        /\ a.crdt = cvrdt[n]
<1> DEFINE q == Head(mailbox[n])
<1>1. CASE OnWriteLocal(n)
  <2> DEFINE a == [type |-> "write_succeed", op |-> q.op, at |-> n]
  <2>1. q.type = "write_local" /\ wire' = wire \cup {a} /\ UNCHANGED <<ops, cvrdt>>
    BY <1>1 DEF OnWriteLocal, Handles
  <2>2. a.op = q.op /\ a.at = n /\ a.type = "write_succeed"
    OBVIOUS
  <2> HIDE DEF a
  <2>3. QED
    BY <2>1, <2>2
<1>2. CASE OnReadLocal(n)
  <2> DEFINE a == [type |-> "read_succeed", op |-> q.op, at |-> n, crdt |-> cvrdt[n]]
  <2>1. q.type = "read_local" /\ wire' = wire \cup {a} /\ UNCHANGED <<ops, cvrdt>>
    BY <1>2 DEF OnReadLocal, Handles
  <2>2. a.op = q.op /\ a.at = n /\ a.type = "read_succeed" /\ a.crdt = cvrdt[n]
    OBVIOUS
  <2> HIDE DEF a
  <2>3. QED
    BY <2>1, <2>2
<1>3. CASE OnPublish(n)
  BY <1>3 DEF TypeOK, OnPublish, Handles
<1>4. QED
  BY <1>1, <1>2, <1>3 DEF OnMailbox

\* The replica on n handles a message.
LEMMA OnMailboxStep ==
  ASSUME IInv, NEW n \in Node, OnMailbox(n)
  PROVE  IInv' /\ \A i : Done(i)' = Done(i)
<1> DEFINE q == Head(mailbox[n])
<1>1. TypeOK /\ MessagesAreAsked /\ OneOutstanding /\ AnswersAreCounted
      /\ WritesAreKept /\ ReadsFollowWrites
  BY DEF IInv
<1>2. /\ q \in ReplicaMessage /\ q \in InBox(n)
      /\ 1 \in DOMAIN mailbox[n] /\ mailbox[n][1] = q /\ DOMAIN mailbox[n] \subseteq Nat
      /\ \A k \in Node \ {n} : mailbox'[k] = mailbox[k]
  BY <1>1, MovedUp
<1>3. \A j \in DOMAIN mailbox[n] :
        j = 1 \/ (j - 1 \in DOMAIN mailbox'[n] /\ mailbox'[n][j - 1] = mailbox[n][j])
  BY <1>1, MovedUp
<1>4. \A j \in DOMAIN mailbox'[n] :
        /\ j \in Nat \ {0}
        /\ \/ j + 1 \in DOMAIN mailbox[n] /\ mailbox'[n][j] = mailbox[n][j + 1]
           \/ /\ q.type = "write_local"
              /\ mailbox'[n][j] = [type |-> "publish", op |-> q.op]
  BY <1>1, MovedUp
<1>5. q.type = "write_local" =>
        \E j \in DOMAIN mailbox'[n] : mailbox'[n][j] = [type |-> "publish", op |-> q.op]
  BY <1>1, MovedUp
<1>6. /\ UNCHANGED ops
      /\ \A k \in Node : cvrdt[k] \subseteq cvrdt'[k]
      /\ q.type = "publish" => wire' = wire /\ q.op \in cvrdt'[n]
  BY <1>1, Handled
<1>7. q.type # "publish" => \E a :
        /\ wire' = wire \cup {a}
        /\ a.op = q.op /\ a.at = n
        /\ \/ q.type = "write_local" /\ a.type = "write_succeed"
           \/ q.type = "read_local" /\ a.type = "read_succeed" /\ a.crdt = cvrdt[n]
  BY <1>1, Handled
<1>8. /\ q.op \in DOMAIN ops /\ n \in Asked(q.op)
      /\ ops[q.op].kind = "write" <=> q.type \in {"write_local", "publish"}
  BY <1>1, <1>2 DEF MessagesAreAsked
<1> HIDE DEF q
<1>9. \A i : \A k \in Node :
        Queued(i, k)' <=> Queued(i, k) /\ ~(k = n /\ i = q.op /\ q.type # "publish")
  <2>1. \A i : \A k \in Node \ {n} : Queued(i, k)' <=> Queued(i, k)
    BY <1>2 DEF Queued, QueuedIn
  <2>2. ASSUME NEW i, Queued(i, n)'
        PROVE  Queued(i, n) /\ ~(i = q.op /\ q.type # "publish")
    <3>1. PICK j \in DOMAIN mailbox'[n] :
            mailbox'[n][j].op = i /\ mailbox'[n][j].type # "publish"
      BY <2>2 DEF Queued, QueuedIn
    <3>2. /\ j + 1 \in DOMAIN mailbox[n] /\ j + 1 # 1
          /\ mailbox[n][j + 1].op = i /\ mailbox[n][j + 1].type # "publish"
      BY <1>4, <3>1
    <3>3. QED
      BY <1>1, <1>2, <3>2 DEF Queued, QueuedIn, OneOutstanding
  <2>3. ASSUME NEW i, Queued(i, n), ~(i = q.op /\ q.type # "publish")
        PROVE  Queued(i, n)'
    <3>1. PICK j \in DOMAIN mailbox[n] :
            mailbox[n][j].op = i /\ mailbox[n][j].type # "publish"
      BY <2>3 DEF Queued, QueuedIn
    <3>2. j # 1
      BY <1>2, <2>3, <3>1
    <3>3. QED
      BY <1>3, <3>1, <3>2 DEF Queued, QueuedIn
  <2>4. QED
    BY <2>1, <2>2, <2>3
<1>10. \A i : \A k \in Node :
         OnWay(i, k)' <=> OnWay(i, k) \/ (k = n /\ i = q.op /\ q.type # "publish")
  BY <1>6, <1>7 DEF OnWay
<1>11. q.type # "publish" => Queued(q.op, n)
  BY <1>2 DEF Queued, QueuedIn
<1>12. \A i : \A k \in Node : Outstanding(i, k)' <=> Outstanding(i, k)
  BY <1>9, <1>10, <1>11 DEF Outstanding
<1>13. /\ AnswersAreCounted'
       /\ \A i : Asked(i)' = Asked(i) /\ Done(i)' = Done(i)
  BY <1>1, <1>6, <1>12, QuietStep
<1>14. MessagesAreAsked'
  <2>1. ASSUME NEW v \in wire'
        PROVE  /\ v.op \in DOMAIN ops' /\ v.at \in Asked(v.op)'
               /\ ops'[v.op].kind = "write" <=> v.type \in {"write_local", "write_succeed"}
    <3>1. CASE v \in wire
      BY <1>1, <1>6, <1>13, <3>1 DEF MessagesAreAsked
    <3>2. CASE v \notin wire
      <4>1. /\ v.op = q.op /\ v.at = n
            /\ \/ q.type = "write_local" /\ v.type = "write_succeed"
               \/ q.type = "read_local" /\ v.type = "read_succeed"
        BY <1>6, <1>7, <3>2
      <4>2. QED
        BY <1>6, <1>8, <1>13, <4>1
    <3>3. QED
      BY <3>1, <3>2
  <2>2. ASSUME NEW k \in Node, NEW v \in InBox(k)'
        PROVE  /\ v.op \in DOMAIN ops' /\ k \in Asked(v.op)'
               /\ ops'[v.op].kind = "write" <=> v.type \in {"write_local", "publish"}
    <3>1. \/ v \in InBox(k)
          \/ k = n /\ q.type = "write_local" /\ v.op = q.op /\ v.type = "publish"
      BY <1>2, <1>4 DEF InBox
    <3>2. QED
      BY <1>1, <1>6, <1>8, <1>13, <3>1 DEF MessagesAreAsked
  <2>3. QED
    BY <2>1, <2>2 DEF MessagesAreAsked
<1>15. OneOutstanding'
  <2>1. \A v \in wire : v.op # q.op \/ v.at # n \/ q.type = "publish"
    BY <1>1, <1>11 DEF OneOutstanding
  <2>2. \A m1, m2 \in wire' : m1.op = m2.op /\ m1.at = m2.at => m1 = m2
    BY <1>1, <1>6, <1>7, <2>1 DEF OneOutstanding
  <2>3. \A v \in wire' : ~Queued(v.op, v.at)'
    <3>1. ASSUME NEW v \in wire
          PROVE  v.at \in Node /\ ~Queued(v.op, v.at)
      BY <1>1, MessageFields DEF TypeOK, OneOutstanding
    <3>2. ASSUME NEW v \in wire', v \notin wire
          PROVE  v.at = n /\ v.op = q.op /\ q.type # "publish"
      BY <1>6, <1>7, <3>2
    <3>3. QED
      BY <1>9, <3>1, <3>2
  <2>4. ASSUME NEW k \in Node, NEW j1 \in DOMAIN mailbox'[k], NEW j2 \in DOMAIN mailbox'[k],
               mailbox'[k][j1].type # "publish", mailbox'[k][j2].type # "publish",
               mailbox'[k][j1].op = mailbox'[k][j2].op
        PROVE  j1 = j2
    <3>1. CASE k # n
      BY <1>1, <1>2, <2>4, <3>1 DEF OneOutstanding
    <3>2. CASE k = n
      <4>1. /\ j1 \in Nat /\ j1 + 1 \in DOMAIN mailbox[n]
            /\ mailbox[n][j1 + 1] = mailbox'[n][j1]
        BY <1>4, <2>4, <3>2
      <4>2. /\ j2 \in Nat /\ j2 + 1 \in DOMAIN mailbox[n]
            /\ mailbox[n][j2 + 1] = mailbox'[n][j2]
        BY <1>4, <2>4, <3>2
      <4>3. j1 + 1 = j2 + 1
        BY <1>1, <2>4, <3>2, <4>1, <4>2 DEF OneOutstanding
      <4>4. QED
        BY <4>1, <4>2, <4>3
    <3>3. QED
      BY <3>1, <3>2
  <2>5. QED
    BY <2>2, <2>3, <2>4 DEF OneOutstanding
<1>16. \A i : \A k \in Node : Accepted(i, k) => Accepted(i, k)'
  <2>1. \A i : \A k \in Node \ {n} : Accepted(i, k) => Accepted(i, k)'
    BY <1>2, <1>6 DEF Accepted
  <2>2. ASSUME NEW i, NEW j \in DOMAIN mailbox[n],
               mailbox[n][j] = [type |-> "publish", op |-> i]
        PROVE  Accepted(i, n)'
    <3>1. CASE j = 1
      BY <1>2, <1>6, <2>2, <3>1 DEF Accepted
    <3>2. CASE j # 1
      BY <1>3, <2>2, <3>2 DEF Accepted
    <3>3. QED
      BY <3>1, <3>2
  <2>3. QED
    BY <1>6, <2>1, <2>2 DEF Accepted
<1>17. WritesAreKept'
  <2>1. ASSUME NEW i \in DOMAIN ops, ops[i].kind = "write", NEW k \in Node, Requested(i, k)
        PROVE  Requested(i, k)' \/ Accepted(i, k)'
    <3>1. CASE \E m \in wire : m.op = i /\ m.at = k /\ m.type = "write_local"
      BY <1>6, <1>7, <3>1 DEF Requested
    <3>2. CASE Queued(i, k)
      <4>1. CASE k = n /\ i = q.op /\ q.type # "publish"
        BY <1>5, <1>8, <2>1, <4>1 DEF Accepted
      <4>2. CASE ~(k = n /\ i = q.op /\ q.type # "publish")
        BY <1>9, <3>2, <4>2 DEF Requested
      <4>3. QED
        BY <4>1, <4>2
    <3>3. QED
      BY <2>1, <3>1, <3>2 DEF Requested
  <2>2. QED
    BY <1>1, <1>6, <1>13, <1>16, <2>1 DEF WritesAreKept
<1>18. ReadsFollowWrites'
  <2>1. Completed' = Completed
    BY <1>6 DEF Completed
  <2>2. ASSUME NEW r \in DOMAIN ops, ops[r].kind = "read", NEW w \in ops[r].after, ops[w].kind = "write",
               NEW k \in Asked(r) \cap Asked(w) \cap Node, NEW j \in DOMAIN mailbox'[k],
               mailbox'[k][j].op = r
        PROVE  HasBefore(w, k, j)'
    <3>1. CASE k # n
      <4>1. HasBefore(w, k, j)
        BY <1>1, <1>2, <2>2, <3>1 DEF ReadsFollowWrites
      <4>2. QED
        BY <1>2, <1>6, <3>1, <4>1 DEF HasBefore
    <3>2. CASE k = n
      <4>1. j \in Nat \ {0} /\ j + 1 \in DOMAIN mailbox[n] /\ mailbox'[n][j] = mailbox[n][j + 1]
        BY <1>4, <1>8, <2>2, <3>2
      <4>2. HasBefore(w, n, j + 1)
        BY <1>1, <2>2, <3>2, <4>1 DEF ReadsFollowWrites
      <4>3. CASE w \in cvrdt[n]
        BY <1>6, <3>2, <4>3 DEF HasBefore
      <4>4. CASE w \notin cvrdt[n]
        <5>1. PICK l \in DOMAIN mailbox[n] :
                l < j + 1 /\ mailbox[n][l] = [type |-> "publish", op |-> w]
          BY <4>2, <4>4 DEF HasBefore
        <5>2. CASE l = 1
          BY <1>2, <1>6, <3>2, <5>1, <5>2 DEF HasBefore
        <5>3. CASE l # 1
          <6>1. l - 1 < j
            BY <1>2, <4>1, <5>1
          <6>2. QED
            BY <1>3, <3>2, <5>1, <5>3, <6>1 DEF HasBefore
        <5>4. QED
          BY <5>2, <5>3
      <4>5. QED
        BY <4>3, <4>4
    <3>3. QED
      BY <3>1, <3>2
  <2>3. ASSUME NEW r \in DOMAIN ops, ops[r].kind = "read", NEW w \in ops[r].after, ops[w].kind = "write",
               NEW k \in Asked(r) \cap Asked(w) \cap Node, NEW v \in wire',
               v.op = r, v.at = k, v.type = "read_succeed"
        PROVE  w \in v.crdt
    <3>1. CASE v \in wire
      BY <1>1, <2>3, <3>1 DEF ReadsFollowWrites
    <3>2. CASE v \notin wire
      <4>1. k = n /\ r = q.op /\ v.crdt = cvrdt[n]
        BY <1>6, <1>7, <2>3, <3>2
      <4>2. HasBefore(w, n, 1)
        BY <1>1, <1>2, <2>3, <4>1 DEF ReadsFollowWrites
      <4>3. \A l \in DOMAIN mailbox[n] : ~(l < 1) \/ l = 0
        BY <1>2
      <4>4. 0 \notin DOMAIN mailbox[n]
        BY <1>1 DEF TypeOK
      <4>5. QED
        BY <4>1, <4>2, <4>3, <4>4 DEF HasBefore
    <3>3. QED
      BY <3>1, <3>2
  <2>4. QED
    BY <1>1, <1>6, <1>13, <2>1, <2>2, <2>3 DEF ReadsFollowWrites
<1>19. TypeOK'
  BY <1>1, OnMailboxType
<1>20. QED
  BY <1>13, <1>14, <1>15, <1>17, <1>18, <1>19 DEF IInv

--------------------------------------------------------------------------------
(***************************************************************************)
(* The steps of the requests.                                              *)
(***************************************************************************)

\* `new` is what the reader or writer of i sends to those it asks, if there is one.
SentFor(i, type, status, asked, new) ==
  /\ \A v \in new : v.op = i /\ v.type = type /\ v.at \in asked \cap Node
  /\ \A u, v \in new : u.at = v.at => u = v
  /\ status = "waiting" => \A k \in asked \cap Node :
       \E v \in new : v.op = i /\ v.at = k /\ v.type = type

\* A new request, whose reader or writer has asked everybody unless the request has
\* failed at once.
LEMMA NewRequest ==
  ASSUME IInv, TypeOK',
         NEW kind \in {"read", "write"}, NEW to \in SUBSET Handle, NEW rule \in Rules,
         NEW type, type = IF kind = "write" THEN "write_local" ELSE "read_local",
         NEW status \in {"waiting", "unexpected"}, NEW new,
         NEW i0, i0 = Len(ops) + 1,
         ops' = Append(ops, NewOp(kind, to, rule, status)),
         wire' = wire \cup new, UNCHANGED <<mailbox, cvrdt>>,
         SentFor(i0, type, status, Contacted(Needed(rule, to), to), new),
         kind = "write" /\ status = "waiting" => rule.rule \in {"all", "majority"},
         kind = "read" => status = "waiting"
  PROVE  /\ IInv'
         /\ \A i \in DOMAIN ops : Done(i)' = Done(i)
         /\ status = "waiting" => Done(i0)' = {}
<1> DEFINE op == NewOp(kind, to, rule, status)
           asked == Contacted(Needed(rule, to), to)
<1>1. TypeOK /\ MessagesAreAsked /\ OneOutstanding /\ AnswersAreCounted
      /\ WritesAreKept /\ ReadsFollowWrites
  BY DEF IInv
<1>2. /\ op \in Op
      /\ op.kind = kind /\ op.to = to /\ op.rule = rule /\ op.left = Needed(rule, to)
      /\ op.status = status /\ op.after = Completed
  BY <1>1, NewOpType DEF NewOp
<1>3. /\ DOMAIN ops = 1 .. Len(ops) /\ DOMAIN ops' = 1 .. i0 /\ Len(ops) \in Nat
      /\ \A i \in DOMAIN ops : ops'[i] = ops[i]
      /\ ops'[i0] = op
  <2>1. ops \in Seq(Op)
    BY <1>1 DEF TypeOK
  <2> HIDE DEF op
  <2>2. ops' = Append(ops, op)
    BY DEF op
  <2>3. QED
    BY <1>2, <2>1, <2>2, Appended
<1>4. DOMAIN ops' = DOMAIN ops \cup {i0} /\ i0 \notin DOMAIN ops
  BY <1>3
<1>5. \A v \in new : v.op = i0 /\ v.at \in asked \cap Node /\ v.type = type
  BY DEF SentFor
<1>6. \A u, v \in new : u.at = v.at => u = v
  BY DEF SentFor
<1>7. status = "waiting" => \A k \in asked \cap Node :
        \E v \in new : v.op = i0 /\ v.at = k /\ v.type = type
  BY DEF SentFor
<1> HIDE DEF op
<1>8. Asked(i0)' = asked
  BY <1>2, <1>3 DEF Asked
<1> HIDE DEF asked
<1>9. \A i \in DOMAIN ops : Asked(i)' = Asked(i)
  BY <1>3 DEF Asked
<1>10. \A i : \A k \in Node : Queued(i, k)' <=> Queued(i, k)
  BY DEF Queued, QueuedIn
<1>11. \A i \in DOMAIN ops : \A k \in Node : OnWay(i, k)' <=> OnWay(i, k)
  BY <1>4, <1>5 DEF OnWay
<1>12. \A i \in DOMAIN ops : Done(i)' = Done(i)
  BY <1>9, <1>10, <1>11 DEF Done, Outstanding
<1>13. (\A v \in wire : v.op \in DOMAIN ops) /\ \A k \in Node : ~Queued(i0, k)
  BY <1>1, <1>4 DEF MessagesAreAsked, Queued, QueuedIn, InBox
<1>14. MessagesAreAsked'
  <2>1. ASSUME NEW v \in wire'
        PROVE  /\ v.op \in DOMAIN ops' /\ v.at \in Asked(v.op)'
               /\ ops'[v.op].kind = "write" <=> v.type \in {"write_local", "write_succeed"}
    <3>1. CASE v \in wire
      BY <1>1, <1>3, <1>4, <1>9, <3>1 DEF MessagesAreAsked
    <3>2. CASE v \in new
      <4>1. v.op = i0 /\ v.at \in asked /\ v.type = type
        BY <1>5, <3>2
      <4>2. v.at \in Asked(i0)'
        BY <1>8, <4>1
      <4>3. ops'[i0].kind = kind
        BY <1>2, <1>3
      <4>4. QED
        BY <1>4, <4>1, <4>2, <4>3
    <3>3. QED
      BY <3>1, <3>2
  <2>2. ASSUME NEW k \in Node, NEW v \in InBox(k)'
        PROVE  /\ v.op \in DOMAIN ops' /\ k \in Asked(v.op)'
               /\ ops'[v.op].kind = "write" <=> v.type \in {"write_local", "publish"}
    <3>1. v \in InBox(k)
      BY DEF InBox
    <3>2. QED
      BY <1>1, <1>3, <1>4, <1>9, <3>1 DEF MessagesAreAsked
  <2>3. QED
    BY <2>1, <2>2 DEF MessagesAreAsked
<1>15. OneOutstanding'
  <2>1. \A m1, m2 \in wire' : m1.op = m2.op /\ m1.at = m2.at => m1 = m2
    BY <1>1, <1>4, <1>5, <1>6, <1>13 DEF OneOutstanding
  <2>2. \A v \in wire' : ~Queued(v.op, v.at)'
    <3>1. \A v \in wire : v.at \in Node /\ ~Queued(v.op, v.at)
      BY <1>1, MessageFields DEF TypeOK, OneOutstanding
    <3>2. \A v \in new : v.at \in Node /\ ~Queued(v.op, v.at)
      BY <1>5, <1>13
    <3>3. QED
      BY <1>10, <3>1, <3>2
  <2>3. QED
    BY <1>1, <2>1, <2>2 DEF OneOutstanding
<1>16. AnswersAreCounted'
  <2>1. ASSUME NEW i \in DOMAIN ops'
        PROVE  LET needed == Needed(ops'[i].rule, ops'[i].to)
                   done == Cardinality(Done(i)')
               IN  /\ ops'[i].status = "waiting" => /\ ops'[i].left = Counter(needed, done)
                                                    /\ done < needed \/ needed = 0
                   /\ ops'[i].status = "succeeded" => needed > 0 /\ done = needed
    <3>1. CASE i \in DOMAIN ops
      BY <1>1, <1>3, <1>12, <3>1 DEF AnswersAreCounted
    <3>2. CASE i = i0 /\ status = "waiting"
      <4>1. Done(i0)' = {}
        BY <1>7, <1>8, <3>2 DEF Done, Outstanding, OnWay
      <4>2. Cardinality(Done(i0)') = 0
        BY <4>1, FS_EmptySet
      <4>3. Needed(rule, to) \in Nat
        BY NeededFits
      <4>4. Counter(Needed(rule, to), 0) = Needed(rule, to)
        BY <4>3 DEF Counter
      <4>5. QED
        BY <1>2, <1>3, <3>2, <4>2, <4>3, <4>4
    <3>3. CASE i = i0 /\ status = "unexpected"
      BY <1>2, <1>3, <3>3
    <3>4. QED
      BY <1>4, <3>1, <3>2, <3>3
  <2>2. QED
    BY <2>1 DEF AnswersAreCounted
<1>17. WritesAreKept'
  <2>1. ASSUME NEW i \in DOMAIN ops', ops'[i].kind = "write", ops'[i].status # "unexpected"
        PROVE  /\ ops'[i].rule.rule \in {"all", "majority"}
               /\ \A k \in Asked(i)' \cap Node : Requested(i, k)' \/ Accepted(i, k)'
    <3>1. CASE i \in DOMAIN ops
      <4>1. \A k \in Node : Requested(i, k) => Requested(i, k)'
        BY <1>10 DEF Requested
      <4>2. \A k \in Node : Accepted(i, k) => Accepted(i, k)'
        BY DEF Accepted
      <4>3. ops[i].kind = "write" /\ ops[i].status # "unexpected"
            /\ ops'[i] = ops[i] /\ Asked(i)' = Asked(i)
        BY <1>3, <1>9, <2>1, <3>1
      <4>4. QED
        BY <1>1, <3>1, <4>1, <4>2, <4>3 DEF WritesAreKept
    <3>2. CASE i = i0
      <4>1. kind = "write" /\ status = "waiting" /\ type = "write_local"
        BY <1>2, <1>3, <2>1, <3>2
      <4>2. \A k \in asked \cap Node : Requested(i0, k)'
        BY <1>7, <4>1 DEF Requested
      <4>3. QED
        BY <1>2, <1>3, <1>8, <3>2, <4>1, <4>2
    <3>3. QED
      BY <1>4, <3>1, <3>2
  <2>2. QED
    BY <2>1 DEF WritesAreKept
<1>18. ReadsFollowWrites'
  <2>1. Completed \subseteq DOMAIN ops /\ Completed \subseteq Completed'
    BY <1>3, <1>4 DEF Completed
  <2>2. ASSUME NEW r \in DOMAIN ops', NEW w \in ops'[r].after
        PROVE  /\ w \in Completed'
               /\ ops'[r].kind = "read" /\ ops'[w].kind = "write" => \A n \in Asked(r)' \cap Asked(w)' \cap Node :
                    /\ \A j \in DOMAIN mailbox'[n] : mailbox'[n][j].op = r => HasBefore(w, n, j)'
                    /\ \A m \in wire' : m.op = r /\ m.at = n /\ m.type = "read_succeed"
                         => w \in m.crdt
                    /\ n \in Done(r)' => w \in ops'[r].crdt
    <3>1. CASE r \in DOMAIN ops
      <4>1. ops'[r] = ops[r] /\ w \in ops[r].after /\ w \in Completed
        BY <1>1, <1>3, <2>2, <3>1 DEF ReadsFollowWrites
      <4>2. w \in DOMAIN ops /\ w \in Completed' /\ ops'[w] = ops[w]
        BY <1>3, <2>1, <4>1
      <4>3. Asked(r)' = Asked(r) /\ Asked(w)' = Asked(w) /\ Done(r)' = Done(r)
        BY <1>9, <1>12, <3>1, <4>2
      <4>4. ASSUME ops[r].kind = "read", ops[w].kind = "write",
                   NEW n \in Asked(r) \cap Asked(w) \cap Node
            PROVE  /\ \A j \in DOMAIN mailbox[n] : mailbox[n][j].op = r => HasBefore(w, n, j)
                   /\ \A m \in wire : m.op = r /\ m.at = n /\ m.type = "read_succeed"
                        => w \in m.crdt
                   /\ n \in Done(r) => w \in ops[r].crdt
        BY <1>1, <3>1, <4>1, <4>4 DEF ReadsFollowWrites
      <4>5. \A n, j : HasBefore(w, n, j)' <=> HasBefore(w, n, j)
        BY DEF HasBefore
      <4>6. \A m \in wire' : m.op = r => m \in wire
        BY <1>4, <1>5, <3>1
      <4>7. QED
        BY <4>1, <4>2, <4>3, <4>4, <4>5, <4>6
    <3>2. CASE r = i0
      <4>1. w \in Completed'
        BY <1>2, <1>3, <2>1, <2>2, <3>2
      <4>2. CASE kind = "read"
        <5>1. \A n \in Node : \A j \in DOMAIN mailbox[n] : mailbox[n][j].op # i0
          BY <1>1, <1>4 DEF MessagesAreAsked, InBox
        <5>2. \A m \in wire' : m.op = i0 => m.type # "read_succeed"
          BY <1>4, <1>5, <1>13, <4>2
        <5>3. CASE status = "waiting"
          <6>1. Done(i0)' = {}
            BY <1>7, <1>8, <5>3 DEF Done, Outstanding, OnWay
          <6>2. QED
            BY <3>2, <4>1, <5>1, <5>2, <6>1
        <5>4. QED
          BY <4>2, <5>3
      <4>3. CASE kind = "write"
        BY <1>2, <1>3, <3>2, <4>1, <4>3
      <4>4. QED
        BY <4>2, <4>3
    <3>3. QED
      BY <1>4, <3>1, <3>2
  <2>3. QED
    BY <2>2 DEF ReadsFollowWrites
<1>19. status = "waiting" => Done(i0)' = {}
  BY <1>7, <1>8 DEF Done, Outstanding, OnWay
<1>20. QED
  BY <1>12, <1>14, <1>15, <1>16, <1>17, <1>18, <1>19 DEF IInv

\* A request and what it needs to be one.
Sends(i0, kind, to, rule, type, status, new) ==
  /\ kind \in {"read", "write"} /\ to \in (SUBSET Handle) \ {{}} /\ rule \in Rules
  /\ type = IF kind = "write" THEN "write_local" ELSE "read_local"
  /\ status \in {"waiting", "unexpected"}
  /\ i0 = Len(ops) + 1 /\ ops' = Append(ops, NewOp(kind, to, rule, status))
  /\ wire' = wire \cup new /\ UNCHANGED <<mailbox, cvrdt>>
  /\ SentFor(i0, type, status, Contacted(Needed(rule, to), to), new)
  /\ kind = "write" /\ status = "waiting" => rule.rule \in {"all", "majority"}
  /\ kind = "read" => status = "waiting"
  /\ status = "unexpected" => new = {}

LEMMA SpawnSends ==
  ASSUME NEW kind \in {"read", "write"}, NEW n \in Node, NEW others \in View,
         NEW rule \in Rules, kind = "write" => rule.rule \in {"all", "majority"},
         NEW type, type = IF kind = "write" THEN "write_local" ELSE "read_local",
         Spawn(kind, n, others, rule, type)
  PROVE  \E i0, to, new : Sends(i0, kind, to, rule, type, "waiting", new)
<1>1. others \cup {n} \in SUBSET Handle /\ others \cup {n} # {}
  BY ViewIsOfHandles
<1>2. PICK i0, to : i0 = Len(ops) + 1 /\ to = others \cup {n}
  OBVIOUS
<1> DEFINE asked == Contacted(Needed(rule, to), to)
<1> DEFINE new == {[type |-> type, op |-> i0, at |-> h] : h \in asked \ {Invalid}}
<1>3. /\ ops' = Append(ops, NewOp(kind, to, rule, "waiting"))
      /\ wire' = wire \cup new /\ UNCHANGED <<mailbox, cvrdt>>
  BY <1>2 DEF Spawn
<1>4. Invalid \notin Node /\ asked \subseteq Node \cup {Invalid}
  BY <1>1, <1>2, NodesAreHandles, ContactedSubset DEF Invalid, Handle
<1>5. \A v \in new : v.op = i0 /\ v.type = type /\ v.at \in asked \cap Node
  BY <1>4
<1>6. \A u, v \in new : u.at = v.at => u = v
  OBVIOUS
<1>7. \A k \in asked \cap Node : \E v \in new : v.op = i0 /\ v.at = k /\ v.type = type
  <2>1. \A k \in asked \cap Node : [type |-> type, op |-> i0, at |-> k] \in new
    BY <1>4
  <2>2. QED
    BY <2>1
<1>8. SentFor(i0, type, "waiting", asked, new)
  BY <1>5, <1>6, <1>7 DEF SentFor
<1> HIDE DEF new
<1>9. to \in (SUBSET Handle) \ {{}}
  BY <1>1, <1>2
<1>10. Sends(i0, kind, to, rule, type, "waiting", new)
  BY <1>2, <1>3, <1>8, <1>9 DEF Sends
<1>11. QED
  BY <1>10

LEMMA RequestSends ==
  ASSUME NEW n \in Node, RequestRead(n) \/ RequestWrite(n) \/ RequestWriteK(n)
  PROVE  \E i0, kind, to, rule, type, status, new :
           Sends(i0, kind, to, rule, type, status, new)
<1>1. CASE RequestRead(n)
  BY <1>1, SpawnSends DEF RequestRead
<1>2. CASE RequestWrite(n)
  <2>1. PICK others \in View, rule \in [rule : {"all", "majority"}] :
          Spawn("write", n, others, rule, "write_local")
    BY <1>2 DEF RequestWrite
  <2>2. rule \in Rules /\ rule.rule \in {"all", "majority"}
    BY DEF Rules
  <2>3. QED
    BY <2>1, <2>2, SpawnSends
<1>3. CASE RequestWriteK(n)
  <2>1. PICK others \in View, rule \in Rules :
          /\ ops' = Append(ops, NewOp("write", others \cup {n}, rule, "unexpected"))
          /\ UNCHANGED <<wire, mailbox, cvrdt>>
    BY <1>3 DEF RequestWriteK, Rules
  <2>2. others \cup {n} \in SUBSET Handle /\ others \cup {n} # {}
    BY ViewIsOfHandles
  <2>3. PICK i0, to, new : i0 = Len(ops) + 1 /\ to = others \cup {n} /\ new = {}
    OBVIOUS
  <2>4. to \in (SUBSET Handle) \ {{}} /\ wire' = wire \cup new
    <3>1. wire \cup new = wire
      BY <2>3
    <3>2. QED
      BY <2>1, <2>2, <2>3, <3>1
  <2>5. SentFor(i0, "write_local", "unexpected", Contacted(Needed(rule, to), to), new)
    BY <2>3 DEF SentFor
  <2>6. Sends(i0, "write", to, rule, "write_local", "unexpected", new)
    BY <2>1, <2>3, <2>4, <2>5 DEF Sends
  <2>7. QED
    BY <2>6
<1>4. QED
  BY <1>1, <1>2, <1>3

LEMMA RequestStep ==
  ASSUME IInv, NEW n \in Node, RequestRead(n) \/ RequestWrite(n) \/ RequestWriteK(n)
  PROVE  IInv'
<1>1. PICK i0, kind, to, rule, type, status, new :
        Sends(i0, kind, to, rule, type, status, new)
  BY RequestSends
<1>2. TypeOK'
  BY RequestType DEF IInv
<1>3. QED
  BY <1>1, <1>2, NewRequest DEF Sends

\* Going round below 0 is what counting one answer more is.
LEMMA CounterStep ==
  ASSUME NEW needed \in Nat, NEW done \in Nat, NEW left,
         SizeT \in Nat, done + 3 <= SizeT, left = Counter(needed, done),
         done < needed \/ needed = 0
  PROVE  /\ left # 1 => /\ (IF left = 0 THEN SizeT - 1 ELSE left - 1)
                             = Counter(needed, done + 1)
                        /\ done + 1 < needed \/ needed = 0
         /\ left = 1 => needed > 0 /\ done + 1 = needed
BY DEF Counter

\* A reader or writer gets an answer.
LEMMA OnAnswerStep ==
  ASSUME IInv, NEW m, OnAnswer(m)
  PROVE  /\ IInv'
         /\ \A k \in DOMAIN ops :
              Done(k)' = Done(k) \/ (k = m.op /\ Done(k)' = Done(k) \cup {m.at})
<1>1. TypeOK /\ MessagesAreAsked /\ OneOutstanding /\ AnswersAreCounted
      /\ WritesAreKept /\ ReadsFollowWrites
  BY DEF IInv
<1> DEFINE i == m.op
           n == m.at
<1>2. /\ m \in wire /\ m.type \in {"write_succeed", "read_succeed"}
      /\ wire' = wire \ {m} /\ UNCHANGED <<mailbox, cvrdt>>
  BY DEF OnAnswer
<1>3. /\ i \in DOMAIN ops /\ ops[i].status = "waiting"
      /\ DOMAIN ops' = DOMAIN ops
      /\ \A k \in DOMAIN ops \ {i} : ops'[k] = ops[k]
      /\ ops'[i].kind = ops[i].kind /\ ops'[i].to = ops[i].to /\ ops'[i].rule = ops[i].rule
      /\ ops'[i].after = ops[i].after
      /\ ops'[i].crdt = IF m.type = "read_succeed" THEN ops[i].crdt \cup m.crdt
                        ELSE ops[i].crdt
      /\ ops'[i].left = IF ops[i].left = 0 THEN SizeT - 1 ELSE ops[i].left - 1
      /\ ops'[i].status = IF ops[i].left = 1 THEN "succeeded" ELSE "waiting"
  BY <1>1, AnswerFields
<1>4. /\ n \in Asked(i) \cap Node
      /\ ops[i].kind = "write" <=> m.type \in {"write_local", "write_succeed"}
      /\ ~Queued(i, n)
  BY <1>1, <1>2, MessageFields DEF TypeOK, MessagesAreAsked, OneOutstanding
<1>5. \A k \in DOMAIN ops : ops'[k].kind = ops[k].kind /\ ops'[k].to = ops[k].to
                            /\ ops'[k].rule = ops[k].rule /\ ops'[k].after = ops[k].after
  BY <1>3
<1>6. \A k \in DOMAIN ops : Asked(k)' = Asked(k)
  BY <1>5 DEF Asked
<1>7. \A k : \A h \in Node : Queued(k, h)' <=> Queued(k, h)
  BY <1>2 DEF Queued, QueuedIn
<1>8. \A k : \A h \in Node : OnWay(k, h)' <=> OnWay(k, h) /\ ~(k = i /\ h = n)
  BY <1>1, <1>2 DEF OnWay, OneOutstanding
<1>9. \A k \in DOMAIN ops \ {i} : Done(k)' = Done(k)
  BY <1>6, <1>7, <1>8 DEF Done, Outstanding
<1>10. OnWay(i, n)
  BY <1>2 DEF OnWay
<1>11. \A k \in DOMAIN ops : k = i => Done(k)' = Done(k) \cup {n} /\ n \notin Done(k)
  <2>1. \A k \in DOMAIN ops : k = i => Done(k)' = Done(k) \cup {n}
    BY <1>4, <1>6, <1>7, <1>8 DEF Done, Outstanding
  <2>2. n \notin Done(i)
    BY <1>10 DEF Done, Outstanding
  <2>3. QED
    BY <2>1, <2>2
<1>12. MessagesAreAsked'
  <2>1. \A k \in Node : InBox(k)' = InBox(k)
    BY <1>2 DEF InBox
  <2>2. ASSUME NEW v \in wire'
        PROVE  /\ v.op \in DOMAIN ops' /\ v.at \in Asked(v.op)'
               /\ ops'[v.op].kind = "write" <=> v.type \in {"write_local", "write_succeed"}
    BY <1>1, <1>2, <1>3, <1>5, <1>6 DEF MessagesAreAsked
  <2>3. ASSUME NEW k \in Node, NEW v \in InBox(k)'
        PROVE  /\ v.op \in DOMAIN ops' /\ k \in Asked(v.op)'
               /\ ops'[v.op].kind = "write" <=> v.type \in {"write_local", "publish"}
    BY <1>1, <1>3, <1>5, <1>6, <2>1 DEF MessagesAreAsked
  <2>4. QED
    BY <2>2, <2>3 DEF MessagesAreAsked
<1>13. OneOutstanding'
  <2>1. \A v \in wire' : v \in wire /\ v.at \in Node
    BY <1>1, <1>2, MessageFields DEF TypeOK
  <2>2. \A v \in wire' : ~Queued(v.op, v.at)'
    BY <1>1, <1>7, <2>1 DEF OneOutstanding
  <2>3. QED
    BY <1>1, <1>2, <2>1, <2>2 DEF OneOutstanding
<1>14. AnswersAreCounted'
  <2>1. ASSUME NEW k \in DOMAIN ops
        PROVE  LET needed == Needed(ops'[k].rule, ops'[k].to)
                   done == Cardinality(Done(k)')
               IN  /\ ops'[k].status = "waiting" => /\ ops'[k].left = Counter(needed, done)
                                                    /\ done < needed \/ needed = 0
                   /\ ops'[k].status = "succeeded" => needed > 0 /\ done = needed
    <3>1. CASE k # i
      BY <1>1, <1>3, <1>9, <3>1 DEF AnswersAreCounted
    <3>2. CASE k = i
      <4> DEFINE needed == Needed(ops[k].rule, ops[k].to)
                 done == Cardinality(Done(k))
      <4>1. needed \in Nat /\ done \in Nat /\ IsFiniteSet(Done(k)) /\ done <= Cardinality(Node)
        BY <1>1, OpsTyped
      <4>2. Cardinality(Done(k)') = done + 1
        BY <1>11, <3>2, <4>1, FS_AddElement
      <4>3. SizeT \in Nat /\ done + 3 <= SizeT
        <5>1. Cardinality(Node) \in Nat
          BY NodesAreHandles, FS_CardinalityType
        <5>2. QED
          BY <4>1, <5>1, CountersFit
      <4>4. ops[k].left = Counter(needed, done) /\ (done < needed \/ needed = 0)
        BY <1>1, <1>3, <3>2 DEF AnswersAreCounted
      <4> HIDE DEF needed, done
      <4>5. /\ ops[k].left # 1 =>
                 /\ (IF ops[k].left = 0 THEN SizeT - 1 ELSE ops[k].left - 1)
                      = Counter(needed, done + 1)
                 /\ done + 1 < needed \/ needed = 0
            /\ ops[k].left = 1 => needed > 0 /\ done + 1 = needed
        BY <4>1, <4>3, <4>4, CounterStep
      <4>6. Needed(ops'[k].rule, ops'[k].to) = needed
        BY <1>5 DEF needed
      <4>7. QED
        BY <1>3, <3>2, <4>2, <4>5, <4>6
    <3>3. QED
      BY <3>1, <3>2
  <2>2. QED
    BY <1>3, <2>1 DEF AnswersAreCounted
<1>15. \A k, h : Accepted(k, h)' <=> Accepted(k, h)
  BY <1>2 DEF Accepted
<1>16. WritesAreKept'
  <2>1. \A k : \A h \in Node : Requested(k, h) => Requested(k, h)'
    BY <1>2, <1>7 DEF Requested
  <2>2. \A k \in DOMAIN ops : ops'[k].status # "unexpected" => ops[k].status # "unexpected"
    BY <1>3
  <2>3. QED
    BY <1>1, <1>3, <1>5, <1>6, <1>15, <2>1, <2>2 DEF WritesAreKept
<1>17. ReadsFollowWrites'
  <2>1. Completed \subseteq Completed' /\ Completed \subseteq DOMAIN ops
    BY <1>3 DEF Completed
  <2>2. \A w, h, j : HasBefore(w, h, j)' <=> HasBefore(w, h, j)
    BY <1>2 DEF HasBefore
  <2>3. ASSUME NEW r \in DOMAIN ops, NEW w \in ops[r].after, ops[r].kind = "read",
               ops[w].kind = "write", NEW h \in Asked(r) \cap Asked(w) \cap Node, h \in Done(r)'
        PROVE  w \in ops'[r].crdt
    <3>1. CASE h \in Done(r)
      <4>1. w \in ops[r].crdt
        BY <1>1, <2>3, <3>1 DEF ReadsFollowWrites
      <4>2. QED
        BY <1>3, <4>1
    <3>2. CASE h \notin Done(r)
      <4>1. r = i /\ h = n
        BY <1>9, <1>11, <2>3, <3>2
      <4>2. m.type = "read_succeed"
        BY <1>2, <1>4, <2>3, <4>1
      <4>3. w \in m.crdt
        BY <1>1, <1>2, <2>3, <4>1, <4>2 DEF ReadsFollowWrites
      <4>4. QED
        BY <1>3, <4>1, <4>2, <4>3
    <3>3. QED
      BY <3>1, <3>2
  <2>4. ASSUME NEW r \in DOMAIN ops', NEW w \in ops'[r].after
        PROVE  /\ w \in Completed'
               /\ ops'[r].kind = "read" /\ ops'[w].kind = "write" => \A h \in Asked(r)' \cap Asked(w)' \cap Node :
                    /\ \A j \in DOMAIN mailbox'[h] : mailbox'[h][j].op = r => HasBefore(w, h, j)'
                    /\ \A v \in wire' : v.op = r /\ v.at = h /\ v.type = "read_succeed"
                         => w \in v.crdt
                    /\ h \in Done(r)' => w \in ops'[r].crdt
    <3>1. r \in DOMAIN ops /\ w \in ops[r].after /\ w \in Completed
      BY <1>1, <1>3, <1>5, <2>4 DEF ReadsFollowWrites
    <3>2. w \in DOMAIN ops /\ w \in Completed' /\ ops'[w].kind = ops[w].kind
      BY <1>5, <2>1, <3>1
    <3>3. ops'[r].kind = ops[r].kind /\ Asked(r)' = Asked(r) /\ Asked(w)' = Asked(w)
      BY <1>5, <1>6, <3>1, <3>2
    <3>4. ASSUME ops[r].kind = "read", ops[w].kind = "write",
                 NEW h \in Asked(r) \cap Asked(w) \cap Node
          PROVE  /\ \A j \in DOMAIN mailbox[h] : mailbox[h][j].op = r => HasBefore(w, h, j)
                 /\ \A v \in wire : v.op = r /\ v.at = h /\ v.type = "read_succeed"
                      => w \in v.crdt
      BY <1>1, <3>1, <3>4 DEF ReadsFollowWrites
    <3>5. QED
      BY <1>2, <2>2, <2>3, <3>1, <3>2, <3>3, <3>4
  <2>5. QED
    BY <2>4 DEF ReadsFollowWrites
<1>18. TypeOK'
  BY <1>1, OnAnswerType
<1>19. QED
  BY <1>9, <1>11, <1>12, <1>13, <1>14, <1>16, <1>17, <1>18 DEF IInv

\* The timeout fires at a reader or writer.
LEMMA TimeoutStep ==
  ASSUME IInv, NEW i, Timeout(i)
  PROVE  IInv' /\ \A k \in DOMAIN ops : Done(k)' = Done(k)
<1>1. TypeOK /\ MessagesAreAsked /\ OneOutstanding /\ AnswersAreCounted
      /\ WritesAreKept /\ ReadsFollowWrites
  BY DEF IInv
<1>2. /\ i \in DOMAIN ops /\ ops[i].status = "waiting" /\ ops[i] \in Op
      /\ DOMAIN ops' = DOMAIN ops
      /\ \A k \in DOMAIN ops \ {i} : ops'[k] = ops[k]
      /\ ops'[i] = [ops[i] EXCEPT !.status = "timeout"]
  BY <1>1, TimeoutFields
<1>3. UNCHANGED <<wire, mailbox, cvrdt>>
  BY DEF Timeout
<1>4. ops'[i].status = "timeout"
  BY <1>2 DEF Op
<1>5. \A k \in DOMAIN ops :
        /\ ops'[k].kind = ops[k].kind /\ ops'[k].to = ops[k].to
        /\ ops'[k].rule = ops[k].rule /\ ops'[k].after = ops[k].after
        /\ ops'[k].left = ops[k].left /\ ops'[k].crdt = ops[k].crdt
  BY <1>2 DEF Op
<1>6. \A k \in DOMAIN ops : Asked(k)' = Asked(k)
  BY <1>5 DEF Asked
<1>7. \A k \in DOMAIN ops : Done(k)' = Done(k)
  BY <1>3, <1>6 DEF Done, Outstanding, Queued, QueuedIn, OnWay
<1>8. MessagesAreAsked'
  BY <1>1, <1>2, <1>3, <1>5, <1>6 DEF MessagesAreAsked, InBox
<1>9. OneOutstanding'
  BY <1>1, <1>3 DEF OneOutstanding, Queued, QueuedIn
<1>10. AnswersAreCounted'
  <2>1. \A k \in DOMAIN ops : ops'[k].status = ops[k].status \/ ops'[k].status = "timeout"
    BY <1>2, <1>4
  <2>2. QED
    BY <1>1, <1>2, <1>5, <1>7, <2>1 DEF AnswersAreCounted
<1>11. WritesAreKept'
  <2>1. \A k, h : (Requested(k, h) <=> Requested(k, h)') /\ (Accepted(k, h) <=> Accepted(k, h)')
    BY <1>3 DEF Requested, Queued, QueuedIn, Accepted
  <2>2. \A k \in DOMAIN ops : ops'[k].status # "unexpected" => ops[k].status # "unexpected"
    BY <1>2
  <2>3. QED
    BY <1>1, <1>2, <1>5, <1>6, <2>1, <2>2 DEF WritesAreKept
<1>12. ReadsFollowWrites'
  <2>1. Completed \subseteq DOMAIN ops /\ Completed' = Completed
    <3>1. \A k \in DOMAIN ops : ops'[k].status = "succeeded" <=> ops[k].status = "succeeded"
      BY <1>2, <1>4
    <3>2. QED
      BY <1>2, <3>1 DEF Completed
  <2>2. \A w, h, j : HasBefore(w, h, j)' <=> HasBefore(w, h, j)
    BY <1>3 DEF HasBefore
  <2>3. \A r \in DOMAIN ops : \A w \in ops[r].after : w \in DOMAIN ops
    BY <1>1, <2>1 DEF ReadsFollowWrites
  <2>4. QED
    BY <1>1, <1>2, <1>3, <1>5, <1>6, <1>7, <2>1, <2>2, <2>3 DEF ReadsFollowWrites
<1>13. TypeOK'
  BY <1>1, TimeoutType
<1>14. QED
  BY <1>7, <1>8, <1>9, <1>10, <1>11, <1>12, <1>13 DEF IInv

--------------------------------------------------------------------------------
(***************************************************************************)
(* The theorems.                                                           *)
(***************************************************************************)

LEMMA InitIInv ==
  ASSUME Init
  PROVE  IInv
<1>1. TypeOK
  BY BoundsAreNat DEF Init, TypeOK
<1>2. DOMAIN ops = {} /\ wire = {} /\ \A n \in Node : DOMAIN mailbox[n] = {}
  BY DEF Init
<1>3. QED
  BY <1>1, <1>2 DEF IInv, MessagesAreAsked, InBox, OneOutstanding, AnswersAreCounted,
                    WritesAreKept, ReadsFollowWrites

LEMMA UnchangedIInv ==
  ASSUME IInv, UNCHANGED vars
  PROVE  IInv'
<1>1. UNCHANGED <<ops, wire, mailbox, cvrdt>>
  BY DEF vars
<1>2. /\ \A i : Asked(i)' = Asked(i) /\ Done(i)' = Done(i)
      /\ \A i, n : /\ Queued(i, n)' <=> Queued(i, n)
                   /\ Requested(i, n)' <=> Requested(i, n)
                   /\ Accepted(i, n)' <=> Accepted(i, n)
      /\ \A w, n, j : HasBefore(w, n, j)' <=> HasBefore(w, n, j)
      /\ Completed' = Completed
  BY <1>1 DEF Asked, Done, Outstanding, Queued, QueuedIn, OnWay, Requested, Accepted,
              HasBefore, Completed
<1>3. TypeOK' /\ MessagesAreAsked' /\ OneOutstanding'
  BY <1>1, <1>2 DEF IInv, TypeOK, MessagesAreAsked, InBox, OneOutstanding
<1>4. AnswersAreCounted' /\ WritesAreKept' /\ ReadsFollowWrites'
  BY <1>1, <1>2 DEF IInv, AnswersAreCounted, WritesAreKept, ReadsFollowWrites
<1>5. QED
  BY <1>3, <1>4 DEF IInv

LEMMA InvariantStep ==
  ASSUME IInv, [Next]_vars
  PROVE  IInv'
<1>1. CASE UNCHANGED vars
  BY <1>1, UnchangedIInv
<1>2. CASE Next
  BY <1>2, RequestStep, OnMailboxStep, ArriveStep, OnAnswerStep, TimeoutStep
     DEF Next, OnWire
<1>3. QED
  BY <1>1, <1>2

\* Every node is asked once and answers once, and the counter of each reader and writer
\* holds what it has still to hear, also below 0; no write that has left is forgotten,
\* and no read overtakes one that had succeeded.
THEOREM Invariant == Spec => []IInv
<1>1. Init => IInv
  BY InitIInv
<1>2. IInv /\ [Next]_vars => IInv'
  BY InvariantStep
<1>3. QED
  BY <1>1, <1>2, PTL DEF Spec

\* A write is reported as successful only when all nodes of the view, or more than half
\* of them, have it or will have it before anything they handle later.
THEOREM SuccessIsAccepted == Spec => []SuccessMeansAccepted
<1>1. ASSUME IInv
      PROVE  SuccessMeansAccepted
  <2>1. SUFFICES ASSUME NEW i \in Succeeded("write")
                 PROVE  LET accepted == {n \in ops[i].to \cap Node : Accepted(i, n)}
                        IN  CASE ops[i].rule.rule = "all"      -> accepted = ops[i].to
                              [] ops[i].rule.rule = "majority" ->
                                   2 * Cardinality(accepted) > Cardinality(ops[i].to)
    BY DEF SuccessMeansAccepted
  <2> DEFINE accepted == {n \in ops[i].to \cap Node : Accepted(i, n)}
  <2>2. i \in DOMAIN ops /\ ops[i].status = "succeeded" /\ ops[i].kind = "write"
    BY DEF Succeeded, Completed
  <2>3. IsFiniteSet(ops[i].to) /\ Asked(i) \subseteq ops[i].to /\ Cardinality(ops[i].to) \in Nat
    BY <1>1, <2>2, OpsTyped, FS_CardinalityType DEF IInv
  <2>4. Asked(i) \subseteq Node /\ Cardinality(Asked(i)) = Needed(ops[i].rule, ops[i].to)
    BY <1>1, <2>2, SuccessMeansAllAnswered DEF IInv
  <2>5. Asked(i) \subseteq accepted
    BY <1>1, <2>3, <2>4, SuccessMeansKept DEF IInv
  <2>6. accepted \subseteq ops[i].to
    OBVIOUS
  <2> HIDE DEF accepted
  <2>7. CASE ops[i].rule.rule = "all"
    <3>1. Cardinality(Asked(i)) = Cardinality(ops[i].to)
      BY <2>4, <2>7 DEF Needed
    <3>2. Asked(i) = ops[i].to
      BY <2>3, <3>1, FS_Subset
    <3>3. accepted = ops[i].to
      BY <2>5, <2>6, <3>2
    <3>4. QED
      BY <2>7, <3>3 DEF accepted
  <2>8. CASE ops[i].rule.rule = "majority"
    <3>1. Cardinality(Asked(i)) = Cardinality(ops[i].to) \div 2 + 1
      BY <2>4, <2>8 DEF Needed
    <3>2. IsFiniteSet(accepted)
      BY <2>3, <2>6, FS_Subset
    <3>3. Cardinality(Asked(i)) <= Cardinality(accepted) /\ Cardinality(accepted) \in Nat
      BY <2>5, <3>2, FS_Subset, FS_CardinalityType
    <3>4. 2 * Cardinality(accepted) > Cardinality(ops[i].to)
      BY <2>3, <3>1, <3>3, HalfOf
    <3>5. QED
      BY <2>8, <3>4 DEF accepted
  <2>9. QED
    BY <1>1, <2>2, <2>7, <2>8 DEF IInv, WritesAreKept
<1>2. QED
  BY <1>1, Invariant, PTL

\* A read that was requested after a write had succeeded, by the same set of nodes, sees
\* it: the first nodes of the set are asked by both, and there the write comes first.
THEOREM ReadsSee == Spec => []ReadsSeeCompletedWrites
<1>1. ASSUME IInv
      PROVE  ReadsSeeCompletedWrites
  <2>1. SUFFICES ASSUME NEW r \in Succeeded("read"), NEW w \in ops[r].after,
                        ops[w].kind = "write", ops[r].to = ops[w].to
                 PROVE  w \in ops[r].crdt
    BY DEF ReadsSeeCompletedWrites
  <2>2. r \in DOMAIN ops /\ ops[r].status = "succeeded" /\ ops[r].kind = "read"
    BY DEF Succeeded, Completed
  <2>3. w \in DOMAIN ops /\ ops[w].status = "succeeded"
    BY <1>1, <2>2 DEF IInv, ReadsFollowWrites, Completed
  <2> DEFINE to == ops[r].to
             j == Needed(ops[r].rule, to)
             k == Needed(ops[w].rule, to)
  <2>4. /\ to \in SUBSET Handle /\ Done(r) = Asked(r) /\ Asked(r) \subseteq Node
        /\ j \in Nat \ {0} /\ Asked(r) = Contacted(j, to) /\ Cardinality(Asked(r)) = j
    BY <1>1, <2>2, SuccessMeansAllAnswered, OpsTyped DEF IInv, Asked
  <2>5. /\ k \in Nat \ {0} /\ Asked(w) = Contacted(k, to) /\ Cardinality(Asked(w)) = k
    BY <1>1, <2>1, <2>3, SuccessMeansAllAnswered DEF IInv, Asked
  <2> HIDE DEF to, j, k
  <2>6. Asked(r) \subseteq Asked(w) \/ Asked(w) \subseteq Asked(r)
    <3>1. CASE j <= k
      BY <2>4, <2>5, <3>1, ContactedNested
    <3>2. CASE k <= j
      BY <2>4, <2>5, <3>2, ContactedNested
    <3>3. QED
      BY <2>4, <2>5, <3>1, <3>2
  <2>7. Asked(r) # {} /\ Asked(w) # {}
    BY <2>4, <2>5, FS_EmptySet
  <2>8. PICK n : n \in Asked(r) \cap Asked(w) \cap Node
    BY <2>4, <2>6, <2>7
  <2>9. n \in Done(r)
    BY <2>4, <2>8
  <2>10. QED
    BY <1>1, <2>1, <2>2, <2>8, <2>9 DEF IInv, ReadsFollowWrites
<1>2. QED
  BY <1>1, Invariant, PTL

--------------------------------------------------------------------------------
(***************************************************************************)
(* No request waits for nothing.                                            *)
(***************************************************************************)

\* A request goes by a set with the requesting node in it.
AsksSomebody == \A i \in DOMAIN ops : ops[i].to # {}

LEMMA RequestAsksSomebody ==
  ASSUME TypeOK, AsksSomebody, NEW op, op.to # {}, ops' = Append(ops, op)
  PROVE  AsksSomebody'
<1>1. \A i \in DOMAIN ops' : (i \in DOMAIN ops /\ ops'[i] = ops[i]) \/ ops'[i] = op
  BY DEF TypeOK
<1>2. QED
  BY <1>1 DEF AsksSomebody

LEMMA StepAsksSomebody ==
  ASSUME TypeOK, AsksSomebody, [Next]_vars
  PROVE  AsksSomebody'
<1>1. ASSUME NEW n \in Node, RequestRead(n) \/ RequestWrite(n) \/ RequestWriteK(n)
      PROVE  AsksSomebody'
  <2>1. PICK i0, kind, to, rule, type, status, new :
          Sends(i0, kind, to, rule, type, status, new)
    BY <1>1, RequestSends
  <2>2. NewOp(kind, to, rule, status).to = to
    BY DEF NewOp
  <2>3. to # {} /\ ops' = Append(ops, NewOp(kind, to, rule, status))
    BY <2>1 DEF Sends
  <2>4. QED
    BY <2>2, <2>3, RequestAsksSomebody
<1>2. ASSUME NEW m \in wire, OnAnswer(m)
      PROVE  AsksSomebody'
  BY <1>2, AnswerFields DEF AsksSomebody
<1>3. ASSUME NEW i \in OpId, Timeout(i)
      PROVE  AsksSomebody'
  <2>1. /\ i \in DOMAIN ops /\ ops[i] \in Op /\ DOMAIN ops' = DOMAIN ops
        /\ \A k \in DOMAIN ops \ {i} : ops'[k] = ops[k]
        /\ ops'[i] = [ops[i] EXCEPT !.status = "timeout"]
    BY <1>3, TimeoutFields
  <2>2. ops'[i].to = ops[i].to
    BY <2>1 DEF Op
  <2>3. QED
    BY <2>1, <2>2 DEF AsksSomebody
<1>4. CASE UNCHANGED ops
  BY <1>4 DEF AsksSomebody
<1>5. QED
  BY <1>1, <1>2, <1>3, <1>4 DEF Next, OnWire, Arrive, OnMailbox, OnWriteLocal, OnReadLocal,
                                OnPublish, vars

\* A request that lacks an answer has asked somebody who has still to give it.
LEMMA SomebodyOwes ==
  ASSUME TypeOK, AnswersAreCounted, AsksSomebody, NEW i, Waiting(i), Invalid \notin ops[i].to,
         ops[i].rule # [rule |-> "k", k |-> 0]
  PROVE  \E n \in Asked(i) \cap Node : Outstanding(i, n)
<1> DEFINE to == ops[i].to
           rule == ops[i].rule
           needed == Needed(rule, to)
<1>1. i \in DOMAIN ops /\ ops[i].status = "waiting" /\ to # {}
  BY DEF Waiting, AsksSomebody
<1>2. /\ to \in SUBSET Handle /\ rule \in Rules /\ IsFiniteSet(to) /\ needed \in Nat
      /\ Asked(i) \subseteq to /\ Done(i) \subseteq Asked(i) /\ IsFiniteSet(Asked(i))
  BY <1>1, OpsTyped
<1>3. Asked(i) \subseteq Node
  BY <1>2 DEF Handle
<1>4. Cardinality(to) \in Nat \ {0}
  BY <1>1, <1>2, FS_CardinalityType, FS_EmptySet
<1>5. needed # 0 /\ needed <= Cardinality(to)
  <2>1. CASE rule.rule = "all"
    BY <1>4, <2>1 DEF Needed
  <2>2. CASE rule.rule = "majority"
    <3>1. needed = Cardinality(to) \div 2 + 1
      BY <2>2 DEF Needed
    <3>2. QED
      BY <1>4, <3>1
  <2>3. CASE rule.rule = "k"
    <3>1. rule.k \in Nat /\ rule.k # 0
      BY <1>2, <2>3, KIsNat DEF Rules
    <3>2. needed = IF Cardinality(to) < rule.k THEN Cardinality(to) ELSE rule.k
      BY <2>3 DEF Needed
    <3>3. QED
      BY <1>4, <3>1, <3>2
  <2>4. QED
    BY <1>2, <2>1, <2>2, <2>3 DEF Rules
<1>6. Cardinality(Done(i)) < needed
  BY <1>1, <1>5 DEF AnswersAreCounted
<1>7. Cardinality(Asked(i)) >= needed
  BY <1>2, <1>4, <1>5, ContactedReaches DEF Asked
<1>8. Done(i) # Asked(i)
  BY <1>2, <1>6, <1>7, FS_CardinalityType
<1>9. QED
  BY <1>2, <1>3, <1>8 DEF Done

\* While a request waits, somebody that it asks has still to be heard of, and a message
\* to or from that node is there: what RequestsComplete needs beside fairness.
THEOREM NoRequestWaitsInVain == Spec => []WaitingIsOwed
<1>1. Init => AsksSomebody
  BY DEF Init, AsksSomebody
<1>2. TypeOK /\ AsksSomebody /\ [Next]_vars => AsksSomebody'
  BY StepAsksSomebody
<1>3. TypeOK /\ AnswersAreCounted /\ AsksSomebody => WaitingIsOwed
  <2>1. SUFFICES ASSUME TypeOK, AnswersAreCounted, AsksSomebody, NEW i \in OpId, Waiting(i),
                        Invalid \notin ops[i].to, ops[i].rule # [rule |-> "k", k |-> 0]
                 PROVE  \/ \E m \in wire : m.op = i
                        \/ \E n \in Node : \E j \in DOMAIN mailbox[n] :
                             mailbox[n][j].op = i /\ mailbox[n][j].type # "publish"
    BY DEF WaitingIsOwed
  <2>2. PICK n \in Asked(i) \cap Node : Outstanding(i, n)
    BY <2>1, SomebodyOwes
  <2>3. QED
    BY <2>2 DEF Outstanding, Queued, QueuedIn, OnWay
<1>4. IInv => TypeOK /\ AnswersAreCounted
  BY DEF IInv
<1>5. QED
  BY <1>1, <1>2, <1>3, <1>4, Invariant, PTL DEF Spec

--------------------------------------------------------------------------------
(***************************************************************************)
(* The set with quorums.  What a read returns has to be in the state of a   *)
(* node for the next read to find it, and what is there has to be written:  *)
(* QInv, which is inductive beside IInv.                                    *)
(***************************************************************************)

\* The writes that have been sent, completed or not.
Sent == {i \in DOMAIN ops : ops[i].kind = "write" /\ ops[i].status # "unexpected"}

\* There is a message of request i, or there was one to write.
Heard(i) == (\E m \in wire : m.op = i) \/ \E n \in Node : \E q \in InBox(n) : q.op = i

\* Nothing is heard of a request that has failed at once, and the replicas hold writes.
OnlyWritesAreStored ==
  /\ \A i \in DOMAIN ops : Heard(i) => ops[i].status # "unexpected"
  /\ \A n \in Node : cvrdt[n] \subseteq Sent

\* What a reader has or will have is in the state of some node that it asks.
AnswersAreStored ==
  /\ \A m \in wire : m.type = "read_succeed" => m.crdt \subseteq cvrdt[m.at]
  /\ \A r \in DOMAIN ops : \A w \in ops[r].crdt :
       \E n \in Asked(r) \cap Node : w \in cvrdt[n]

\* The reader of r has w or will have it once it has heard of n.
Shows(r, n, w) ==
  /\ \A m \in wire : m.op = r /\ m.at = n /\ m.type = "read_succeed" => w \in m.crdt
  /\ n \in Done(r) => w \in ops[r].crdt

\* A read follows the reads that had succeeded when it was requested: what they returned
\* is in the state of a node that they asked, which answers with no less.
ReadsFollowReads ==
  \A r \in DOMAIN ops : \A q \in ops[r].after :
    ops[r].kind = "read" /\ ops[q].kind = "read" =>
      \A w \in ops[q].crdt : \E n \in Asked(q) \cap Node :
        w \in cvrdt[n] /\ (n \in Asked(r) => Shows(r, n, w))

QInv == OnlyWritesAreStored /\ AnswersAreStored /\ ReadsFollowReads

\* What a step does to the requests that are there and to the replicas ...
RequestsStay ==
  /\ \A n \in Node : cvrdt[n] \subseteq cvrdt'[n]
  /\ \A i \in DOMAIN ops :
       /\ i \in DOMAIN ops' /\ Asked(i)' = Asked(i)
       /\ ops'[i].kind = ops[i].kind /\ ops'[i].after = ops[i].after
       /\ ops'[i].status = "unexpected" <=> ops[i].status = "unexpected"
       /\ ops[i].status = "succeeded" => ops'[i] = ops[i]

\* ... to what the readers know ...
AnswersComeFromNodes ==
  /\ \A m \in wire' : m.type = "read_succeed" =>
       m.op \in DOMAIN ops /\ (m \in wire \/ m.crdt = cvrdt[m.at])
  /\ \A i \in DOMAIN ops :
       /\ ops[i].crdt \subseteq ops'[i].crdt
       /\ \A w \in ops'[i].crdt \ ops[i].crdt :
            \E m \in wire : m.op = i /\ m.type = "read_succeed" /\ w \in m.crdt
       /\ ops[i].kind = "read" => \A n \in Done(i)' \ Done(i) :
            \E m \in wire : /\ m.op = i /\ m.at = n /\ m.type = "read_succeed"
                            /\ m.crdt \subseteq ops'[i].crdt

\* ... what a request is at first ...
RequestsAreNew ==
  \A i \in DOMAIN ops' \ DOMAIN ops :
    /\ ops'[i].crdt = {} /\ ops'[i].after = Completed
    /\ ops'[i].kind = "read" => Done(i)' = {}

\* ... and where the writes come from.
WritesGetAround ==
  /\ \A i \in DOMAIN ops' :
       Heard(i)' => Heard(i) \/ (i \notin DOMAIN ops /\ ops'[i].status = "waiting")
  /\ \A n \in Node : \A w \in cvrdt'[n] \ cvrdt[n] :
       \E q \in InBox(n) : q.op = w /\ q.type = "publish"

Effect == RequestsStay /\ AnswersComeFromNodes /\ RequestsAreNew /\ WritesGetAround

LEMMA RequestEffect ==
  ASSUME IInv, NEW n \in Node, RequestRead(n) \/ RequestWrite(n) \/ RequestWriteK(n)
  PROVE  Effect
<1>1. PICK i0, kind, to, rule, type, status, new :
        Sends(i0, kind, to, rule, type, status, new)
  BY RequestSends
<1>2. TypeOK /\ MessagesAreAsked /\ TypeOK'
  BY RequestType DEF IInv
<1>3. /\ \A i \in DOMAIN ops : Done(i)' = Done(i)
      /\ status = "waiting" => Done(i0)' = {}
  BY <1>1, <1>2, NewRequest DEF Sends
<1> DEFINE op == NewOp(kind, to, rule, status)
<1>4. op \in Op /\ op.kind = kind /\ op.status = status /\ op.crdt = {} /\ op.after = Completed
  BY <1>1, <1>2, NewOpType DEF NewOp, Sends
<1>5. /\ DOMAIN ops' = DOMAIN ops \cup {i0} /\ i0 \notin DOMAIN ops
      /\ \A i \in DOMAIN ops : ops'[i] = ops[i]
      /\ ops'[i0] = op
  <2>1. ops \in Seq(Op) /\ i0 = Len(ops) + 1 /\ ops' = Append(ops, op)
    BY <1>1, <1>2 DEF TypeOK, Sends
  <2> HIDE DEF op
  <2>2. QED
    BY <1>4, <2>1, Appended
<1> HIDE DEF op
<1>6. /\ wire' = wire \cup new /\ UNCHANGED <<mailbox, cvrdt>>
      /\ kind = "read" => status = "waiting"
      /\ status = "unexpected" => new = {}
      /\ status \in {"waiting", "unexpected"} /\ type \in {"write_local", "read_local"}
  BY <1>1 DEF Sends
<1>7. \A v \in new : v.op = i0 /\ v.type = type
  BY <1>1 DEF Sends, SentFor
<1>8. RequestsStay
  BY <1>5, <1>6 DEF RequestsStay, Asked
<1>9. AnswersComeFromNodes
  BY <1>2, <1>3, <1>5, <1>6, <1>7 DEF AnswersComeFromNodes, MessagesAreAsked
<1>10. RequestsAreNew
  BY <1>3, <1>4, <1>5, <1>6 DEF RequestsAreNew
<1>11. WritesGetAround
  <2>1. \A i : Heard(i)' => Heard(i) \/ (i = i0 /\ status = "waiting")
    BY <1>6, <1>7 DEF Heard, InBox
  <2>2. QED
    BY <1>4, <1>5, <1>6, <2>1 DEF WritesGetAround
<1>12. QED
  BY <1>8, <1>9, <1>10, <1>11 DEF Effect

LEMMA ArriveEffect ==
  ASSUME IInv, NEW m, Arrive(m)
  PROVE  Effect
<1>1. TypeOK /\ MessagesAreAsked /\ \A i : Done(i)' = Done(i)
  BY ArriveStep DEF IInv
<1>2. /\ m \in wire /\ m.at \in Node /\ [type |-> m.type, op |-> m.op] \in ReplicaMessage
      /\ wire' = wire \ {m} /\ UNCHANGED <<ops, cvrdt>>
      /\ mailbox' = [mailbox EXCEPT ![m.at] = Append(@, [type |-> m.type, op |-> m.op])]
  BY <1>1, MessageFields DEF TypeOK, Arrive, ReplicaMessage
<1>3. \A n \in Node : \A q \in InBox(n)' : q \in InBox(n) \/ q.op = m.op
  <2>1. ASSUME NEW n \in Node
        PROVE  \A q \in InBox(n)' : q \in InBox(n) \/ q.op = m.op
    <3>1. CASE n # m.at
      BY <1>1, <1>2, <3>1 DEF TypeOK, InBox
    <3>2. CASE n = m.at
      <4> DEFINE q0 == [type |-> m.type, op |-> m.op]
      <4>1. mailbox[n] \in Seq(ReplicaMessage) /\ mailbox'[n] = Append(mailbox[n], q0)
        BY <1>1, <1>2, <3>2 DEF TypeOK
      <4>2. q0 \in ReplicaMessage /\ q0.op = m.op
        BY <1>2
      <4> HIDE DEF q0
      <4>3. \A j \in DOMAIN mailbox'[n] :
              (j \in DOMAIN mailbox[n] /\ mailbox'[n][j] = mailbox[n][j]) \/ mailbox'[n][j] = q0
        BY <4>1, <4>2, Appended
      <4>4. QED
        BY <4>2, <4>3 DEF InBox
    <3>3. QED
      BY <3>1, <3>2
  <2>2. QED
    BY <2>1
<1>4. RequestsStay
  BY <1>2 DEF RequestsStay, Asked
<1>5. AnswersComeFromNodes
  BY <1>1, <1>2 DEF AnswersComeFromNodes, MessagesAreAsked
<1>6. RequestsAreNew
  BY <1>2 DEF RequestsAreNew
<1>7. WritesGetAround
  <2>1. \A i : Heard(i)' => Heard(i)
    BY <1>2, <1>3 DEF Heard
  <2>2. QED
    BY <1>2, <2>1 DEF WritesGetAround
<1>8. QED
  BY <1>4, <1>5, <1>6, <1>7 DEF Effect

LEMMA OnMailboxEffect ==
  ASSUME IInv, NEW n \in Node, OnMailbox(n)
  PROVE  Effect
<1> DEFINE q == Head(mailbox[n])
<1>1. TypeOK /\ MessagesAreAsked /\ \A i : Done(i)' = Done(i)
  BY OnMailboxStep DEF IInv
<1>2. /\ q \in InBox(n) /\ \A k \in Node \ {n} : mailbox'[k] = mailbox[k]
      /\ \A j \in DOMAIN mailbox'[n] :
           \/ j + 1 \in DOMAIN mailbox[n] /\ mailbox'[n][j] = mailbox[n][j + 1]
           \/ mailbox'[n][j] = [type |-> "publish", op |-> q.op]
  BY <1>1, MovedUp
<1>3. /\ UNCHANGED ops /\ \A k \in Node : cvrdt[k] \subseteq cvrdt'[k]
      /\ q.type = "publish" => wire' = wire
      /\ q.type # "publish" => \E a :
           /\ wire' = wire \cup {a}
           /\ a.op = q.op /\ a.at = n
           /\ \/ q.type = "write_local" /\ a.type = "write_succeed"
              \/ q.type = "read_local" /\ a.type = "read_succeed" /\ a.crdt = cvrdt[n]
  BY <1>1, Handled
<1>4. \A k \in Node : \A w \in cvrdt'[k] \ cvrdt[k] :
        k = n /\ q.op = w /\ q.type = "publish"
  BY <1>1 DEF TypeOK, OnMailbox, OnWriteLocal, OnReadLocal, OnPublish, Handles
<1>5. q.op \in DOMAIN ops
  BY <1>1, <1>2 DEF MessagesAreAsked
<1> HIDE DEF q
<1>6. \A k \in Node : \A v \in InBox(k)' : v \in InBox(k) \/ (k = n /\ v.op = q.op)
  BY <1>2 DEF InBox
<1>7. \A v \in wire' : \/ v \in wire
                       \/ /\ v.op = q.op /\ v.at = n
                          /\ v.type = "write_succeed" \/ v.crdt = cvrdt[n]
  BY <1>3
<1>8. RequestsStay
  BY <1>3 DEF RequestsStay, Asked
<1>9. AnswersComeFromNodes
  BY <1>1, <1>3, <1>5, <1>7 DEF AnswersComeFromNodes, MessagesAreAsked
<1>10. RequestsAreNew
  BY <1>3 DEF RequestsAreNew
<1>11. WritesGetAround
  <2>1. \A i : Heard(i)' => Heard(i)
    BY <1>2, <1>6, <1>7 DEF Heard
  <2>2. QED
    BY <1>2, <1>4, <2>1 DEF WritesGetAround
<1>12. QED
  BY <1>8, <1>9, <1>10, <1>11 DEF Effect

LEMMA OnAnswerEffect ==
  ASSUME IInv, NEW m, OnAnswer(m)
  PROVE  Effect
<1> DEFINE i == m.op
<1>1. TypeOK /\ MessagesAreAsked
  BY DEF IInv
<1>2. /\ m \in wire /\ m.type \in {"write_succeed", "read_succeed"}
      /\ wire' = wire \ {m} /\ UNCHANGED <<mailbox, cvrdt>>
  BY DEF OnAnswer
<1>3. /\ i \in DOMAIN ops /\ ops[i].status = "waiting"
      /\ DOMAIN ops' = DOMAIN ops
      /\ \A k \in DOMAIN ops \ {i} : ops'[k] = ops[k]
      /\ ops'[i].kind = ops[i].kind /\ ops'[i].to = ops[i].to /\ ops'[i].rule = ops[i].rule
      /\ ops'[i].after = ops[i].after
      /\ ops'[i].crdt = IF m.type = "read_succeed" THEN ops[i].crdt \cup m.crdt
                        ELSE ops[i].crdt
      /\ ops'[i].status \in {"succeeded", "waiting"}
  BY <1>1, AnswerFields
<1>4. \A k \in DOMAIN ops : Done(k)' = Done(k) \/ (k = i /\ Done(k)' = Done(k) \cup {m.at})
  BY OnAnswerStep
<1>5. ops[i].kind = "write" <=> m.type = "write_succeed"
  BY <1>1, <1>2 DEF MessagesAreAsked
<1>6. RequestsStay
  BY <1>2, <1>3 DEF RequestsStay, Asked
<1>7. AnswersComeFromNodes
  <2>1. ASSUME NEW k \in DOMAIN ops
        PROVE  /\ ops[k].crdt \subseteq ops'[k].crdt
               /\ \A w \in ops'[k].crdt \ ops[k].crdt :
                    \E v \in wire : v.op = k /\ v.type = "read_succeed" /\ w \in v.crdt
    BY <1>2, <1>3
  <2>2. ASSUME NEW k \in DOMAIN ops, ops[k].kind = "read", NEW n \in Done(k)' \ Done(k)
        PROVE  \E v \in wire : /\ v.op = k /\ v.at = n /\ v.type = "read_succeed"
                               /\ v.crdt \subseteq ops'[k].crdt
    <3>1. k = i /\ n = m.at
      BY <1>4, <2>2
    <3>2. m.type = "read_succeed" /\ m.crdt \subseteq ops'[k].crdt
      BY <1>2, <1>3, <1>5, <2>2, <3>1
    <3>3. QED
      BY <1>2, <3>1, <3>2
  <2>3. QED
    BY <1>1, <1>2, <2>1, <2>2 DEF AnswersComeFromNodes, MessagesAreAsked
<1>8. RequestsAreNew
  BY <1>3 DEF RequestsAreNew
<1>9. WritesGetAround
  BY <1>2 DEF WritesGetAround, Heard, InBox
<1>10. QED
  BY <1>6, <1>7, <1>8, <1>9 DEF Effect

LEMMA TimeoutEffect ==
  ASSUME IInv, NEW i, Timeout(i)
  PROVE  Effect
<1>1. TypeOK /\ MessagesAreAsked /\ \A k \in DOMAIN ops : Done(k)' = Done(k)
  BY TimeoutStep DEF IInv
<1>2. /\ i \in DOMAIN ops /\ ops[i].status = "waiting" /\ ops[i] \in Op
      /\ DOMAIN ops' = DOMAIN ops
      /\ \A k \in DOMAIN ops \ {i} : ops'[k] = ops[k]
      /\ ops'[i] = [ops[i] EXCEPT !.status = "timeout"]
  BY <1>1, TimeoutFields
<1>3. UNCHANGED <<wire, mailbox, cvrdt>>
  BY DEF Timeout
<1>4. /\ ops'[i].status = "timeout" /\ ops'[i].crdt = ops[i].crdt
      /\ ops'[i].kind = ops[i].kind /\ ops'[i].after = ops[i].after
      /\ ops'[i].to = ops[i].to /\ ops'[i].rule = ops[i].rule
  BY <1>2 DEF Op
<1>5. RequestsStay
  BY <1>2, <1>3, <1>4 DEF RequestsStay, Asked
<1>6. AnswersComeFromNodes
  BY <1>1, <1>2, <1>3, <1>4 DEF AnswersComeFromNodes, MessagesAreAsked
<1>7. RequestsAreNew
  BY <1>2 DEF RequestsAreNew
<1>8. WritesGetAround
  BY <1>3 DEF WritesGetAround, Heard, InBox
<1>9. QED
  BY <1>5, <1>6, <1>7, <1>8 DEF Effect

LEMMA UnchangedEffect ==
  ASSUME IInv, UNCHANGED vars
  PROVE  Effect
<1>1. UNCHANGED <<ops, wire, mailbox, cvrdt>> /\ MessagesAreAsked
  BY DEF vars, IInv
<1>2. \A i : Asked(i)' = Asked(i) /\ Done(i)' = Done(i) /\ (Heard(i)' <=> Heard(i))
  BY <1>1 DEF Asked, Done, Outstanding, Queued, QueuedIn, OnWay, Heard, InBox
<1>3. QED
  BY <1>1, <1>2 DEF Effect, RequestsStay, AnswersComeFromNodes, RequestsAreNew,
                    WritesGetAround, MessagesAreAsked

LEMMA StepEffect ==
  ASSUME IInv, [Next]_vars
  PROVE  Effect
<1>1. CASE UNCHANGED vars
  BY <1>1, UnchangedEffect
<1>2. CASE Next
  BY <1>2, RequestEffect, OnMailboxEffect, ArriveEffect, OnAnswerEffect, TimeoutEffect
     DEF Next, OnWire
<1>3. QED
  BY <1>1, <1>2

LEMMA OnlyWritesStep ==
  ASSUME TypeOK, MessagesAreAsked, OnlyWritesAreStored, Effect
  PROVE  OnlyWritesAreStored'
<1>1. RequestsStay /\ WritesGetAround
  BY DEF Effect
<1>2. \A i : Heard(i) => i \in DOMAIN ops
  BY DEF Heard, MessagesAreAsked
<1>3. ASSUME NEW i \in DOMAIN ops', Heard(i)'
      PROVE  ops'[i].status # "unexpected"
  BY <1>1, <1>2, <1>3 DEF RequestsStay, WritesGetAround, OnlyWritesAreStored
<1>4. Sent \subseteq Sent'
  BY <1>1 DEF RequestsStay, Sent
<1>5. ASSUME NEW n \in Node, NEW w \in cvrdt'[n]
      PROVE  w \in Sent'
  <2>1. CASE w \in cvrdt[n]
    BY <1>4, <2>1 DEF OnlyWritesAreStored
  <2>2. CASE w \notin cvrdt[n]
    <3>1. PICK q \in InBox(n) : q.op = w /\ q.type = "publish"
      BY <1>1, <1>5, <2>2 DEF WritesGetAround
    <3>2. w \in DOMAIN ops /\ ops[w].kind = "write" /\ Heard(w)
      BY <3>1 DEF MessagesAreAsked, Heard
    <3>3. QED
      BY <1>4, <3>2 DEF OnlyWritesAreStored, Sent
  <2>3. QED
    BY <2>1, <2>2
<1>6. QED
  BY <1>3, <1>5 DEF OnlyWritesAreStored

LEMMA StoredStep ==
  ASSUME TypeOK, TypeOK', MessagesAreAsked, AnswersAreStored, Effect
  PROVE  AnswersAreStored'
<1>1. RequestsStay /\ AnswersComeFromNodes /\ RequestsAreNew
  BY DEF Effect
<1>2. ASSUME NEW m \in wire', m.type = "read_succeed"
      PROVE  m.crdt \subseteq cvrdt'[m.at]
  <2>1. m.at \in Node
    BY <1>2, MessageFields DEF TypeOK
  <2>2. QED
    BY <1>1, <1>2, <2>1 DEF RequestsStay, AnswersComeFromNodes, AnswersAreStored
<1>3. ASSUME NEW r \in DOMAIN ops', NEW w \in ops'[r].crdt
      PROVE  \E n \in Asked(r)' \cap Node : w \in cvrdt'[n]
  <2>1. r \in DOMAIN ops
    BY <1>1, <1>3 DEF RequestsAreNew
  <2>2. \E n \in Asked(r) \cap Node : w \in cvrdt[n]
    <3>1. CASE w \in ops[r].crdt
      BY <2>1, <3>1 DEF AnswersAreStored
    <3>2. CASE w \notin ops[r].crdt
      <4>1. PICK m \in wire : m.op = r /\ m.type = "read_succeed" /\ w \in m.crdt
        BY <1>1, <1>3, <2>1, <3>2 DEF AnswersComeFromNodes
      <4>2. m.at \in Asked(r) \cap Node /\ w \in cvrdt[m.at]
        BY <4>1, MessageFields DEF TypeOK, MessagesAreAsked, AnswersAreStored
      <4>3. QED
        BY <4>2
    <3>3. QED
      BY <3>1, <3>2
  <2>3. QED
    BY <1>1, <2>1, <2>2 DEF RequestsStay
<1>4. QED
  BY <1>2, <1>3 DEF AnswersAreStored

LEMMA ReadsFollowReadsStep ==
  ASSUME TypeOK, TypeOK', ReadsFollowWrites, AnswersAreStored, ReadsFollowReads, Effect
  PROVE  ReadsFollowReads'
<1>1. RequestsStay /\ AnswersComeFromNodes /\ RequestsAreNew
  BY DEF Effect
<1>2. SUFFICES ASSUME NEW r \in DOMAIN ops', NEW q \in ops'[r].after,
                      ops'[r].kind = "read", ops'[q].kind = "read", NEW w \in ops'[q].crdt
               PROVE  \E n \in Asked(q)' \cap Node :
                        w \in cvrdt'[n] /\ (n \in Asked(r)' => Shows(r, n, w)')
  BY DEF ReadsFollowReads
<1>3. q \in Completed
  BY <1>1, <1>2 DEF RequestsStay, RequestsAreNew, ReadsFollowWrites
<1>4. /\ q \in DOMAIN ops /\ ops'[q] = ops[q] /\ Asked(q)' = Asked(q)
      /\ ops[q].kind = "read" /\ w \in ops[q].crdt
  BY <1>1, <1>2, <1>3 DEF Completed, RequestsStay
<1>5. CASE r \in DOMAIN ops
  <2>1. /\ q \in ops[r].after /\ ops[r].kind = "read" /\ Asked(r)' = Asked(r)
    BY <1>1, <1>2, <1>5 DEF RequestsStay
  <2>2. PICK n \in Asked(q) \cap Node : w \in cvrdt[n] /\ (n \in Asked(r) => Shows(r, n, w))
    BY <1>4, <1>5, <2>1 DEF ReadsFollowReads
  <2>3. ASSUME n \in Asked(r)
        PROVE  Shows(r, n, w)'
    <3>1. Shows(r, n, w)
      BY <2>2, <2>3
    <3>2. \A m \in wire' : m.op = r /\ m.at = n /\ m.type = "read_succeed" => w \in m.crdt
      BY <1>1, <2>2, <3>1 DEF AnswersComeFromNodes, Shows
    <3>3. ASSUME n \in Done(r)'
          PROVE  w \in ops'[r].crdt
      <4>1. CASE n \in Done(r)
        BY <1>1, <1>5, <3>1, <4>1 DEF AnswersComeFromNodes, Shows
      <4>2. CASE n \notin Done(r)
        <5>1. PICK m \in wire : /\ m.op = r /\ m.at = n /\ m.type = "read_succeed"
                               /\ m.crdt \subseteq ops'[r].crdt
          BY <1>1, <1>5, <2>1, <3>3, <4>2 DEF AnswersComeFromNodes
        <5>2. QED
          BY <3>1, <5>1 DEF Shows
      <4>3. QED
        BY <4>1, <4>2
    <3>4. QED
      BY <3>2, <3>3 DEF Shows
  <2>4. QED
    BY <1>1, <1>4, <2>1, <2>2, <2>3 DEF RequestsStay
<1>6. CASE r \notin DOMAIN ops
  <2>1. PICK n \in Asked(q) \cap Node : w \in cvrdt[n]
    BY <1>4 DEF AnswersAreStored
  <2>2. Shows(r, n, w)'
    BY <1>1, <1>2, <1>6 DEF Shows, AnswersComeFromNodes, RequestsAreNew
  <2>3. QED
    BY <1>1, <1>4, <2>1, <2>2 DEF RequestsStay
<1>7. QED
  BY <1>5, <1>6

LEMMA QInvStep ==
  ASSUME IInv, IInv', QInv, [Next]_vars
  PROVE  QInv'
<1>1. Effect
  BY StepEffect
<1>2. TypeOK /\ TypeOK' /\ MessagesAreAsked /\ ReadsFollowWrites
  BY DEF IInv
<1>3. QED
  BY <1>1, <1>2, OnlyWritesStep, StoredStep, ReadsFollowReadsStep DEF QInv

\* What a reader is told and what it returns has been written and is in the state of a
\* node that it asks, where a later read that asks this node finds it.
THEOREM AnswersAreKept == Spec => []QInv
<1>1. Init => QInv
  BY DEF Init, QInv, OnlyWritesAreStored, AnswersAreStored, ReadsFollowReads
<1>2. IInv /\ IInv' /\ QInv /\ [Next]_vars => QInv'
  BY QInvStep
<1>3. QED
  BY <1>1, <1>2, Invariant, PTL DEF Spec

--------------------------------------------------------------------------------
(***************************************************************************)
(* The refinement, step by step.                                           *)
(***************************************************************************)

\* What the mapping makes of the requests.
MapShape ==
  /\ ops \in Seq(Op) /\ DOMAIN ops = 1 .. Len(ops) /\ Len(ops) \in Nat
  /\ Requests = [i \in 1 .. Len(ops) |-> Requests[i]]
  /\ Outcome = [i \in 1 .. Len(ops) |-> Outcome[i]]

Request(kind, quorum, after) == [kind |-> kind, quorum |-> quorum, after |-> after]

Told(status, result) == [status |-> status, result |-> result]

Result(op) == IF op.status = "succeeded" /\ op.kind = "read" THEN op.crdt ELSE {}

MapValues ==
  \A i \in DOMAIN ops :
    /\ Requests[i] = Request(ops[i].kind, Asked(i), ops[i].after)
    /\ Requests[i].kind = ops[i].kind /\ Requests[i].quorum = Asked(i)
    /\ Requests[i].after = ops[i].after
    /\ Outcome[i] = Told(ops[i].status, Result(ops[i]))
    /\ Outcome[i].status = ops[i].status /\ Outcome[i].result = Result(ops[i])

AllAnswered == \A i \in Completed : Done(i) = Asked(i) /\ Asked(i) \subseteq Node

Mapped == MapShape /\ MapValues /\ AllAnswered

LEMMA RequestFields ==
  ASSUME NEW kind, NEW quorum, NEW after
  PROVE  LET r == Request(kind, quorum, after)
         IN  r.kind = kind /\ r.quorum = quorum /\ r.after = after
BY DEF Request

LEMMA ToldFields ==
  ASSUME NEW status, NEW result
  PROVE  Told(status, result).status = status /\ Told(status, result).result = result
BY DEF Told

LEMMA MapOfTyped ==
  ASSUME IInv
  PROVE  Mapped
<1>1. TypeOK /\ AnswersAreCounted
  BY DEF IInv
<1>2. ops \in Seq(Op) /\ DOMAIN ops = 1 .. Len(ops) /\ Len(ops) \in Nat
  BY <1>1 DEF TypeOK
<1>3. ASSUME NEW i \in DOMAIN ops
      PROVE  Quorum[ops[i].rule][ops[i].to] = Asked(i)
  <2>1. ops[i].rule \in Rules /\ ops[i].to \in SUBSET Handle
    BY <1>1, OpsTyped
  <2>2. QED
    BY <2>1 DEF Quorum, Asked
<1>4. MapValues
  <2>1. \A i \in DOMAIN ops : Requests[i] = Request(ops[i].kind, Asked(i), ops[i].after)
    BY <1>3 DEF Request, Requests
  <2>2. \A i \in DOMAIN ops : Outcome[i] = Told(ops[i].status, Result(ops[i]))
    BY DEF Told, Result, Outcome, Succeeded, Completed
  <2>3. QED
    BY <2>1, <2>2, RequestFields, ToldFields DEF MapValues
<1>5. /\ Requests = [i \in 1 .. Len(ops) |-> Requests[i]]
      /\ Outcome = [i \in 1 .. Len(ops) |-> Outcome[i]]
  BY <1>2 DEF Requests, Outcome
<1>6. AllAnswered
  BY <1>1, SuccessMeansAllAnswered DEF AllAnswered, Completed
<1>7. QED
  BY <1>2, <1>4, <1>5, <1>6 DEF Mapped, MapShape

\* A sequence that goes on after another is that with one element more.
LEMMA GoesOn ==
  ASSUME NEW n \in Nat, NEW f, NEW g,
         f = [i \in 1 .. n |-> f[i]], g = [i \in 1 .. n + 1 |-> g[i]],
         \A i \in 1 .. n : g[i] = f[i]
  PROVE  Len(f) = n /\ Len(g) = n + 1 /\ g = Append(f, g[n + 1]) /\ g # f
<1> DEFINE S == {g[i] : i \in 1 .. n + 1}
           e == g[n + 1]
<1>1. f \in [1 .. n -> S] /\ g \in [1 .. n + 1 -> S] /\ e \in S
  OBVIOUS
<1> HIDE DEF S, e
<1>2. f \in Seq(S) /\ g \in Seq(S) /\ Len(f) = n /\ Len(g) = n + 1
  BY <1>1
<1>3. /\ Append(f, e) \in Seq(S) /\ Len(Append(f, e)) = n + 1
      /\ DOMAIN Append(f, e) = 1 .. n + 1
      /\ \A i \in 1 .. n : Append(f, e)[i] = f[i]
      /\ Append(f, e)[n + 1] = e
  BY <1>1, <1>2, Appended
<1>4. ASSUME NEW i \in 1 .. n + 1
      PROVE  Append(f, e)[i] = g[i]
  <2>1. CASE i \in 1 .. n
    BY <1>3, <2>1
  <2>2. CASE i = n + 1
    BY <1>3, <2>2 DEF e
  <2>3. QED
    BY <2>1, <2>2
<1>5. g = Append(f, e)
  BY <1>1, <1>2, <1>3, <1>4
<1>6. Len(f) # Len(g)
  BY <1>2
<1>7. QED
  BY <1>2, <1>5, <1>6 DEF e

LEMMA AsksOne ==
  ASSUME NEW to \in (SUBSET Handle) \ {{}}, NEW rule \in Rules
  PROVE  Contacted(Needed(rule, to), to) # {}
<1> DEFINE k == Needed(rule, to)
<1>1. k \in Nat
  BY NeededFits
<1>2. CASE k = 0
  BY <1>2 DEF Contacted
<1>3. CASE k # 0
  <2>1. Contacted(k, to) = to \/ Cardinality(Contacted(k, to)) >= k
    BY <1>1, <1>3, ContactedReaches
  <2>2. k > 0
    BY <1>1, <1>3
  <2> HIDE DEF k
  <2>3. Contacted(k, to) # {}
    BY <1>1, <2>1, <2>2, FS_EmptySet
  <2>4. QED
    BY <2>3 DEF k
<1>4. QED
  BY <1>2, <1>3

\* A request begins.
LEMMA BeginMapped ==
  ASSUME IInv, MapShape, MapShape', MapValues, MapValues', NEW n \in Node,
         RequestRead(n) \/ RequestWrite(n) \/ RequestWriteK(n)
  PROVE  Quorums!Next
<1>1. PICK i0, kind, to, rule, type, status, new :
        Sends(i0, kind, to, rule, type, status, new)
  BY RequestSends
<1> DEFINE op == NewOp(kind, to, rule, status)
<1>2. /\ op \in Op /\ op.kind = kind /\ op.to = to /\ op.rule = rule
      /\ op.status = status /\ op.crdt = {} /\ op.after = Completed
  BY <1>1, NewOpType DEF NewOp, Sends, IInv
<1>3. /\ ops' = Append(ops, op) /\ i0 = Len(ops) + 1
      /\ to \in (SUBSET Handle) \ {{}} /\ rule \in Rules
      /\ kind \in {"read", "write"} /\ status \in {"waiting", "unexpected"}
  BY <1>1 DEF Sends
<1> HIDE DEF op
<1>4. /\ DOMAIN ops = 1 .. Len(ops) /\ DOMAIN ops' = 1 .. i0 /\ Len(ops) \in Nat
      /\ \A i \in DOMAIN ops : ops'[i] = ops[i]
      /\ ops'[i0] = op
  BY <1>2, <1>3, Appended DEF MapShape
<1>5. Len(ops') = Len(ops) + 1 /\ i0 \in DOMAIN ops'
  BY <1>3, <1>4 DEF MapShape
<1>6. \A i \in DOMAIN ops : Asked(i)' = Asked(i)
  BY <1>4 DEF Asked
<1>7. \A i \in 1 .. Len(ops) : Requests'[i] = Requests[i] /\ Outcome'[i] = Outcome[i]
  <2>1. 1 .. Len(ops) = DOMAIN ops /\ DOMAIN ops \subseteq DOMAIN ops'
    BY <1>3, <1>4
  <2>2. QED
    BY <1>4, <1>6, <2>1 DEF MapValues
<1>8. /\ Len(Outcome) = Len(ops) /\ Len(Outcome') = i0
      /\ Requests' = Append(Requests, Requests'[i0])
      /\ Outcome' = Append(Outcome, Outcome'[i0])
      /\ Outcome' # Outcome
  <2>1. Requests' = Append(Requests, Requests'[Len(ops) + 1])
    <3>1. /\ Requests = [i \in 1 .. Len(ops) |-> Requests[i]]
          /\ Requests' = [i \in 1 .. Len(ops) + 1 |-> Requests'[i]]
      BY <1>5 DEF MapShape
    <3>2. \A i \in 1 .. Len(ops) : Requests'[i] = Requests[i]
      BY <1>7
    <3>3. QED
      BY <1>4, <3>1, <3>2, GoesOn
  <2>2. /\ Len(Outcome) = Len(ops) /\ Len(Outcome') = Len(ops) + 1 /\ Outcome' # Outcome
        /\ Outcome' = Append(Outcome, Outcome'[Len(ops) + 1])
    <3>1. /\ Outcome = [i \in 1 .. Len(ops) |-> Outcome[i]]
          /\ Outcome' = [i \in 1 .. Len(ops) + 1 |-> Outcome'[i]]
      BY <1>5 DEF MapShape
    <3>2. \A i \in 1 .. Len(ops) : Outcome'[i] = Outcome[i]
      BY <1>7
    <3>3. Outcome' = Append(Outcome, Outcome'[Len(ops) + 1])
      BY <1>4, <3>1, <3>2, GoesOn
    <3>4. Len(Outcome) = Len(ops) /\ Len(Outcome') = Len(ops) + 1
      BY <1>4, <3>1, <3>2, GoesOn
    <3>5. Outcome' # Outcome
      BY <1>4, <3>4
    <3>6. QED
      BY <3>3, <3>4, <3>5
  <2>3. QED
    BY <1>3, <2>1, <2>2
<1>9. Outcome'[i0] = Told(status, {})
  BY <1>2, <1>3, <1>4, <1>5 DEF MapValues, Result
<1>10. Requests'[i0] = Request(kind, Asked(i0)', Completed)
  BY <1>2, <1>4, <1>5 DEF MapValues
<1>11. Asked(i0)' \in (SUBSET Handle) \ {{}}
  <2>1. Asked(i0)' = Contacted(Needed(rule, to), to)
    BY <1>2, <1>4 DEF Asked
  <2>2. QED
    BY <1>3, <2>1, AsksOne, ContactedSubset
<1>12. Quorums!Completed = Completed
  <2>1. DOMAIN Outcome = DOMAIN ops
    BY <1>4 DEF MapShape
  <2>2. \A i \in DOMAIN ops : Outcome[i].status = ops[i].status
    BY DEF MapValues
  <2>3. QED
    BY <2>1, <2>2 DEF Completed, Quorums!Completed
<1>13. Quorums!Begin
  <2>1. Len(Outcome) + 1 = i0
    BY <1>3, <1>8
  <2>2. \E s \in {"waiting", "unexpected"} :
          Outcome' = Append(Outcome, Told(s, {}))
    BY <1>3, <1>8, <1>9
  <2>3. /\ Requests'[i0].kind \in {"read", "write"}
        /\ Requests'[i0].quorum \in (SUBSET Handle) \ {{}}
        /\ Requests'[i0].after = Quorums!Completed
    BY <1>3, <1>10, <1>11, <1>12, RequestFields
  <2>4. QED
    BY <1>8, <2>1, <2>2, <2>3 DEF Quorums!Begin, Told
<1>14. QED
  BY <1>8, <1>13 DEF Quorums!Next

\* When the requests stay as they are the clients see nothing.
LEMMA QuietMapped ==
  ASSUME UNCHANGED ops
  PROVE  UNCHANGED <<Requests, Outcome>>
BY DEF Requests, Outcome, Succeeded, Completed

\* A request is told its result, or the reader or writer has one answer more.
LEMMA OnAnswerMapped ==
  ASSUME IInv, IInv', QInv, QInv', AllAnswered',
         MapShape, MapShape', MapValues, MapValues', NEW m, OnAnswer(m)
  PROVE  Quorums!Next \/ UNCHANGED <<Requests, Outcome>>
<1> DEFINE i == m.op
<1>1. /\ i \in DOMAIN ops /\ ops[i].status = "waiting"
      /\ DOMAIN ops' = DOMAIN ops /\ Len(ops') = Len(ops)
      /\ \A k \in DOMAIN ops \ {i} : ops'[k] = ops[k]
      /\ ops'[i].kind = ops[i].kind /\ ops'[i].to = ops[i].to /\ ops'[i].rule = ops[i].rule
      /\ ops'[i].after = ops[i].after
      /\ ops'[i].status = "succeeded" \/ ops'[i].status = "waiting"
  BY AnswerFields DEF IInv
<1>2. UNCHANGED cvrdt
  BY DEF OnAnswer
<1> HIDE DEF i
<1>3. \A k \in DOMAIN ops : Asked(k)' = Asked(k)
  BY <1>1 DEF Asked
<1>4. \A k \in DOMAIN ops : Requests'[k] = Requests[k]
  BY <1>1, <1>3 DEF MapValues
<1>5. Requests' = Requests
  BY <1>1, <1>4 DEF MapShape
<1>6. \A k \in DOMAIN ops \ {i} : Outcome'[k] = Outcome[k]
  BY <1>1 DEF MapValues, Result
<1>7. CASE ops'[i].status = "waiting"
  <2>1. Outcome'[i] = Outcome[i]
    BY <1>1, <1>7 DEF MapValues, Result
  <2>2. Outcome' = Outcome
    BY <1>1, <1>6, <2>1 DEF MapShape
  <2>3. QED
    BY <1>5, <2>2
<1>8. CASE ops'[i].status = "succeeded"
  <2> DEFINE result == IF ops[i].kind = "read" THEN ops'[i].crdt ELSE {}
  <2>1. Outcome'[i] = Told("succeeded", result)
    <3>1. Result(ops'[i]) = result
      BY <1>1, <1>8 DEF Result
    <3>2. QED
      BY <1>1, <1>8, <3>1 DEF MapValues
  <2>2. Outcome[i].status = "waiting"
    BY <1>1 DEF MapValues
  <2> HIDE DEF result
  <2>3. Outcome'[i].status = "succeeded" /\ Outcome'[i].result = result
    BY <2>1, ToldFields
  <2>4. Outcome' = [Outcome EXCEPT ![i] = Told("succeeded", result)]
    BY <1>1, <1>6, <2>1 DEF MapShape
  <2>5. /\ Requests[i].kind = ops[i].kind /\ Requests[i].quorum = Asked(i)
        /\ Requests[i].after = ops[i].after
    BY <1>1 DEF MapValues
  <2>6. Done(i)' = Asked(i) /\ Asked(i) \subseteq Node
    <3>1. Done(i)' = Asked(i)' /\ Asked(i)' \subseteq Node
      BY <1>1, <1>8 DEF AllAnswered, Completed
    <3>2. QED
      BY <1>1, <1>3, <3>1
  <2>7. ASSUME ops[i].kind = "read"
        PROVE  Quorums!MayReturn(i, result)
    <3>1. result = ops'[i].crdt /\ ops'[i].kind = "read"
      BY <1>1, <2>7 DEF result
    <3>2. Quorums!Written = Sent
      <4>1. DOMAIN Requests = DOMAIN ops
        BY DEF MapShape
      <4>2. \A k \in DOMAIN ops :
              Requests[k].kind = ops[k].kind /\ Outcome[k].status = ops[k].status
        BY DEF MapValues
      <4>3. QED
        BY <4>1, <4>2 DEF Quorums!Written, Sent
    <3>3. result \subseteq Sent
      <4>1. ASSUME NEW w \in ops'[i].crdt
            PROVE  \E n \in Node : w \in cvrdt'[n]
        BY <1>1 DEF QInv, AnswersAreStored
      <4>2. QED
        BY <1>2, <3>1, <4>1 DEF QInv, OnlyWritesAreStored
    <3>4. ASSUME NEW q \in ops[i].after
          PROVE  /\ q \in DOMAIN ops /\ q # i /\ ops[q].status = "succeeded"
                 /\ Asked(q)' = Asked(q) /\ ops'[q] = ops[q]
                 /\ Requests[q].kind = ops[q].kind /\ Requests[q].quorum = Asked(q)
                 /\ ops[q].kind = "read" => Outcome[q].result = ops[q].crdt
      <4>1. q \in DOMAIN ops /\ ops[q].status = "succeeded"
        BY <1>1, <3>4 DEF IInv, ReadsFollowWrites, Completed
      <4>2. q # i
        BY <1>1, <4>1
      <4>3. QED
        BY <1>1, <1>3, <4>1, <4>2 DEF MapValues, Result
    <3>5. ASSUME NEW q \in ops[i].after, ops[q].kind = "write", Asked(q) \cap Asked(i) # {}
          PROVE  q \in result
      <4>1. PICK n : n \in Asked(i) \cap Asked(q) \cap Node
        BY <2>6, <3>5
      <4>2. n \in Asked(i)' \cap Asked(q)' \cap Node /\ n \in Done(i)'
        BY <1>1, <1>3, <2>6, <3>4, <3>5, <4>1
      <4>3. q \in ops'[i].after /\ ops'[q].kind = "write"
        BY <1>1, <3>4, <3>5
      <4>4. QED
        BY <1>1, <3>1, <4>2, <4>3 DEF IInv, ReadsFollowWrites
    <3>6. ASSUME NEW q \in ops[i].after, ops[q].kind = "read", Asked(q) \subseteq Asked(i),
                 NEW w \in ops[q].crdt
          PROVE  w \in result
      <4>1. q \in ops'[i].after /\ ops'[q].kind = "read" /\ w \in ops'[q].crdt
        BY <1>1, <3>4, <3>6
      <4>2. PICK n \in Asked(q)' \cap Node : n \in Asked(i)' => Shows(i, n, w)'
        BY <1>1, <3>1, <4>1 DEF QInv, ReadsFollowReads
      <4>3. n \in Asked(i)' /\ n \in Done(i)'
        BY <1>1, <1>3, <2>6, <3>4, <3>6, <4>2
      <4>4. QED
        BY <3>1, <4>2, <4>3 DEF Shows
    <3>7. QED
      BY <2>5, <3>2, <3>3, <3>4, <3>5, <3>6 DEF Quorums!MayReturn
  <2>8. ops[i].kind # "read" => result = {}
    BY DEF result
  <2>9. Quorums!Complete(i)
    BY <1>5, <2>2, <2>3, <2>4, <2>5, <2>6, <2>7, <2>8 DEF Quorums!Complete, Told
  <2>10. i \in DOMAIN Outcome /\ Outcome' # Outcome
    BY <1>1, <2>2, <2>3 DEF MapShape
  <2>11. QED
    BY <2>9, <2>10 DEF Quorums!Next
<1>9. QED
  BY <1>1, <1>7, <1>8

\* A request is given up.
LEMMA TimeoutMapped ==
  ASSUME TypeOK, MapShape, MapShape', MapValues, MapValues', NEW i, Timeout(i)
  PROVE  Quorums!Next
<1>1. /\ i \in DOMAIN ops /\ ops[i].status = "waiting" /\ ops[i] \in Op
      /\ DOMAIN ops' = DOMAIN ops /\ Len(ops') = Len(ops)
      /\ \A k \in DOMAIN ops \ {i} : ops'[k] = ops[k]
      /\ ops'[i] = [ops[i] EXCEPT !.status = "timeout"]
  BY TimeoutFields
<1>2. /\ ops'[i].status = "timeout"
      /\ ops'[i].kind = ops[i].kind /\ ops'[i].after = ops[i].after
      /\ ops'[i].to = ops[i].to /\ ops'[i].rule = ops[i].rule
  BY <1>1 DEF Op
<1>3. \A k \in DOMAIN ops : Asked(k)' = Asked(k)
  BY <1>1, <1>2 DEF Asked
<1>4. \A k \in DOMAIN ops : Requests'[k] = Requests[k]
  <2>1. \A k \in DOMAIN ops : ops'[k].kind = ops[k].kind /\ ops'[k].after = ops[k].after
    BY <1>1, <1>2
  <2>2. QED
    BY <1>1, <1>3, <2>1 DEF MapValues
<1>5. Requests' = Requests
  BY <1>1, <1>4 DEF MapShape
<1>6. \A k \in DOMAIN ops \ {i} : Outcome'[k] = Outcome[k]
  BY <1>1 DEF MapValues
<1>7. /\ Outcome'[i] = Told("timeout", {}) /\ Outcome[i].status = "waiting"
      /\ Outcome'[i].status = "timeout"
  <2>1. Result(ops'[i]) = {}
    BY <1>2 DEF Result
  <2>2. QED
    BY <1>1, <1>2, <2>1 DEF MapValues
<1>8. Outcome' = [Outcome EXCEPT ![i] = Told("timeout", {})]
  BY <1>1, <1>6, <1>7 DEF MapShape
<1>9. i \in DOMAIN Outcome /\ Outcome' # Outcome
  BY <1>1, <1>7 DEF MapShape
<1>10. Quorums!GiveUp(i)
  BY <1>5, <1>7, <1>8 DEF Quorums!GiveUp, Told
<1>11. QED
  BY <1>9, <1>10 DEF Quorums!Next

LEMMA StepMapped ==
  ASSUME IInv, IInv', QInv, QInv', Mapped, Mapped', [Next]_vars
  PROVE  [Quorums!Next]_<<Requests, Outcome>>
<1>1. CASE UNCHANGED ops
  BY <1>1, QuietMapped
<1>2. ASSUME NEW n \in Node, RequestRead(n) \/ RequestWrite(n) \/ RequestWriteK(n)
      PROVE  Quorums!Next
  BY <1>2, BeginMapped DEF Mapped
<1>3. ASSUME NEW m \in wire, OnAnswer(m)
      PROVE  Quorums!Next \/ UNCHANGED <<Requests, Outcome>>
  BY <1>3, OnAnswerMapped DEF Mapped
<1>4. ASSUME NEW i \in OpId, Timeout(i)
      PROVE  Quorums!Next
  BY <1>4, TimeoutMapped DEF Mapped, IInv
<1>5. QED
  BY <1>1, <1>2, <1>3, <1>4 DEF Next, OnWire, Arrive, OnMailbox, OnWriteLocal, OnReadLocal,
                                OnPublish, vars

LEMMA InitMapped ==
  ASSUME Init
  PROVE  Quorums!Init
<1>1. ops = <<>>
  BY DEF Init
<1>2. DOMAIN ops = {}
  BY <1>1
<1>3. Requests = <<>> /\ Outcome = <<>>
  BY <1>2 DEF Requests, Outcome
<1>4. QED
  BY <1>3 DEF Quorums!Init

\* The requests are the set with quorums, for any nodes, views and rules: what a read
\* returns has been written, it has the writes that were complete before by a quorum that
\* meets its own and what an earlier read by a quorum within its own has returned, and a
\* client is told one result, and once.
THEOREM RequestsImplementQuorumSet == Spec => ImplementsQuorums
<1>1. Init => Quorums!Init
  BY InitMapped
<1>2. IInv => Mapped
  BY MapOfTyped
<1>3. IInv /\ IInv' /\ QInv /\ QInv' /\ Mapped /\ Mapped' /\ [Next]_vars
        => [Quorums!Next]_<<Requests, Outcome>>
  BY StepMapped
<1>4. QED
  BY <1>1, <1>2, <1>3, Invariant, AnswersAreKept, PTL
     DEF Spec, ImplementsQuorums, Quorums!Spec

================================================================================
