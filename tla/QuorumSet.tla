------------------------------- MODULE QuorumSet -------------------------------
(***************************************************************************)
(* What the read and write requests over several nodes promise the clients, *)
(* who see requests and results and neither replicas nor messages.  A write *)
(* adds an element to a set, named by the number of the request; a read     *)
(* returns a set.  Both go by a quorum, the handles that have to answer.    *)
(***************************************************************************)
EXTENDS Naturals, Sequences

CONSTANTS
  Node,    \* handles of the nodes that can be reached
  Handle   \* all handles

VARIABLES
  requests,  \* the requests so far
  outcome    \* outcome[i] : what the client has been told of request i

Completed == {i \in DOMAIN outcome : outcome[i].status = "succeeded"}

\* The requests to write that have been sent, completed or not.
Written ==
  {i \in DOMAIN requests : requests[i].kind = "write" /\ outcome[i].status # "unexpected"}

Init == requests = <<>> /\ outcome = <<>>

\* A request begins, or is refused.  It comes after those that are complete.
Begin ==
  LET i == Len(outcome) + 1
  IN  /\ Len(outcome') = i
      /\ \E status \in {"waiting", "unexpected"} :
           outcome' = Append(outcome, [status |-> status, result |-> {}])
      /\ requests' = Append(requests, requests'[i])
      /\ requests'[i].kind \in {"read", "write"}
      /\ requests'[i].quorum \in (SUBSET Handle) \ {{}}
      /\ requests'[i].after = Completed

\* What a read may return: no more than has been written, no less than the writes
\* that were complete by a quorum that meets its own, and no less than an earlier
\* read by a quorum within its own.
MayReturn(r, result) ==
  /\ result \subseteq Written
  /\ \A i \in requests[r].after :
       /\ /\ requests[i].kind = "write"
          /\ requests[i].quorum \cap requests[r].quorum # {}
          => i \in result
       /\ /\ requests[i].kind = "read"
          /\ requests[i].quorum \subseteq requests[r].quorum
          => outcome[i].result \subseteq result

\* A request whose quorum can be reached is completed, once.
Complete(i) ==
  /\ outcome[i].status = "waiting"
  /\ outcome'[i].status = "succeeded"
  /\ requests[i].quorum \subseteq Node
  /\ LET result == outcome'[i].result
     IN  /\ outcome' = [outcome EXCEPT ![i] = [status |-> "succeeded", result |-> result]]
         /\ IF requests[i].kind = "read" THEN MayReturn(i, result) ELSE result = {}
  /\ UNCHANGED requests

GiveUp(i) ==
  /\ outcome[i].status = "waiting"
  /\ outcome' = [outcome EXCEPT ![i] = [status |-> "timeout", result |-> {}]]
  /\ UNCHANGED requests

Next ==
  /\ outcome' # outcome
  /\ Begin \/ \E i \in DOMAIN outcome : Complete(i) \/ GiveUp(i)

Spec == Init /\ [][Next]_<<requests, outcome>>

================================================================================
