------------------------------ MODULE Delivery ------------------------------
(***************************************************************************)
(* What the links of a mesh promise their clients: a message some client   *)
(* has submitted reaches a client whole and at most once, until its node   *)
(* is restarted and knows nothing of what it has delivered.  That every    *)
(* client gets it is not promised: the radio is lossy.                     *)
(***************************************************************************)
EXTENDS Sequences, SequencesExt

CONSTANTS Node, Msg

VARIABLES
  submitted,  \* messages submitted so far
  inbox       \* per node, the messages its client got since it was started

vars == <<submitted, inbox>>

Init ==
  /\ submitted = {}
  /\ inbox = [n \in Node |-> <<>>]

Submit(msg) ==
  /\ submitted' = submitted \cup {msg}
  /\ UNCHANGED inbox

Deliver(n, msg) ==
  /\ msg \in submitted
  /\ ~Contains(inbox[n], msg)
  /\ inbox' = [inbox EXCEPT ![n] = Append(@, msg)]
  /\ UNCHANGED submitted

Restart(n) ==
  /\ inbox' = [inbox EXCEPT ![n] = <<>>]
  /\ UNCHANGED submitted

Next ==
  \/ \E msg \in Msg : Submit(msg)
  \/ \E n \in Node : Restart(n) \/ \E msg \in Msg : Deliver(n, msg)

Spec == Init /\ [][Next]_vars

=============================================================================
