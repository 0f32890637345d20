------------------------------ MODULE TxQueue ------------------------------
(***************************************************************************)
(* What noshtastic-link/src/outgoing.rs promises, without its deques, its  *)
(* mutex or its wake channel: a bounded pool of entries per priority, at   *)
(* most one of them committed to the radio at a time.  An entry leaves the *)
(* pool by being committed, withdrawn by its id, or replaced by a message  *)
(* of its class with a higher level; and while anything is waiting the     *)
(* radio keeps being fed.                                                  *)
(***************************************************************************)
EXTENDS Naturals, FiniteSets

CONSTANTS MsgId, Frame, Class, NoClass, Level, Capacity

Priority == {"High", "Normal"}
Policy == [class : Class, level : Level] \cup [class : {NoClass}, level : {0}]
Entry == [id : MsgId, policy : Policy, frame : Frame]

VARIABLES waiting, leaving

vars == <<waiting, leaving>>

Supersedes(e, f) ==
  /\ e.policy.class # NoClass
  /\ e.policy.class = f.policy.class
  /\ e.policy.level > f.policy.level

Init ==
  /\ waiting = [p \in Priority |-> {}]
  /\ leaving = {}

Accept(e, prio) ==
  /\ Cardinality(waiting[prio]) < Capacity
  /\ \A f \in waiting[prio] : f.id # e.id /\ ~Supersedes(f, e)
  /\ waiting' = [waiting EXCEPT
                   ![prio] = {f \in @ : ~Supersedes(e, f)} \cup {e}]
  /\ UNCHANGED leaving

Withdraw(id, prio) ==
  /\ waiting' = [waiting EXCEPT ![prio] = {f \in @ : f.id # id}]
  /\ UNCHANGED leaving

Commit ==
  /\ leaving = {}
  /\ \E prio \in Priority : \E e \in waiting[prio] :
       /\ prio = "Normal" => waiting["High"] = {}
       /\ waiting' = [waiting EXCEPT ![prio] = @ \ {e}]
       /\ leaving' = {e}

Transmit ==
  /\ leaving # {}
  /\ leaving' = {}
  /\ UNCHANGED waiting

Next ==
  \/ \E e \in Entry, prio \in Priority : Accept(e, prio)
  \/ \E id \in MsgId, prio \in Priority : Withdraw(id, prio)
  \/ Commit
  \/ Transmit

SafeSpec == Init /\ [][Next]_vars

Spec == SafeSpec /\ WF_vars(Commit \/ Transmit)

=============================================================================
