------------------------------ MODULE Outgoing ------------------------------
(***************************************************************************)
(* noshtastic-link/src/outgoing.rs: the two outgoing queues, the regulator *)
(* task that drains them onto the radio, and the channel that wakes it.    *)
(*                                                                         *)
(* enqueue and cancel each hold the queue mutex from their first line to   *)
(* their last, so each is one action.  The regulator holds it only while   *)
(* it pops; everything after drop(queues) is a step of its own.            *)
(***************************************************************************)
EXTENDS Deque

CONSTANTS
  MsgId,            \* message identifiers, fragment index included
  Frame,            \* link frames, as far as they are told apart
  Class,            \* names used in Policy::Classy
  NoClass,          \* Policy::Normal carries no class
  Level,            \* levels used in Policy::Classy
  OutgoingQueueMax, \* OutgoingPolicy::outgoing_queue_max
  MaxWake           \* the wake channel is unbounded; tokens past this many
                    \* would only make the regulator look in vain once more

ASSUME OutgoingAssumption ==
  /\ NoClass \notin Class
  /\ Level \subseteq Nat
  /\ OutgoingQueueMax \in Nat
  /\ MaxWake \in Nat \ {0}

Priority == {"High", "Normal"}
Policy == [class : Class, level : Level] \cup [class : {NoClass}, level : {0}]
Entry == [id : MsgId, policy : Policy, frame : Frame]

VARIABLES
  queue,   \* Queues: the two deques
  notify,  \* whether start_regulator has set Outgoing::notify
  wake,    \* tokens in the wake channel
  reg,     \* where the regulator task is
  held     \* the entry it has popped and not yet handed to the radio

vars == <<queue, notify, wake, reg, held>>

Entries(q) == {q[i] : i \in DOMAIN q}
IsEmpty == \A p \in Priority : queue[p] = <<>>

\* Policy p takes the place of policy r: same class, higher level.
Outranks(p, r) ==
  /\ p.class # NoClass
  /\ p.class = r.class
  /\ p.level > r.level

-----------------------------------------------------------------------------
(* enqueue *)

\* Mutant: the cap let one more entry in.
IsFullLate(q) == Len(q) > OutgoingQueueMax + 1

IsFull(q) == Len(q) > OutgoingQueueMax
IsDup(q, id) == \E e \in Entries(q) : e.id = id

\* Mutant: the level comparison the wrong way round.
IsPreemptedSwapped(q, policy) ==
  \E e \in Entries(q) : Outranks(policy, e.policy)

IsPreempted(q, policy) == \E e \in Entries(q) : Outranks(e.policy, policy)

\* Mutant: the search for the message id is lost.
VerdictNoDedupe(q, id, policy) ==
  CASE IsFull(q) -> "Limit"
    [] ~IsFull(q) /\ IsPreempted(q, policy) -> "Preempt"
    [] OTHER -> "Queue"

\* The Action that enqueue returns.
Verdict(q, id, policy) ==
  CASE IsFull(q) -> "Limit"
    [] ~IsFull(q) /\ IsDup(q, id) -> "Dup"
    [] ~IsFull(q) /\ ~IsDup(q, id) /\ IsPreempted(q, policy) -> "Preempt"
    [] OTHER -> "Queue"

\* Drop the entries of the same class and a lower level.
Purge(q, policy) ==
  Retain(q, {i \in DOMAIN q : ~Outranks(policy, q[i].policy)})

\* Mutant: the test moved below push_back, where the queues are never empty.
NeedWakeupAfterPush == FALSE

\* Taken under the mutex, before anything is purged or pushed.
NeedWakeup == IsEmpty

\* enqueue reaches notify.unwrap() while notify is still None.
EnqueuePanics == NeedWakeup /\ ~notify

Push(id, frame, prio, policy) ==
  queue' = [queue EXCEPT ![prio] =
              Append(Purge(@, policy),
                     [id |-> id, policy |-> policy, frame |-> frame])]

Enqueue(id, frame, prio, policy) ==
  /\ Verdict(queue[prio], id, policy) = "Queue"
  /\ Push(id, frame, prio, policy)
  /\ wake' = IF NeedWakeup /\ notify /\ wake < MaxWake THEN wake + 1 ELSE wake
  /\ UNCHANGED <<notify, reg, held>>

\* Limit, Dup and Preempt return before anything changes.
EnqueueRefused(id, prio, policy) ==
  /\ Verdict(queue[prio], id, policy) # "Queue"
  /\ UNCHANGED vars

-----------------------------------------------------------------------------
(* cancel *)

Without(q, id) == Retain(q, {i \in DOMAIN q : q[i].id # id})

Cancel(id, prio) ==
  /\ queue' = [queue EXCEPT ![prio] = Without(@, id)]
  /\ UNCHANGED <<notify, wake, reg, held>>

-----------------------------------------------------------------------------
(* start_regulator and the task it spawns *)

StartRegulator ==
  /\ ~notify
  /\ notify' = TRUE
  /\ reg' = "look"
  /\ UNCHANGED <<queue, wake, held>>

\* Mutant: normal entries first.
NextPrioritySwapped == IF queue["Normal"] # <<>> THEN "Normal" ELSE "High"

\* The queue pop_front is tried on: high unless it is empty.
NextPriority == IF queue["High"] # <<>> THEN "High" ELSE "Normal"

\* Mutant: pop_back.
RegPopBack ==
  LET q == queue[NextPriority]
  IN  /\ reg = "look"
      /\ ~IsEmpty
      /\ held' = {q[Len(q)]}
      /\ queue' = [queue EXCEPT ![NextPriority] = SubSeq(@, 1, Len(q) - 1)]
      /\ reg' = "send"
      /\ UNCHANGED <<notify, wake>>

RegPop ==
  /\ reg = "look"
  /\ ~IsEmpty
  /\ held' = {Head(queue[NextPriority])}
  /\ queue' = [queue EXCEPT ![NextPriority] = Tail(@)]
  /\ reg' = "send"
  /\ UNCHANGED <<notify, wake>>

\* Nothing to pop: the mutex is dropped, then the task waits for a token.
RegPark ==
  /\ reg = "look"
  /\ IsEmpty
  /\ reg' = "park"
  /\ UNCHANGED <<queue, notify, wake, held>>

RegWake ==
  /\ reg = "park"
  /\ wake > 0
  /\ wake' = wake - 1
  /\ reg' = "look"
  /\ UNCHANGED <<queue, notify, held>>

\* Mutant: a failed send ends the task.
RegSendGivesUp ==
  /\ reg = "send"
  /\ held' = {}
  /\ reg' \in {"pause", "off"}
  /\ UNCHANGED <<queue, notify, wake>>

\* The frame goes to the radio, or send_mesh_packet fails and it is only
\* logged: either way the entry is gone and the pause follows.
RegSend ==
  /\ reg = "send"
  /\ held' = {}
  /\ reg' = "pause"
  /\ UNCHANGED <<queue, notify, wake>>

\* sleep(tx_rate_limit_msec) is over.
RegResume ==
  /\ reg = "pause"
  /\ reg' = "look"
  /\ UNCHANGED <<queue, notify, wake, held>>

Regulator == RegPop \/ RegPark \/ RegWake \/ RegSend \/ RegResume

-----------------------------------------------------------------------------

Init ==
  /\ queue = [p \in Priority |-> <<>>]
  /\ notify = FALSE
  /\ wake = 0
  /\ reg = "off"
  /\ held = {}

Next ==
  \/ \E id \in MsgId, frame \in Frame, prio \in Priority, policy \in Policy :
       \/ Enqueue(id, frame, prio, policy)
       \/ EnqueueRefused(id, prio, policy)
  \/ \E id \in MsgId, prio \in Priority : Cancel(id, prio)
  \/ StartRegulator
  \/ Regulator

Spec == Init /\ [][Next]_vars

\* Link::start always runs start_regulator, and the runtime keeps polling a
\* task that is ready.
Fairness == WF_vars(StartRegulator) /\ WF_vars(Regulator)

FairSpec == Spec /\ Fairness

-----------------------------------------------------------------------------
(* Safety *)

\* Every variable keeps its shape: the regulator exists exactly when notify is
\* set, holds an entry exactly between its pop and its send, and a queue never
\* grows past the one entry the comparison at outgoing.rs:117 lets in at the
\* cap.
TypeOK ==
  /\ queue \in [Priority -> Seq(Entry)]
  /\ \A p \in Priority : Len(queue[p]) <= OutgoingQueueMax + 1
  /\ notify \in BOOLEAN
  /\ wake \in 0 .. MaxWake
  /\ reg \in {"off", "look", "send", "pause", "park"}
  /\ notify <=> reg # "off"
  /\ IF reg = "send" THEN \E e \in Entry : held = {e} ELSE held = {}

\* No queue holds two entries with one message id, whatever order of enqueue,
\* purge, cancel and pop produced it (outgoing.rs:121-127).
UniqueIds ==
  \A p \in Priority : \A i, j \in DOMAIN queue[p] :
    queue[p][i].id = queue[p][j].id => i = j

\* All entries of one class waiting in a queue have one level: the preemption
\* test and the purge together never leave a superseded message behind
\* (outgoing.rs:130-148).
ClassUniform ==
  \A p \in Priority : \A i, j \in DOMAIN queue[p] :
    ~Outranks(queue[p][i].policy, queue[p][j].policy)

\* A parked regulator with nothing to wake it has nothing to send: the test of
\* need_wakeup (outgoing.rs:108,154) misses no entry, whatever was popped or
\* cancelled between the token and its receipt.
NoLostWakeup == reg = "park" /\ wake = 0 => IsEmpty

\* Entries of one priority leave for the radio in the order they were accepted:
\* nothing is popped while an older entry of its queue stays, and no step
\* swaps two entries (outgoing.rs:152,192-195).
FirstInFirstOut ==
  [][\A p \in Priority : \A i, j \in DOMAIN queue[p] : i < j =>
       LET older == queue[p][i]
           newer == queue[p][j]
       IN  /\ /\ held' # held
              /\ held' = {newer}
              /\ newer \notin Entries(queue'[p])
              => older \notin Entries(queue'[p])
           /\ \A m, n \in DOMAIN queue'[p] :
                queue'[p][m] = older /\ queue'[p][n] = newer => m < n]_vars

-----------------------------------------------------------------------------
(* Liveness *)

Waiting(id, prio) == IsDup(queue[prio], id)

\* Whatever waits in the high queue leaves it: sent, cancelled or purged
\* (outgoing.rs:190-264).
HighDrains == \A id \in MsgId : Waiting(id, "High") ~> ~Waiting(id, "High")

\* The normal queue may starve behind the high one, but once the high queue
\* stays empty, whatever waits in the normal queue leaves it.
NormalDrains ==
  <>[](queue["High"] = <<>>) =>
    \A id \in MsgId : Waiting(id, "Normal") ~> ~Waiting(id, "Normal")

-----------------------------------------------------------------------------
(* Refinement *)

Tx == INSTANCE TxQueue WITH
        waiting <- [p \in Priority |-> Entries(queue[p])],
        leaving <- held,
        Capacity <- OutgoingQueueMax + 1

\* The queues and the regulator implement the bounded priority pool: accepted
\* entries are sent at most once, high before normal, or withdrawn or
\* superseded, and none is silently lost (outgoing.rs:101-269).
ImplementsTxQueue == Tx!SafeSpec

\* The same with the pool's promise that waiting entries keep being sent.
ImplementsFairTxQueue == Tx!Spec

=============================================================================
