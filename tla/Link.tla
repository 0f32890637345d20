-------------------------------- MODULE Link --------------------------------
(***************************************************************************)
(* noshtastic-link/src/link.rs: the tasks of one node's link and the mutex *)
(* around it, composed with the outgoing queues and the fragment cache.    *)
(*                                                                         *)
(* A task handles one input at a time: it lines up for the link mutex,     *)
(* runs the steps of its handler while it holds it, and lets go after the  *)
(* last.  The outgoing queues have a mutex of their own, so the regulator  *)
(* may pop between two steps of a handler; it needs the link mutex only to *)
(* send.  When a request for missing fragments is due is left open here:   *)
(* FragmentCache has the clock.                                            *)
(***************************************************************************)
EXTENDS FragCacheOps, Sequences, SequencesExt

CONSTANTS
  Short,    \* ids of messages that fit in one LinkMsg
  Submit,   \* what the client may send: [base, prio, policy]
  Class, NoClass, Level, OutgoingQueueMax, MaxWake

\* MsgId: frag is -1 for None.  The id of a LinkNeed is a hash of what it asks
\* for, so the request itself stands for it.
Whole(base) == [base |-> base, frag |-> -1]
Part(base, i) == [base |-> base, frag |-> i]
LinkMissing ==
  UNION {[msgid : {m}, fragndx : (SUBSET (0 .. NumFrag[m] - 1)) \ {{}}] : m \in Base}
LinkNeed == (SUBSET LinkMissing) \ {{}}
MsgId == {Whole(m) : m \in Short \cup LinkNeed}
         \cup UNION {{Part(m, i) : i \in 0 .. NumFrag[m] - 1} : m \in Base}

CompleteFrame(m) == [kind |-> "Complete", msgid |-> m]
FragmentFrame(m, i) == [kind |-> "Fragment", msgid |-> m, fragndx |-> i]
NeedFrame(need) == [kind |-> "Need", missing |-> need]
Frame == {CompleteFrame(m) : m \in Short}
         \cup (UNION {{FragmentFrame(m, i) : i \in 0 .. NumFrag[m] - 1} : m \in Base})
         \cup {NeedFrame(need) : need \in LinkNeed}

VARIABLES
  queue, notify, wake, reg, held,  \* the outgoing side: see Outgoing
  cache,  \* Link::fragcache
  line,   \* the link mutex: its holder, then those waiting, first come first served
  todo,   \* per task, the steps its handler has left
  dead,   \* the tasks a panic has ended
  told    \* the messages sent up to the client so far

Out == INSTANCE Outgoing

ASSUME LinkAssumption ==
  /\ Submit \subseteq [base : Short \cup Base, prio : Out!Priority, policy : Out!Policy]
  /\ NoClass \notin Class
  /\ Level \subseteq Nat
  /\ OutgoingQueueMax \in Nat
  /\ MaxWake \in Nat \ {0}

outVars == <<queue, notify, wake, reg, held>>
vars == <<queue, notify, wake, reg, held, cache, line, todo, dead, told>>

\* The tasks that take the link mutex, beside the regulator.
Task == {"start", "mesh", "client", "info"}

NormalPolicy == [class |-> NoClass, level |-> 0]

-----------------------------------------------------------------------------
(* Steps of a handler *)

CancelStep(id, prio) == [op |-> "cancel", id |-> id, prio |-> prio]
QueueStep(id, frame, prio, policy) ==
  [op |-> "queue", id |-> id, frame |-> frame, prio |-> prio, policy |-> policy]
CacheStep(m, i, inbound) ==
  [op |-> "cache", msgid |-> m, fragndx |-> i, inbound |-> inbound]
UpcallStep(m) == [op |-> "upcall", msgid |-> m]
FulfillStep(m, ndxs) == [op |-> "fulfill", msgid |-> m, ndxs |-> ndxs]
RetryStep == [op |-> "retry"]
StartStep == [op |-> "start"]

CancelBoth(id) == <<CancelStep(id, "High"), CancelStep(id, "Normal")>>

\* Mutant: only the priority the client uses is searched.
HandleFragmentHalf(m, i) ==
  <<CancelStep(Part(m, i), "Normal"), CacheStep(m, i, TRUE)>>

HandleComplete(m) == CancelBoth(Whole(m)) \o <<UpcallStep(m)>>
HandleFragment(m, i) == CancelBoth(Part(m, i)) \o <<CacheStep(m, i, TRUE)>>
HandleNeed(m, ndxs) == <<FulfillStep(m, ndxs)>>

SendComplete(c) == <<QueueStep(Whole(c.base), CompleteFrame(c.base), c.prio, c.policy)>>

\* Mutant: each fragment is queued first and cached afterwards.
SendFragmentsQueueFirst(c) ==
  [n \in 1 .. 2 * NumFrag[c.base] |->
     LET i == (n - 1) \div 2
     IN  IF n % 2 = 0 THEN CacheStep(c.base, i, FALSE)
         ELSE QueueStep(Part(c.base, i), FragmentFrame(c.base, i), c.prio, c.policy)]

\* Two steps for each fragment: it is cached, then queued.
SendFragments(c) ==
  [n \in 1 .. 2 * NumFrag[c.base] |->
     LET i == (n - 1) \div 2
     IN  IF n % 2 = 1 THEN CacheStep(c.base, i, FALSE)
         ELSE QueueStep(Part(c.base, i), FragmentFrame(c.base, i), c.prio, c.policy)]

SendLinkMessage(c) == IF c.base \in Short THEN SendComplete(c) ELSE SendFragments(c)

\* What fulfill_missing makes handle_need queue, in the order of the indices.
ResendSteps(m, ndxs) ==
  LET sent == Available(cache, m, ndxs)
  IN  [n \in 1 .. Cardinality(sent) |->
         LET i == Out!Nth(sent, n)
         IN  QueueStep(Part(m, i), FragmentFrame(m, i), "High", NormalPolicy)]

-----------------------------------------------------------------------------
(* The link mutex *)

Holds(t) == line # <<>> /\ Head(line) = t

\* A task that is done with its last input waits for the next one.
Idle(t) == t \notin dead /\ todo[t] = <<>>

\* A handler that has an input lines up for the link.
LineUp(t, steps) ==
  /\ todo' = [todo EXCEPT ![t] = steps]
  /\ line' = Append(line, t)
  /\ UNCHANGED <<outVars, cache, dead, told>>

\* On to the steps given; the guard is dropped after the last one.
Continue(t, steps) ==
  /\ todo' = [todo EXCEPT ![t] = steps]
  /\ line' = IF steps = <<>> THEN Tail(line) ELSE line
  /\ UNCHANGED dead

\* A panic ends the task; the tokio mutex it held is free again.
Die(t) ==
  /\ todo' = [todo EXCEPT ![t] = <<>>]
  /\ line' = Tail(line)
  /\ dead' = dead \cup {t}

-----------------------------------------------------------------------------
(* Inputs *)

\* Link::start, from create_link.
Start == ~notify /\ Idle("start") /\ LineUp("start", <<StartStep>>)

\* A frame from the mesh: a message, a fragment, or a request for fragments.
Receive ==
  /\ Idle("mesh")
  /\ \/ \E m \in Short : LineUp("mesh", HandleComplete(m))
     \/ \E m \in Base : \E i \in 0 .. NumFrag[m] - 1 :
          LineUp("mesh", HandleFragment(m, i))
     \/ \E r \in LinkMissing : LineUp("mesh", HandleNeed(r.msgid, r.fragndx))

\* The client has its channel only once create_link has returned.
ClientSend ==
  /\ notify
  /\ Idle("client")
  /\ \E c \in Submit : LineUp("client", SendLinkMessage(c))

\* need_iv ticks; its task is spawned after the regulator.
NeedTick == notify /\ Idle("info") /\ LineUp("info", <<RetryStep>>)

-----------------------------------------------------------------------------
(* The handlers' steps *)

DoCancel(t, s) ==
  /\ s.op = "cancel"
  /\ Out!Cancel(s.id, s.prio)
  /\ Continue(t, Tail(todo[t]))
  /\ UNCHANGED <<cache, told>>

\* Mutant: a handler waits for room in the queue, with the link locked.
DoQueueWaits(t, s) ==
  /\ s.op = "queue"
  /\ Out!Enqueue(s.id, s.frame, s.prio, s.policy)
  /\ IF Out!EnqueuePanics THEN Die(t) ELSE Continue(t, Tail(todo[t]))
  /\ UNCHANGED <<cache, told>>

\* enqueue unwraps notify when the queues were empty.
DoQueue(t, s) ==
  /\ s.op = "queue"
  /\ \/ Out!Enqueue(s.id, s.frame, s.prio, s.policy)
     \/ Out!EnqueueRefused(s.id, s.prio, s.policy)
  /\ IF Out!EnqueuePanics THEN Die(t) ELSE Continue(t, Tail(todo[t]))
  /\ UNCHANGED <<cache, told>>

DoCache(t, s) ==
  LET frag == FragOf(s.msgid, s.fragndx, 0)
  IN  /\ s.op = "cache"
      /\ cache' = AddFragment(cache, frag, s.inbound, 0)
      /\ told' = told \cup {u.msgid : u \in Assembled(cache, frag, s.inbound, 0)}
      /\ Continue(t, Tail(todo[t]))
      /\ UNCHANGED outVars

DoUpcall(t, s) ==
  /\ s.op = "upcall"
  /\ told' = told \cup {s.msgid}
  /\ Continue(t, Tail(todo[t]))
  /\ UNCHANGED <<outVars, cache>>

DoFulfill(t, s) ==
  /\ s.op = "fulfill"
  /\ cache' = Fulfilled(cache, s.msgid, s.ndxs)
  /\ Continue(t, ResendSteps(s.msgid, s.ndxs) \o Tail(todo[t]))
  /\ UNCHANGED <<outVars, told>>

\* overdue_missing finds nothing due, or one LinkNeed is queued.
DoRetry(t, s) ==
  /\ s.op = "retry"
  /\ \/ Continue(t, <<>>)
     \/ \E due \in (SUBSET {m \in DOMAIN cache : Missing(cache[m]) # {}}) \ {{}} :
          LET need == {[msgid |-> m, fragndx |-> Missing(cache[m])] : m \in due}
          IN  Continue(t, <<QueueStep(Whole(need), NeedFrame(need), "High", NormalPolicy)>>)
  /\ UNCHANGED <<outVars, cache, told>>

DoStart(t, s) ==
  /\ s.op = "start"
  /\ Out!StartRegulator
  /\ Continue(t, <<>>)
  /\ UNCHANGED <<cache, told>>

Step(t) ==
  /\ Holds(t)
  /\ LET s == Head(todo[t])
     IN  \/ DoCancel(t, s)
         \/ DoQueue(t, s)
         \/ DoCache(t, s)
         \/ DoUpcall(t, s)
         \/ DoFulfill(t, s)
         \/ DoRetry(t, s)
         \/ DoStart(t, s)

-----------------------------------------------------------------------------
(* The regulator *)

RegAsk ==
  /\ reg = "send"
  /\ "reg" \notin Range(line)
  /\ line' = Append(line, "reg")
  /\ UNCHANGED <<outVars, cache, todo, dead, told>>

\* Mutant: the link guard lives on past the send.
RegSendKeepsLock ==
  /\ Holds("reg")
  /\ Out!RegSend
  /\ UNCHANGED <<line, cache, todo, dead, told>>

RegSend ==
  /\ Holds("reg")
  /\ Out!RegSend
  /\ line' = Tail(line)
  /\ UNCHANGED <<cache, todo, dead, told>>

RegOther ==
  /\ Out!RegPop \/ Out!RegPark \/ Out!RegWake \/ Out!RegResume
  /\ UNCHANGED <<cache, line, todo, dead, told>>

Regulator == RegAsk \/ RegSend \/ RegOther

-----------------------------------------------------------------------------

Init ==
  /\ Out!Init
  /\ cache = [b \in {} |-> 0]
  /\ line = <<>>
  /\ todo = [t \in Task |-> <<>>]
  /\ dead = {}
  /\ told = {}

Next ==
  \/ Start \/ Receive \/ ClientSend \/ NeedTick
  \/ \E t \in Task : Step(t)
  \/ Regulator

Spec == Init /\ [][Next]_vars

\* create_link runs Link::start, and the runtime polls every ready task.
Fairness ==
  /\ WF_vars(Start)
  /\ \A t \in Task : WF_vars(Step(t))
  /\ WF_vars(Regulator)

FairSpec == Spec /\ Fairness

-----------------------------------------------------------------------------

\* Every variable keeps its shape, and a task is in line for the link exactly
\* while it has steps left.
TypeOK ==
  /\ Out!TypeOK
  /\ DOMAIN cache \subseteq Base
  /\ IsInjective(line)
  /\ Range(line) \subseteq Task \cup {"reg"}
  /\ \A t \in Task : (t \in Range(line)) <=> (todo[t] # <<>>)
  /\ "reg" \in Range(line) => reg = "send"
  /\ dead \subseteq Task
  /\ told \subseteq Short \cup Base

\* A fragment that is queued or about to be sent is in the cache, so that a
\* request for it can be answered, however the message was purged, cancelled or
\* refused in part on its way through the queues (link.rs:497-521,399-423).
SentIsCached ==
  \A e \in held \cup UNION {Out!Entries(queue[p]) : p \in Out!Priority} :
    e.frame.kind = "Fragment" =>
      /\ e.frame.msgid \in DOMAIN cache
      /\ e.frame.fragndx \notin Missing(cache[e.frame.msgid])

\* The message a step of the mesh listener ends the handling of, if it does.
Heard ==
  IF Holds("mesh")
    THEN LET s == Head(todo["mesh"])
         IN  CASE s.op = "cache" -> {Part(s.msgid, s.fragndx)}
               [] s.op = "upcall" -> {Whole(s.msgid)}
               [] OTHER -> {}
    ELSE {}

\* When the link is done with a message another node has sent, no copy of it
\* waits in either queue: nobody else can queue one between the two cancels
\* and the end of the handler (link.rs:316-335,355-374).
NoQueuedCopy ==
  [][\A id \in Heard : todo'["mesh"] = <<>> =>
       \A p \in Out!Priority : ~\E e \in Out!Entries(queue'[p]) : e.id = id]_vars

\* The unwrap at outgoing.rs:155 asserts that start_regulator has run before
\* anything is queued.
NotifyIsSet == dead = {}

\* Whoever lines up for the link gets it and lets it go again: no handler, no
\* refused enqueue and no send keeps the mutex (link.rs:316,355,388,479,497).
LinkServed ==
  \A t \in Task \cup {"reg"} : t \in Range(line) ~> t \notin Range(line)

\* Also under the link's own mutex, what waits in the high queue leaves it.
HighDrains == \A id \in MsgId : Out!Waiting(id, "High") ~> ~Out!Waiting(id, "High")

=============================================================================
