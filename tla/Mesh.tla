-------------------------------- MODULE Mesh --------------------------------
(***************************************************************************)
(* Several links on one radio channel.  Each has a fragment cache, a queue *)
(* of frames and a need timer; what one sends is heard by any of the       *)
(* others, or lost.  A node may be restarted, and then has an empty cache. *)
(*                                                                         *)
(* The caches are those of FragCacheOps.  Of the queues (Outgoing.tla)     *)
(* what repair depends on is kept: the priorities, the cap, one entry per  *)
(* message id, and cancel, but not the order within a priority.  A frame   *)
(* is on the air for less than the minute in which timers count; it may    *)
(* wait for the regulator as long as it likes.                             *)
(***************************************************************************)
EXTENDS FragCacheOps, Sequences, SequencesExt

CONSTANTS
  Node,
  PriorityOf, \* the priority the client gives a message: notes go at "Normal"
  NeedSecs,   \* LINK_SEND_NEED_SECS, the period of the need timers
  QueueMax,   \* outgoing_queue_max
  MaxClock,   \* bound on the clock
  MaxSend,    \* bound: submissions, of any message by any node
  MaxFault    \* bound: copies lost, sends that fail and restarts

Priority == {"High", "Normal"}

ASSUME MeshAssumption ==
  /\ PriorityOf \in [Base -> Priority]
  /\ NeedSecs \in Nat \ {0} /\ QueueMax \in Nat
  /\ MaxClock \in Nat /\ MaxSend \in Nat /\ MaxFault \in Nat

\* 60 s, 180 s and 300 s.  Only RepairedInTime rests on it.
ASSUME WindowAssumption == Overdue <= NeedSecs /\ Overdue + NeedSecs <= MaxAge

VARIABLES
  cache,      \* per node, FragmentCache::partials
  queue,      \* per node, the frames that wait for its radio, with priority
  air,        \* copies of frames on their way to a node
  submitted,  \* messages some client has submitted
  sends,      \* submissions so far
  inbox,      \* per node, the LinkMsgs its client got since it was started
  clock,
  nextNeed,   \* per node, when need_iv ticks next
  faults,     \* faults so far
  hit         \* history: per node, when a fault last hit what it depends on

clients == <<submitted, sends>>
timers == <<clock, nextNeed>>
vars == <<cache, queue, air, clients, inbox, timers, faults, hit>>

-----------------------------------------------------------------------------
(* Frames and queues *)

Fragment(f) == [kind |-> "Fragment", frag |-> f]
Need(missing) == [kind |-> "Need", missing |-> missing]

\* MsgId of a frame: base and index of a fragment, the hash of a request.
IdOf(frame) ==
  IF frame.kind = "Fragment" THEN <<frame.frag.msgid, frame.frag.fragndx>>
  ELSE <<frame.missing>>

Waiting(q, prio) == {e.frame : e \in {x \in q : x.prio = prio}}
Entries(frames, prio) == {[prio |-> prio, frame |-> f] : f \in frames}

\* Frames with an id that does not wait at this priority: the rest are refused
\* as duplicates.
Fresh(q, prio, frames) ==
  {f \in frames : \A w \in Waiting(q, prio) : IdOf(w) # IdOf(f)}

\* What the cap of the queue leaves of them: it refuses when it is exceeded, so
\* one more than QueueMax fits.
Admitted(q, prio, frames) ==
  LET fresh == Fresh(q, prio, frames)
      room == QueueMax + 1 - Cardinality(Waiting(q, prio))
  IN  {accepted \in SUBSET fresh :
         accepted = fresh \/ Cardinality(accepted) = room}

Cancel(q, frame) == {e \in q : IdOf(e.frame) # IdOf(frame)}

\* Bookkeeping: a fault hits these nodes, now.
Hit(nodes) == hit' = [n \in Node |-> IF n \in nodes THEN clock ELSE hit[n]]

\* Who misses a frame of n that never gets on the air: the node itself if it is
\* a request, all the others if it is a fragment.
MissedBy(n, frame) == IF frame.kind = "Need" THEN {n} ELSE Node \ {n}

\* enqueue with Policy::Normal, one frame after the other.
Enqueue(n, prio, frames) ==
  \E accepted \in Admitted(queue[n], prio, frames) :
    /\ queue' = [queue EXCEPT ![n] = @ \cup Entries(accepted, prio)]
    /\ Hit(UNION {MissedBy(n, f) : f \in Fresh(queue[n], prio, frames) \ accepted})

-----------------------------------------------------------------------------
(* What a link does *)

\* send_fragments, for a message of node n's client: its own or one it got from
\* another, at any time and as often as it likes.
SendFragments(n, m) ==
  /\ sends < MaxSend
  /\ sends' = sends + 1
  /\ submitted' = submitted \cup {m}
  /\ cache' = [cache EXCEPT ![n] = AddOwn(@, m, clock)]
  /\ Enqueue(n, PriorityOf[m], {Fragment(FragOf(m, i, 0)) : i \in 0 .. NumFrag[m] - 1})
  /\ UNCHANGED <<air, inbox, timers, faults>>

\* The regulator takes an entry, a normal one only when no high one waits.
Pop(n, e) ==
  /\ e \in queue[n]
  /\ e.prio = "High" \/ Waiting(queue[n], "High") = {}
  /\ queue' = [queue EXCEPT ![n] = @ \ {e}]

\* It puts it on the air ...
RegSend(n) ==
  /\ \E e \in queue[n] :
       /\ Pop(n, e)
       /\ air' = air \cup {[from |-> n, to |-> r, frame |-> e.frame] : r \in Node \ {n}}
  /\ UNCHANGED <<cache, clients, inbox, timers, faults, hit>>

\* ... or send_mesh_packet fails, and the frame is gone.
RegSendFails(n) ==
  /\ faults < MaxFault
  /\ faults' = faults + 1
  /\ \E e \in queue[n] : Pop(n, e) /\ Hit(MissedBy(n, e.frame))
  /\ UNCHANGED <<cache, air, clients, inbox, timers>>

\* handle_fragment: copies of our own are cancelled, the chunk is cached, and a
\* message that is now whole goes up.
HandleFragment(n, frame) ==
  /\ queue' = [queue EXCEPT ![n] = Cancel(@, frame)]
  /\ cache' = [cache EXCEPT ![n] = AddFragment(@, frame.frag, TRUE, clock)]
  /\ inbox' = [inbox EXCEPT ![n] =
       @ \o SetToSeq(Assembled(cache[n], frame.frag, TRUE, clock))]
  /\ UNCHANGED hit

\* What a request asks of message m.
Asked(missing, m) == UNION {x.fragndx : x \in {y \in missing : y.msgid = m}}

\* Mutant: only the node that submitted a message answers for it.
AnswersOwn(c, missing) ==
  {Fragment(f) : f \in UNION {Resends(c, m, Asked(missing, m)) :
                                m \in {o \in DOMAIN c : ~c[o].inbound}}}

Answers(c, missing) ==
  {Fragment(f) : f \in UNION {Resends(c, m, Asked(missing, m)) : m \in DOMAIN c}}

\* handle_need: whoever holds a requested fragment queues it, and rotates it for
\* the next time.
HandleNeed(n, frame) ==
  /\ cache' = [cache EXCEPT ![n] =
       [m \in DOMAIN @ |-> Fulfilled(@, m, Asked(frame.missing, m))[m]]]
  /\ Enqueue(n, "High", Answers(cache[n], frame.missing))
  /\ UNCHANGED inbox

\* handle_link_frame, for a copy that arrives.
Receive(copy) ==
  /\ air' = air \ {copy}
  /\ \/ copy.frame.kind = "Fragment" /\ HandleFragment(copy.to, copy.frame)
     \/ copy.frame.kind = "Need" /\ HandleNeed(copy.to, copy.frame)
  /\ UNCHANGED <<clients, timers, faults>>

\* send_fragment_retries, when n's need_iv ticks.
SendFragmentRetries(n) ==
  /\ clock = nextNeed[n]
  /\ nextNeed' = [nextNeed EXCEPT ![n] = @ + NeedSecs]
  /\ cache' = [cache EXCEPT ![n] = Requested(@, clock)]
  /\ LET missing == Requests(cache[n], clock)
     IN  Enqueue(n, "High", IF missing = {} THEN {} ELSE {Need(missing)})
  /\ UNCHANGED <<air, clients, inbox, clock, faults>>

-----------------------------------------------------------------------------
(* What happens to it *)

\* A lost fragment is missed by the node it was for, a lost request by the node
\* that asks.
Lose(copy) ==
  /\ faults < MaxFault
  /\ faults' = faults + 1
  /\ Hit({IF copy.frame.kind = "Need" THEN copy.from ELSE copy.to})
  /\ air' = air \ {copy}
  /\ UNCHANGED <<cache, queue, clients, inbox, timers>>

\* A restart: nothing of the link outlives the program, copies that were under
\* way to it are missed, and the first tick of the new need_iv is immediate.
Crash(n) ==
  /\ faults < MaxFault
  /\ faults' = faults + 1
  /\ Hit({n})
  /\ cache' = [cache EXCEPT ![n] = [m \in {} |-> 0]]
  /\ queue' = [queue EXCEPT ![n] = {}]
  /\ inbox' = [inbox EXCEPT ![n] = <<>>]
  /\ air' = {c \in air : c.to # n}
  /\ nextNeed' = [nextNeed EXCEPT ![n] = clock]
  /\ UNCHANGED <<clients, clock>>

\* A unit of time passes when what was on the air has come down and due timers
\* are served; whatever waits in the queues goes on waiting.
Tick ==
  /\ clock < MaxClock
  /\ air = {}
  /\ \A n \in Node : clock < nextNeed[n]
  /\ clock' = clock + 1
  /\ UNCHANGED <<cache, queue, air, clients, inbox, nextNeed, faults, hit>>

-----------------------------------------------------------------------------

\* The nodes were started at different times.
Init ==
  /\ cache = [n \in Node |-> [m \in {} |-> 0]]
  /\ queue = [n \in Node |-> {}]
  /\ air = {}
  /\ submitted = {}
  /\ sends = 0
  /\ inbox = [n \in Node |-> <<>>]
  /\ clock = 0
  /\ nextNeed \in [Node -> 0 .. NeedSecs - 1]
  /\ faults = 0
  /\ hit = [n \in Node |-> 0]

Next ==
  \/ \E n \in Node :
       \/ \E m \in Base : SendFragments(n, m)
       \/ RegSend(n)
       \/ RegSendFails(n)
       \/ SendFragmentRetries(n)
       \/ Crash(n)
  \/ \E copy \in air : Receive(copy) \/ Lose(copy)
  \/ Tick

Spec == Init /\ [][Next]_vars

-----------------------------------------------------------------------------

Whole(m) == [msgid |-> m, data |-> Original(m)]

Promise ==
  INSTANCE Delivery WITH Msg <- {Whole(m) : m \in Base},
                         submitted <- {Whole(m) : m \in submitted}

\* The links keep the promise of Delivery: whatever is lost, repeated, answered
\* by several nodes at once or forgotten in a restart, a client gets a submitted
\* message whole and once (link.rs:344-431, fragcache.rs:67-127,182-216).
ImplementsDelivery == Promise!Spec

Holds(n, m, i) == m \in DOMAIN cache[n] /\ i \notin Missing(cache[n][m])

Carries(frame, m, i) ==
  frame.kind = "Fragment" /\ frame.frag.msgid = m /\ frame.frag.fragndx = i

AsksFor(frame, m, i) == frame.kind = "Need" /\ i \in Asked(frame.missing, m)

\* The fragment is on its way to n; it waits to be sent at r; n's request waits,
\* or is on its way to r.
FlyingTo(n, m, i) == \E c \in air : c.to = n /\ Carries(c.frame, m, i)
QueuedAt(r, m, i) == \E e \in queue[r] : Carries(e.frame, m, i)
Asking(n, r, m, i) ==
  \/ \E e \in queue[n] : AsksFor(e.frame, m, i)
  \/ \E c \in air : c.from = n /\ c.to = r /\ AsksFor(c.frame, m, i)

\* A node no fault hit in the last period of its need timer within the retry
\* window of a message misses nothing of it by oversight: when the window has
\* closed, each node that holds a fragment it lacks has it queued, or is sending
\* it, or is being asked for it.  The origin need not be there any more, what
\* others hold changes all the time, the same message may be submitted again,
\* and nodes that can answer cancel in favour of one another (link.rs:344-431,
\* 493-531, fragcache.rs:129-216).
RepairedInTime ==
  \A n \in Node : \A m \in DOMAIN cache[n] :
    LET p == cache[n][m]
    IN  Expired(p, clock) /\ hit[n] + NeedSecs < p.created + MaxAge =>
          \A i \in Missing(p), r \in Node \ {n} :
            Holds(r, m, i) =>
              FlyingTo(n, m, i) \/ QueuedAt(r, m, i) \/ Asking(n, r, m, i)

=============================================================================
