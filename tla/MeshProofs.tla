----------------------------- MODULE MeshProofs -----------------------------
(***************************************************************************)
(* The links of a mesh, for any number of nodes and messages, however many *)
(* copies are lost, sends fail, frames are refused and nodes restarted:    *)
(* they implement Delivery, and a node that no fault hits in the last      *)
(* period of its need timer within a retry window is repaired.             *)
(***************************************************************************)
EXTENDS Mesh, FragCacheProofs, SequenceTheorems

-----------------------------------------------------------------------------
(* What every reachable state satisfies *)

\* What an honest node puts on the air of the messages given.
HonestFrags(msgs) == UNION {{FragOf(m, i, k) : i \in Indices(m), k \in Rot} : m \in msgs}

FrameOK(frame, msgs) == frame.kind = "Fragment" => frame.frag \in HonestFrags(msgs)

LinkMsgs == {Whole(m) : m \in Base}

\* What a client got is completed in its node's cache: the flag is what keeps a
\* message from being delivered again.
InboxOK(c, box) ==
  /\ box \in Seq(LinkMsgs)
  /\ \A k \in DOMAIN box : box[k].msgid \in DOMAIN c /\ c[box[k].msgid].completed

\* A node knows of submitted messages only, and has of them what was submitted.
NodeOK(c, q, box, msgs) ==
  /\ CacheOK(c)
  /\ DOMAIN c \subseteq msgs
  /\ \A e \in q : FrameOK(e.frame, msgs)
  /\ InboxOK(c, box)

IInv ==
  /\ clock \in Nat
  /\ submitted \subseteq Base
  /\ DOMAIN cache = Node /\ DOMAIN queue = Node
  /\ inbox \in [Node -> Seq(LinkMsgs)]
  /\ \A n \in Node : NodeOK(cache[n], queue[n], inbox[n], submitted)
  /\ \A copy \in air : copy.to \in Node /\ FrameOK(copy.frame, submitted)

-----------------------------------------------------------------------------
(* Helpers *)

LEMMA SetToSeqSmall ==
  /\ SetToSeq({}) = <<>>
  /\ \A x : SetToSeq({x}) = <<x>>
<1>1. SetToSeq({}) = <<>>
  <2>1. 1 .. Cardinality({}) = {}
    BY FS_EmptySet
  <2>2. <<>> \in [1 .. Cardinality({}) -> {}] /\ IsInjective(<<>>)
    BY <2>1 DEF IsInjective
  <2>3. SetToSeq({}) \in [1 .. Cardinality({}) -> {}]
    BY <2>2 DEF SetToSeq
  <2>4. SetToSeq({}) \in Seq({}) /\ Len(SetToSeq({})) = 0
    BY <2>3, FS_EmptySet
  <2> QED
    BY <2>4, EmptySeq
<1>2. ASSUME NEW x
      PROVE  SetToSeq({x}) = <<x>>
  <2>1. 1 .. Cardinality({x}) = {1}
    <3>1. Cardinality({x}) = 1
      BY FS_Singleton
    <3>2. 1 .. 1 = {1}
      OBVIOUS
    <3> QED
      BY <3>1, <3>2
  <2>2. <<x>> \in [1 .. Cardinality({x}) -> {x}] /\ IsInjective(<<x>>)
    BY <2>1 DEF IsInjective
  <2>3. SetToSeq({x}) \in [1 .. Cardinality({x}) -> {x}]
    BY <2>2 DEF SetToSeq
  <2>4. \A f \in [{1} -> {x}] : f = <<x>>
    OBVIOUS
  <2> QED
    BY <2>1, <2>3, <2>4
<1> QED
  BY <1>1, <1>2

\* More messages submitted make no frame less honest.
LEMMA HonestMonotone ==
  ASSUME NEW msgs, NEW more, msgs \subseteq more, NEW frame, FrameOK(frame, msgs)
  PROVE  FrameOK(frame, more)
BY DEF FrameOK, HonestFrags

\* What was delivered stays so while completed entries do.
LEMMA InboxKept ==
  ASSUME NEW c, NEW d, NEW box, InboxOK(c, box), DOMAIN c \subseteq DOMAIN d,
         \A m \in DOMAIN c : c[m].completed => d[m].completed
  PROVE  InboxOK(d, box)
BY DEF InboxOK

\* All that is needed to know of enqueue: the queue of n grows by some of the
\* frames, and a frame that finds neither a place nor a queued one of its id is a
\* fault to those who miss it.
LEMMA Enqueued ==
  ASSUME NEW n \in Node, NEW prio, NEW frames, DOMAIN queue = Node,
         Enqueue(n, prio, frames)
  PROVE  /\ DOMAIN queue' = Node
         /\ \A r \in Node \ {n} : queue'[r] = queue[r]
         /\ queue[n] \subseteq queue'[n]
         /\ \A e \in queue'[n] : e \in queue[n] \/ e.frame \in frames
         /\ \A f \in frames :
              \/ \E e \in queue'[n] : IdOf(e.frame) = IdOf(f)
              \/ \A r \in MissedBy(n, f) : hit'[r] = clock
         /\ hit' = [r \in Node |-> hit'[r]]
         /\ \A r \in Node : hit'[r] = hit[r] \/ hit'[r] = clock
<1> DEFINE fresh == Fresh(queue[n], prio, frames)
<1>1. PICK accepted \in Admitted(queue[n], prio, frames) :
        /\ queue' = [queue EXCEPT ![n] = @ \cup Entries(accepted, prio)]
        /\ Hit(UNION {MissedBy(n, f) : f \in fresh \ accepted})
  BY DEF Enqueue
<1>2. accepted \subseteq fresh /\ fresh \subseteq frames
  BY DEF Admitted, Fresh
<1>3. \A e \in Entries(accepted, prio) : e.frame \in accepted
  BY DEF Entries
<1>4. ASSUME NEW f \in frames
      PROVE  \/ \E e \in queue'[n] : IdOf(e.frame) = IdOf(f)
             \/ \A r \in MissedBy(n, f) : hit'[r] = clock
  <2>1. CASE f \in accepted
    <3> DEFINE e == [prio |-> prio, frame |-> f]
    <3>1. e \in queue'[n] /\ e.frame = f
      BY <1>1, <2>1 DEF Entries
    <3> QED
      BY <3>1
  <2>2. CASE f \notin fresh
    BY <1>1, <2>2 DEF Fresh, Waiting
  <2>3. CASE f \in fresh \ accepted
    <3>1. MissedBy(n, f) \subseteq Node
      BY DEF MissedBy
    <3>2. MissedBy(n, f) \subseteq UNION {MissedBy(n, g) : g \in fresh \ accepted}
      BY <2>3
    <3> QED
      BY <1>1, <3>1, <3>2 DEF Hit
  <2> QED
    BY <2>1, <2>2, <2>3
<1>5. /\ hit' = [r \in Node |-> hit'[r]]
      /\ \A r \in Node : hit'[r] = hit[r] \/ hit'[r] = clock
  BY <1>1 DEF Hit
<1> QED
  BY <1>1, <1>2, <1>3, <1>4, <1>5

-----------------------------------------------------------------------------
(* The actions: each keeps the invariant, and is a step of Delivery or none *)

Steps == [Promise!Next]_(Promise!vars)

LEMMA Stutters ==
  ASSUME UNCHANGED <<submitted, inbox>>
  PROVE  Steps
BY DEF Steps, Promise!vars

LEMMA InitInv == Init => IInv /\ Promise!Init
<1> SUFFICES ASSUME Init
             PROVE  IInv /\ Promise!Init
  OBVIOUS
<1> USE DEF Init
<1>1. \A n \in Node : /\ DOMAIN cache[n] = {} /\ queue[n] = {} /\ inbox[n] = <<>>
  OBVIOUS
<1>2. <<>> \in Seq(LinkMsgs) /\ DOMAIN <<>> = {}
  OBVIOUS
<1>3. \A n \in Node : NodeOK(cache[n], queue[n], inbox[n], submitted)
  BY <1>1, <1>2 DEF NodeOK, CacheOK, InboxOK
<1>4. IInv
  BY <1>2, <1>3 DEF IInv
<1>5. Promise!Init
  BY DEF Promise!Init
<1> QED
  BY <1>4, <1>5

LEMMA SendFragmentsInv ==
  ASSUME IInv, NEW n \in Node, NEW m \in Base, SendFragments(n, m)
  PROVE  IInv' /\ Steps
<1> DEFINE frames == {Fragment(FragOf(m, i, 0)) : i \in 0 .. NumFrag[m] - 1}
           c == AddOwn(cache[n], m, clock)
<1>1. /\ submitted' = submitted \cup {m} /\ clock' = clock
      /\ cache' = [cache EXCEPT ![n] = c]
      /\ Enqueue(n, PriorityOf[m], frames)
      /\ air' = air /\ inbox' = inbox
  BY DEF SendFragments, timers
<1>2. /\ clock \in Nat /\ DOMAIN cache = Node /\ DOMAIN queue = Node
      /\ submitted \subseteq Base /\ submitted' \subseteq Base
      /\ \A r \in Node : NodeOK(cache[r], queue[r], inbox[r], submitted)
      /\ \A copy \in air : copy.to \in Node /\ FrameOK(copy.frame, submitted)
  BY <1>1 DEF IInv
<1>3. Owned(cache[n], c, m, clock)
  BY <1>2, AddOwnOK DEF NodeOK
<1>4. \A frame \in frames : FrameOK(frame, submitted')
  <2> SUFFICES ASSUME NEW i \in 0 .. NumFrag[m] - 1
               PROVE  FrameOK(Fragment(FragOf(m, i, 0)), submitted')
    OBVIOUS
  <2>1. 0 \in Rot /\ i \in Indices(m) /\ m \in submitted'
    BY <1>1, FragCacheAssumption DEF Rot, Indices
  <2> QED
    BY <2>1 DEF FrameOK, HonestFrags, Fragment
<1> HIDE DEF frames, c
<1>5. /\ cache'[n] = c /\ \A e \in queue'[n] : e \in queue[n] \/ e.frame \in frames
      /\ \A r \in Node \ {n} : cache'[r] = cache[r] /\ queue'[r] = queue[r]
      /\ DOMAIN cache' = Node /\ DOMAIN queue' = Node
  BY <1>1, <1>2, Enqueued
<1>6. submitted \subseteq submitted' /\ m \in submitted'
  BY <1>1
<1>7. NodeOK(c, queue'[n], inbox[n], submitted')
  <2>1. /\ CacheOK(c) /\ DOMAIN c = DOMAIN cache[n] \cup {m}
        /\ \A b \in DOMAIN cache[n] : cache[n][b].completed => c[b].completed
    BY <1>3 DEF Owned, Found
  <2>2. DOMAIN c \subseteq submitted'
    BY <1>2, <1>6, <2>1 DEF NodeOK
  <2>3. InboxOK(c, inbox[n])
    BY <1>2, <2>1, InboxKept DEF NodeOK
  <2>4. \A e \in queue[n] : FrameOK(e.frame, submitted')
    BY <1>2, <1>6, HonestMonotone DEF NodeOK
  <2> QED
    BY <1>4, <1>5, <2>1, <2>2, <2>3, <2>4 DEF NodeOK
<1>8. \A r \in Node \ {n} : NodeOK(cache[r], queue[r], inbox[r], submitted')
  BY <1>2, <1>6, HonestMonotone DEF NodeOK
<1>9. \A copy \in air : copy.to \in Node /\ FrameOK(copy.frame, submitted')
  BY <1>2, <1>6, HonestMonotone
<1>10. IInv'
  <2>1. \A r \in Node : NodeOK(cache'[r], queue'[r], inbox'[r], submitted')
    BY <1>1, <1>5, <1>7, <1>8
  <2>2. inbox' \in [Node -> Seq(LinkMsgs)]
    BY <1>1 DEF IInv
  <2> QED
    BY <1>1, <1>2, <1>5, <1>9, <2>1, <2>2 DEF IInv
<1>11. Steps
  <2>1. {Whole(b) : b \in submitted'} = {Whole(b) : b \in submitted} \cup {Whole(m)}
    BY <1>1
  <2>2. Promise!Submit(Whole(m))
    BY <1>1, <2>1 DEF Promise!Submit
  <2>3. Whole(m) \in {Whole(b) : b \in Base}
    OBVIOUS
  <2> QED
    BY <2>2, <2>3 DEF Steps, Promise!Next
<1> QED
  BY <1>10, <1>11

LEMMA RegSendInv ==
  ASSUME IInv, NEW n \in Node, RegSend(n)
  PROVE  IInv' /\ Steps
<1>1. PICK e \in queue[n] :
        /\ queue' = [queue EXCEPT ![n] = @ \ {e}]
        /\ air' = air \cup {[from |-> n, to |-> r, frame |-> e.frame] : r \in Node \ {n}}
  BY DEF RegSend, Pop
<1>2. UNCHANGED <<cache, submitted, inbox, clock>>
  BY DEF RegSend, timers, clients
<1>3. /\ \A r \in Node : NodeOK(cache[r], queue[r], inbox[r], submitted)
      /\ DOMAIN queue = Node
      /\ \A copy \in air : copy.to \in Node /\ FrameOK(copy.frame, submitted)
  BY DEF IInv
<1>4. FrameOK(e.frame, submitted)
  BY <1>3 DEF NodeOK
<1>5. \A copy \in air' : copy.to \in Node /\ FrameOK(copy.frame, submitted)
  BY <1>1, <1>3, <1>4
<1>6. \A r \in Node : queue'[r] \subseteq queue[r]
  BY <1>1, <1>3
<1>7. \A r \in Node : NodeOK(cache[r], queue'[r], inbox[r], submitted)
  BY <1>3, <1>6 DEF NodeOK
<1>8. DOMAIN queue' = Node
  BY <1>1, <1>3
<1> QED
  BY <1>2, <1>5, <1>7, <1>8, Stutters DEF IInv

LEMMA RegSendFailsInv ==
  ASSUME IInv, NEW n \in Node, RegSendFails(n)
  PROVE  IInv' /\ Steps
<1>1. PICK e \in queue[n] : queue' = [queue EXCEPT ![n] = @ \ {e}]
  BY DEF RegSendFails, Pop
<1>2. UNCHANGED <<cache, air, submitted, inbox, clock>>
  BY DEF RegSendFails, timers, clients
<1>3. /\ \A r \in Node : NodeOK(cache[r], queue[r], inbox[r], submitted)
      /\ DOMAIN queue = Node
  BY DEF IInv
<1>4. DOMAIN queue' = Node /\ \A r \in Node : queue'[r] \subseteq queue[r]
  BY <1>1, <1>3
<1>5. \A r \in Node : NodeOK(cache[r], queue'[r], inbox[r], submitted)
  BY <1>3, <1>4 DEF NodeOK
<1> QED
  BY <1>2, <1>4, <1>5, Stutters DEF IInv

LEMMA SendFragmentRetriesInv ==
  ASSUME IInv, NEW n \in Node, SendFragmentRetries(n)
  PROVE  IInv' /\ Steps
<1> DEFINE c == Requested(cache[n], clock)
           missing == Requests(cache[n], clock)
           frames == IF missing = {} THEN {} ELSE {Need(missing)}
<1>1. /\ cache' = [cache EXCEPT ![n] = c]
      /\ Enqueue(n, "High", frames)
      /\ UNCHANGED <<air, submitted, inbox, clock>>
  BY DEF SendFragmentRetries, clients
<1>2. /\ clock \in Nat /\ DOMAIN cache = Node /\ DOMAIN queue = Node
      /\ \A r \in Node : NodeOK(cache[r], queue[r], inbox[r], submitted)
  BY DEF IInv
<1>3. \A frame \in frames : FrameOK(frame, submitted)
  BY DEF Need, FrameOK
<1>4. /\ CacheOK(c)
      /\ DOMAIN c = DOMAIN cache[n]
      /\ \A m \in DOMAIN cache[n] : c[m].completed = cache[n][m].completed
  <2>1. CacheOK(cache[n])
    BY <1>2 DEF NodeOK
  <2> QED
    BY <1>2, <2>1, RequestedOK
<1> HIDE DEF c, frames
<1>5. /\ DOMAIN queue' = Node /\ \A r \in Node \ {n} : queue'[r] = queue[r]
      /\ \A e \in queue'[n] : e \in queue[n] \/ e.frame \in frames
  BY <1>1, <1>2, Enqueued
<1>6. NodeOK(c, queue'[n], inbox[n], submitted)
  <2>1. InboxOK(c, inbox[n])
    BY <1>2, <1>4, InboxKept DEF NodeOK
  <2> QED
    BY <1>2, <1>3, <1>4, <1>5, <2>1 DEF NodeOK
<1>7. \A r \in Node : NodeOK(cache'[r], queue'[r], inbox[r], submitted)
  BY <1>1, <1>2, <1>5, <1>6
<1> QED
  BY <1>1, <1>2, <1>5, <1>7, Stutters DEF IInv

LEMMA CrashInv ==
  ASSUME IInv, NEW n \in Node, Crash(n)
  PROVE  IInv' /\ Steps
<1>1. /\ cache' = [cache EXCEPT ![n] = [m \in {} |-> 0]]
      /\ queue' = [queue EXCEPT ![n] = {}]
      /\ inbox' = [inbox EXCEPT ![n] = <<>>]
      /\ air' \subseteq air
      /\ UNCHANGED <<submitted, clock>>
  BY DEF Crash, clients
<1>2. <<>> \in Seq(LinkMsgs) /\ DOMAIN <<>> = {}
  OBVIOUS
<1>3. NodeOK([m \in {} |-> 0], {}, <<>>, submitted)
  BY <1>2 DEF NodeOK, CacheOK, InboxOK
<1>4. \A r \in Node : NodeOK(cache'[r], queue'[r], inbox'[r], submitted)
  BY <1>1, <1>3 DEF IInv
<1>5. inbox' \in [Node -> Seq(LinkMsgs)]
  BY <1>1, <1>2 DEF IInv
<1>6. Promise!Restart(n)
  BY <1>1 DEF Promise!Restart
<1> QED
  BY <1>1, <1>4, <1>5, <1>6 DEF IInv, Steps, Promise!Next

LEMMA HandleFragmentInv ==
  ASSUME IInv, NEW copy \in air, copy.frame.kind = "Fragment", Receive(copy)
  PROVE  IInv' /\ Steps
<1> DEFINE n == copy.to
           up == Assembled(cache[n], copy.frame.frag, TRUE, clock)
           c == AddFragment(cache[n], copy.frame.frag, TRUE, clock)
<1>1. /\ HandleFragment(n, copy.frame)
      /\ air' \subseteq air
      /\ submitted' = submitted /\ clock' = clock
  BY DEF Receive, timers, clients
<1>2. /\ n \in Node /\ clock \in Nat /\ DOMAIN cache = Node /\ DOMAIN queue = Node
      /\ submitted \subseteq Base
      /\ inbox \in [Node -> Seq(LinkMsgs)]
      /\ copy.frame.frag \in HonestFrags(submitted)
      /\ \A r \in Node : NodeOK(cache[r], queue[r], inbox[r], submitted)
  BY DEF IInv, FrameOK
<1>3. PICK m \in submitted : \E i \in Indices(m), k \in Rot : copy.frame.frag = FragOf(m, i, k)
  BY <1>2 DEF HonestFrags
<1>4. PICK i \in Indices(m), k \in Rot : copy.frame.frag = FragOf(m, i, k)
  BY <1>3
<1>5. m \in Base /\ i \in Nat
  BY <1>2, IndicesType
<1>6. /\ queue' = [queue EXCEPT ![n] = Cancel(queue[n], copy.frame)]
      /\ cache' = [cache EXCEPT ![n] = c]
      /\ inbox' = [inbox EXCEPT ![n] = inbox[n] \o SetToSeq(up)]
  BY <1>1 DEF HandleFragment
<1>7. AddedTo(cache[n], c, up, m, i, TRUE, clock)
  BY <1>2, <1>4, <1>5, AddFragmentOK DEF NodeOK
<1> DEFINE p == Found(cache[n], m, TRUE, clock)
<1> HIDE DEF up, c
<1>8. /\ CacheOK(c)
      /\ DOMAIN c = DOMAIN cache[n] \cup {m}
      /\ \A b \in DOMAIN cache[n] : cache[n][b].completed => c[b].completed
      /\ m \in DOMAIN cache[n] => p = cache[n][m]
      /\ up = IF ~p.completed /\ c[m].completed THEN {Whole(m)} ELSE {}
  BY <1>7 DEF AddedTo, Found, Whole
<1> HIDE DEF p, n
<1>9. InboxOK(c, inbox[n])
  BY <1>2, <1>8, InboxKept DEF NodeOK
<1>10. /\ DOMAIN c \subseteq submitted
       /\ \A e \in Cancel(queue[n], copy.frame) : FrameOK(e.frame, submitted)
  BY <1>2, <1>8 DEF NodeOK, Cancel
<1>11. /\ cache'[n] = c /\ queue'[n] = Cancel(queue[n], copy.frame)
       /\ inbox'[n] = inbox[n] \o SetToSeq(up)
       /\ DOMAIN cache' = Node /\ DOMAIN queue' = Node
       /\ \A r \in Node \ {n} :
            cache'[r] = cache[r] /\ queue'[r] = queue[r] /\ inbox'[r] = inbox[r]
  BY <1>2, <1>6
<1>12. inbox[n] \in Seq(LinkMsgs)
  BY <1>2
<1>13. ASSUME InboxOK(c, inbox'[n])
       PROVE  IInv'
  <2>1. NodeOK(c, queue'[n], inbox'[n], submitted)
    BY <1>8, <1>10, <1>11, <1>13 DEF NodeOK
  <2>2. \A r \in Node : NodeOK(cache'[r], queue'[r], inbox'[r], submitted)
    BY <1>2, <1>11, <2>1
  <2>3. inbox' \in [Node -> Seq(LinkMsgs)]
    BY <1>2, <1>6, <1>11, <1>13 DEF InboxOK
  <2> QED
    BY <1>1, <1>2, <1>11, <2>2, <2>3 DEF IInv
<1>14. CASE up = {}
  <2>1. inbox'[n] = inbox[n]
    BY <1>11, <1>12, <1>14, SetToSeqSmall, ConcatEmptySeq
  <2>2. inbox' = inbox
    BY <1>2, <1>6, <2>1
  <2> QED
    BY <1>1, <1>9, <1>13, <2>1, <2>2, Stutters
<1>15. CASE up # {}
  <2>1. up = {Whole(m)} /\ ~p.completed /\ c[m].completed
    BY <1>8, <1>15
  <2>2. Whole(m) \in LinkMsgs /\ Whole(m).msgid = m
    BY <1>5 DEF LinkMsgs, Whole
  <2>3. inbox'[n] = Append(inbox[n], Whole(m))
    <3>1. inbox'[n] = inbox[n] \o <<Whole(m)>>
      BY <1>11, <2>1, SetToSeqSmall
    <3> HIDE DEF Whole
    <3> QED
      BY <1>12, <2>2, <3>1
  <2>4. \A j \in DOMAIN inbox[n] : inbox[n][j] # Whole(m)
    BY <1>2, <1>8, <2>1, <2>2 DEF NodeOK, InboxOK
  <2>5. /\ Len(inbox[n]) \in Nat /\ DOMAIN inbox[n] = 1 .. Len(inbox[n])
        /\ inbox'[n] \in Seq(LinkMsgs)
        /\ DOMAIN inbox'[n] = 1 .. Len(inbox[n]) + 1
        /\ \A j \in DOMAIN inbox[n] : inbox'[n][j] = inbox[n][j]
        /\ inbox'[n][Len(inbox[n]) + 1] = Whole(m)
    BY <1>12, <2>2, <2>3, AppendProperties, LenProperties
  <2>6. \A j \in DOMAIN inbox'[n] : j \in DOMAIN inbox[n] \/ j = Len(inbox[n]) + 1
    BY <2>5
  <2>7. InboxOK(c, inbox'[n])
    BY <1>8, <1>9, <2>1, <2>2, <2>5, <2>6 DEF InboxOK
  <2>8. inbox' = [inbox EXCEPT ![n] = Append(inbox[n], Whole(m))]
    BY <1>6, <1>11, <1>2, <2>3
  <2>9. ~Promise!Contains(inbox[n], Whole(m))
    BY <2>4, <2>5 DEF Promise!Contains
  <2>10. Promise!Deliver(n, Whole(m))
    BY <1>1, <2>8, <2>9 DEF Promise!Deliver
  <2>11. Steps
    BY <1>2, <1>5, <2>10 DEF Steps, Promise!Next
  <2> QED
    BY <1>13, <2>7, <2>11
<1> QED
  BY <1>14, <1>15

LEMMA HandleNeedInv ==
  ASSUME IInv, NEW copy \in air, copy.frame.kind = "Need", Receive(copy)
  PROVE  IInv' /\ Steps
<1> DEFINE n == copy.to
           missing == copy.frame.missing
           old == cache[n]
           c == [m \in DOMAIN old |-> Fulfilled(old, m, Asked(missing, m))[m]]
<1>1. /\ HandleNeed(n, copy.frame)
      /\ air' \subseteq air
      /\ submitted' = submitted /\ clock' = clock
  BY DEF Receive, timers, clients
<1>2. /\ n \in Node /\ DOMAIN cache = Node /\ DOMAIN queue = Node
      /\ \A r \in Node : NodeOK(cache[r], queue[r], inbox[r], submitted)
      /\ CacheOK(old)
  BY DEF IInv, NodeOK
<1>3. /\ cache' = [cache EXCEPT ![n] = c]
      /\ Enqueue(n, "High", Answers(old, missing))
      /\ inbox' = inbox
  BY <1>1 DEF HandleNeed
<1>4. ASSUME NEW m \in DOMAIN old
      PROVE  m \in Base /\ PartialOK(m, c[m]) /\ c[m].completed = old[m].completed
  <2> DEFINE d == Fulfilled(old, m, Asked(missing, m))
  <2>1. m \in Base
    BY <1>2, <1>4 DEF CacheOK
  <2>2. CacheOK(d) /\ DOMAIN d = DOMAIN old /\ d[m].completed = old[m].completed
    BY <1>2, <1>4, <2>1, FulfilledOK
  <2>3. c[m] = d[m]
    OBVIOUS
  <2> HIDE DEF c, d
  <2> QED
    BY <2>1, <2>2, <2>3 DEF CacheOK
<1>5. DOMAIN c = DOMAIN old
  OBVIOUS
<1>6. \A frame \in Answers(old, missing) : FrameOK(frame, submitted)
  <2> SUFFICES ASSUME NEW m \in DOMAIN old, NEW f \in Resends(old, m, Asked(missing, m))
               PROVE  FrameOK(Fragment(f), submitted)
    BY DEF Answers
  <2>1. PICK i \in Available(old, m, Asked(missing, m)) : f = Resend(old, m, i)
    BY DEF Resends
  <2>2. /\ i \in Indices(m) /\ old[m].frags[i].rotoff \in Rot
        /\ f = FragOf(m, i, old[m].frags[i].rotoff)
    BY <1>2, <2>1, ResendOK
  <2>3. m \in submitted
    BY <1>2 DEF NodeOK
  <2> QED
    BY <2>2, <2>3 DEF FrameOK, HonestFrags, Fragment
<1> HIDE DEF c, old, n
<1>7. CacheOK(c)
  BY <1>2, <1>4, <1>5 DEF CacheOK
<1> HIDE DEF missing
<1>8. /\ DOMAIN queue' = Node /\ \A r \in Node \ {n} : queue'[r] = queue[r]
      /\ \A e \in queue'[n] : e \in queue[n] \/ e.frame \in Answers(old, missing)
  BY <1>2, <1>3, Enqueued
<1>9. NodeOK(c, queue'[n], inbox[n], submitted)
  <2>1. InboxOK(c, inbox[n])
    BY <1>2, <1>4, <1>5, InboxKept DEF NodeOK, old
  <2>2. DOMAIN c \subseteq submitted
    BY <1>2, <1>5 DEF NodeOK, old
  <2> QED
    BY <1>2, <1>6, <1>7, <1>8, <2>1, <2>2 DEF NodeOK
<1>10. \A r \in Node : NodeOK(cache'[r], queue'[r], inbox[r], submitted)
  BY <1>2, <1>3, <1>8, <1>9
<1> QED
  BY <1>1, <1>2, <1>3, <1>8, <1>10, Stutters DEF IInv

-----------------------------------------------------------------------------

LEMMA NextInv ==
  ASSUME IInv, [Next]_vars
  PROVE  IInv' /\ Steps
<1>1. ASSUME NEW n \in Node, NEW m \in Base, SendFragments(n, m) PROVE IInv' /\ Steps
  BY <1>1, SendFragmentsInv
<1>2. ASSUME NEW n \in Node, RegSend(n) \/ RegSendFails(n) PROVE IInv' /\ Steps
  BY <1>2, RegSendInv, RegSendFailsInv
<1>3. ASSUME NEW n \in Node, SendFragmentRetries(n) PROVE IInv' /\ Steps
  BY <1>3, SendFragmentRetriesInv
<1>4. ASSUME NEW n \in Node, Crash(n) PROVE IInv' /\ Steps
  BY <1>4, CrashInv
<1>5. ASSUME NEW copy \in air, Receive(copy) PROVE IInv' /\ Steps
  <2>1. copy.frame.kind = "Fragment" \/ copy.frame.kind = "Need"
    BY <1>5 DEF Receive
  <2> QED
    BY <1>5, <2>1, HandleFragmentInv, HandleNeedInv
<1>6. ASSUME NEW copy \in air, Lose(copy) PROVE IInv' /\ Steps
  <2>1. air' \subseteq air /\ UNCHANGED <<cache, queue, submitted, inbox, clock>>
    BY <1>6 DEF Lose, timers, clients
  <2> QED
    BY <2>1, Stutters DEF IInv
<1>7. CASE Tick
  <2>1. clock' \in Nat /\ UNCHANGED <<cache, queue, air, submitted, inbox>>
    BY <1>7 DEF Tick, IInv, clients
  <2> QED
    BY <2>1, Stutters DEF IInv
<1>8. CASE UNCHANGED vars
  <2>1. UNCHANGED <<cache, queue, air, submitted, inbox, clock>>
    BY <1>8 DEF vars, timers, clients
  <2> QED
    BY <2>1, Stutters DEF IInv
<1> QED
  BY <1>1, <1>2, <1>3, <1>4, <1>5, <1>6, <1>7, <1>8 DEF Next

\* The links keep the promise of Delivery: whatever is lost, repeated, answered
\* by several nodes at once or forgotten in a restart, a client gets submitted
\* messages only, each whole and once (link.rs:344-431, fragcache.rs:67-127,182-216).
THEOREM KeepsPromise == Spec => ImplementsDelivery
<1>1. Init => IInv /\ Promise!Init
  BY InitInv
<1>2. IInv /\ [Next]_vars => IInv'
  BY NextInv
<1>3. IInv /\ [Next]_vars => [Promise!Next]_(Promise!vars)
  BY NextInv DEF Steps
<1> QED
  BY <1>1, <1>2, <1>3, PTL DEF Spec, ImplementsDelivery, Promise!Spec

-----------------------------------------------------------------------------
(* What repair rests on *)

\* n has an entry for m without fragment i; some copy of it is on the air; r's
\* copy of it is under way to n, or will be.
Lacks(n, m, i) == m \in DOMAIN cache[n] /\ i \in Missing(cache[n][m])
Flying(m, i) == \E c \in air : Carries(c.frame, m, i)
UnderWay(n, r, m, i) == FlyingTo(n, m, i) \/ QueuedAt(r, m, i) \/ Asking(n, r, m, i)

\* What is on the air is on its way to each node that no fault has hit since.
Heard(n, m, i) ==
  hit[n] < clock /\ Flying(m, i) => Holds(n, m, i) \/ FlyingTo(n, m, i)

\* Once a node has asked, and unless a fault has hit it since, each holder sends
\* the fragment, or has it queued, or is being asked.
Covered(n, m, i) ==
  /\ Lacks(n, m, i)
  /\ cache[n][m].lasttry > cache[n][m].created
  /\ cache[n][m].lasttry > hit[n]
  => \A r \in Node \ {n} : Holds(r, m, i) => UnderWay(n, r, m, i)

Known(n, m, i) == Heard(n, m, i) /\ Covered(n, m, i)
Repairable == \A n \in Node : \A m \in Base : \A i \in Indices(m) : Known(n, m, i)

Kinds == {"Fragment", "Need"}

\* A node queues what it holds, and hears nothing of its own.
SentByHolders ==
  /\ \A n \in Node : \A e \in queue[n] :
       /\ e.frame.kind \in Kinds
       /\ e.frame.kind = "Fragment" =>
            Holds(n, e.frame.frag.msgid, e.frame.frag.fragndx)
  /\ \A c \in air : /\ c.from \in Node /\ c.to \in Node \ {c.from}
                    /\ c.frame.kind \in Kinds

\* An entry that was not asked for since the last fault has a tick of the need
\* timer to come within its window, if the fault left it time for one.
EntryTimes(p, next, fault, now) ==
  /\ p.created <= p.lasttry /\ p.lasttry <= now
  /\ p.lasttry = p.created \/ p.lasttry + NeedSecs <= next
  /\ /\ Missing(p) # {}
     /\ p.lasttry = p.created \/ p.lasttry <= fault
     /\ fault + NeedSecs < p.created + MaxAge
     => next < p.created + MaxAge

TimesOK ==
  /\ hit \in [Node -> Nat]
  /\ nextNeed \in [Node -> Nat]
  /\ \A n \in Node :
       /\ hit[n] <= clock
       /\ clock <= nextNeed[n] /\ nextNeed[n] <= clock + NeedSecs
       /\ \A m \in DOMAIN cache[n] : EntryTimes(cache[n][m], nextNeed[n], hit[n], clock)

RInv == IInv /\ SentByHolders /\ TimesOK /\ Repairable

-----------------------------------------------------------------------------
(* Steps as they look from one node and one fragment *)

LEMMA EntryTypes ==
  ASSUME NEW c, CacheOK(c), NEW m \in DOMAIN c
  PROVE  /\ m \in Base
         /\ c[m].created \in Nat /\ c[m].lasttry \in Nat
         /\ Missing(c[m]) \subseteq Indices(m)
BY DEF CacheOK, PartialOK, Missing

\* A node that has the fragment, or soon will, or has just been hit by a fault.
LEMMA Settled ==
  ASSUME NEW n \in Node, NEW m \in Base, NEW i \in Indices(m), IInv', TimesOK',
         Holds(n, m, i)' \/ FlyingTo(n, m, i)' \/ hit'[n] = clock'
  PROVE  Known(n, m, i)'
<1>1. Lacks(n, m, i)' => ~Holds(n, m, i)'
  BY DEF Lacks, Holds
<1>2. hit'[n] \in Nat
  BY DEF TimesOK
<1>3. Heard(n, m, i)'
  BY <1>2 DEF Heard
<1>4. Lacks(n, m, i)' => cache'[n][m].lasttry <= clock'
  BY DEF TimesOK, EntryTimes, Lacks
<1>5. CASE Holds(n, m, i)' \/ FlyingTo(n, m, i)'
  BY <1>1, <1>5 DEF Covered, UnderWay, Known, Heard
<1>6. CASE hit'[n] = clock'
  <2>1. ASSUME Lacks(n, m, i)'
        PROVE  ~(cache'[n][m].lasttry > hit'[n])
    <3>1. CacheOK(cache'[n]) /\ m \in DOMAIN cache'[n]
      BY <2>1 DEF IInv, NodeOK, Lacks
    <3>2. cache'[n][m].lasttry \in Nat
      BY <3>1, EntryTypes
    <3> QED
      BY <1>2, <1>4, <1>6, <2>1, <3>2
  <2> QED
    BY <1>3, <2>1 DEF Covered, Known
<1> QED
  BY <1>5, <1>6

\* A step that takes nothing from the fragment's way to a node.
LEMMA Undisturbed ==
  ASSUME NEW n \in Node, NEW m \in Base, NEW i \in Indices(m), Known(n, m, i),
         clock' = clock, hit'[n] = hit[n],
         Holds(n, m, i) => Holds(n, m, i)',
         Flying(m, i)' => Flying(m, i),
         FlyingTo(n, m, i) => FlyingTo(n, m, i)',
         \A r \in Node \ {n} : Holds(r, m, i)' =>
           \/ UnderWay(n, r, m, i)'
           \/ Holds(r, m, i) /\ ~UnderWay(n, r, m, i),
         Lacks(n, m, i)' =>
           \/ /\ Lacks(n, m, i)
              /\ cache'[n][m].created = cache[n][m].created
              /\ cache'[n][m].lasttry = cache[n][m].lasttry
           \/ ~(cache'[n][m].lasttry > cache'[n][m].created)
  PROVE  Known(n, m, i)'
<1>1. Heard(n, m, i)'
  BY DEF Known, Heard
<1>2. Covered(n, m, i)'
  BY DEF Known, Covered
<1> QED
  BY <1>1, <1>2 DEF Known

-----------------------------------------------------------------------------
(* Times *)

\* The entry may be rewritten, and a fault may hit its node now.
LEMMA SameTimes ==
  ASSUME NEW p, NEW q, NEW next \in Nat, NEW now \in Nat, NEW fault \in Nat, NEW later,
         p.created \in Nat, p.lasttry \in Nat,
         next <= now + NeedSecs, later = fault \/ later = now,
         EntryTimes(p, next, fault, now),
         q.created = p.created, q.lasttry = p.lasttry, Missing(q) \subseteq Missing(p)
  PROVE  EntryTimes(q, next, later, now)
<1>1. NeedSecs \in Nat /\ MaxAge \in Nat
  BY FragCacheAssumption, MeshAssumption
<1>2. Missing(q) # {} => Missing(p) # {}
  OBVIOUS
<1>3. CASE later = fault
  BY <1>2, <1>3 DEF EntryTimes
<1>4. CASE later = now
  BY <1>1, <1>2, <1>4 DEF EntryTimes
<1> QED
  BY <1>3, <1>4

LEMMA NewEntryTimes ==
  ASSUME NEW p, NEW next \in Nat, NEW now \in Nat, NEW fault,
         next <= now + NeedSecs, p.created = now, p.lasttry = now
  PROVE  EntryTimes(p, next, fault, now)
<1>1. NeedSecs \in Nat /\ MaxAge \in Nat /\ NeedSecs < MaxAge
  BY FragCacheAssumption, MeshAssumption, WindowAssumption
<1>2. next < now + MaxAge /\ now <= now
  BY <1>1
<1> QED
  BY <1>2 DEF EntryTimes

\* What a step must keep of the times when the clock and the timers stand still.
LEMMA KeepsTimes ==
  ASSUME RInv, clock' = clock, nextNeed' = nextNeed,
         hit' = [n \in Node |-> hit'[n]],
         \A n \in Node : hit'[n] = hit[n] \/ hit'[n] = clock,
         \A n \in Node : \A m \in DOMAIN cache'[n] :
           \/ /\ m \in DOMAIN cache[n]
              /\ cache'[n][m].created = cache[n][m].created
              /\ cache'[n][m].lasttry = cache[n][m].lasttry
              /\ Missing(cache'[n][m]) \subseteq Missing(cache[n][m])
           \/ cache'[n][m].created = clock /\ cache'[n][m].lasttry = clock
  PROVE  TimesOK'
<1>1. /\ clock \in Nat /\ hit \in [Node -> Nat] /\ nextNeed \in [Node -> Nat]
      /\ \A n \in Node : CacheOK(cache[n])
      /\ \A n \in Node : hit[n] <= clock /\ nextNeed[n] <= clock + NeedSecs
  BY DEF RInv, IInv, NodeOK, TimesOK
<1>2. hit' \in [Node -> Nat]
  BY <1>1
<1>3. \A n \in Node : hit'[n] <= clock
  BY <1>1
<1>4. ASSUME NEW n \in Node, NEW m \in DOMAIN cache'[n]
      PROVE  EntryTimes(cache'[n][m], nextNeed[n], hit'[n], clock)
  <2>1. nextNeed[n] \in Nat /\ hit[n] \in Nat /\ nextNeed[n] <= clock + NeedSecs
    BY <1>1
  <2>2. CASE /\ m \in DOMAIN cache[n]
             /\ cache'[n][m].created = cache[n][m].created
             /\ cache'[n][m].lasttry = cache[n][m].lasttry
             /\ Missing(cache'[n][m]) \subseteq Missing(cache[n][m])
    <3>1. cache[n][m].created \in Nat /\ cache[n][m].lasttry \in Nat
      BY <1>1, <2>2, EntryTypes
    <3>2. EntryTimes(cache[n][m], nextNeed[n], hit[n], clock)
      BY <2>2 DEF RInv, TimesOK
    <3> QED
      BY <1>1, <2>1, <2>2, <3>1, <3>2, SameTimes
  <2>3. CASE cache'[n][m].created = clock /\ cache'[n][m].lasttry = clock
    BY <1>1, <2>1, <2>3, NewEntryTimes
  <2> QED
    BY <2>2, <2>3
<1> QED
  BY <1>1, <1>2, <1>3, <1>4 DEF RInv, TimesOK

-----------------------------------------------------------------------------
(* Faults and time *)

LEMMA TickRepairs ==
  ASSUME RInv, Tick
  PROVE  SentByHolders' /\ TimesOK' /\ Repairable'
<1>1. /\ clock' = clock + 1 /\ clock \in Nat
      /\ air = {} /\ \A n \in Node : clock < nextNeed[n]
      /\ UNCHANGED <<cache, queue, air, nextNeed, hit>>
  BY DEF Tick, RInv, IInv
<1>2. SentByHolders'
  BY <1>1 DEF RInv, SentByHolders, Holds
<1>3. TimesOK'
  <2>1. ASSUME NEW n \in Node
        PROVE  /\ hit[n] <= clock + 1
               /\ clock + 1 <= nextNeed[n] /\ nextNeed[n] <= clock + 1 + NeedSecs
               /\ \A m \in DOMAIN cache[n] :
                    EntryTimes(cache[n][m], nextNeed[n], hit[n], clock + 1)
    <3>1. /\ nextNeed[n] \in Nat /\ hit[n] \in Nat /\ hit[n] <= clock
          /\ nextNeed[n] <= clock + NeedSecs /\ NeedSecs \in Nat
          /\ CacheOK(cache[n])
      BY <2>1, MeshAssumption DEF RInv, TimesOK, IInv, NodeOK
    <3>2. ASSUME NEW m \in DOMAIN cache[n]
          PROVE  EntryTimes(cache[n][m], nextNeed[n], hit[n], clock + 1)
      <4>1. EntryTimes(cache[n][m], nextNeed[n], hit[n], clock)
        BY <3>2 DEF RInv, TimesOK
      <4>2. cache[n][m].lasttry \in Nat
        BY <3>1, EntryTypes
      <4> QED
        BY <1>1, <4>1, <4>2 DEF EntryTimes
    <3> QED
      BY <1>1, <3>1, <3>2
  <2> QED
    BY <1>1, <2>1 DEF RInv, TimesOK
<1>4. ASSUME NEW n \in Node, NEW m \in Base, NEW i \in Indices(m)
      PROVE  Known(n, m, i)'
  <2>1. Heard(n, m, i)'
    BY <1>1 DEF Heard, Flying
  <2>2. Covered(n, m, i)
    BY DEF RInv, Repairable, Known
  <2>3. Covered(n, m, i)'
    BY <1>1, <2>2 DEF Covered, Lacks, Holds, UnderWay, FlyingTo, QueuedAt, Asking
  <2> QED
    BY <2>1, <2>3 DEF Known
<1> QED
  BY <1>2, <1>3, <1>4 DEF Repairable

\* What one node sends is missed by others only, and what it asks for by itself.
LEMMA LoseRepairs ==
  ASSUME RInv, IInv', NEW copy \in air, Lose(copy)
  PROVE  SentByHolders' /\ TimesOK' /\ Repairable'
<1> DEFINE v == IF copy.frame.kind = "Need" THEN copy.from ELSE copy.to
<1>1. /\ air' = air \ {copy} /\ Hit({v})
      /\ UNCHANGED <<cache, queue, clock, nextNeed>>
  BY DEF Lose, timers
<1>2. /\ v \in Node /\ copy.frame.kind \in Kinds
      /\ hit' = [n \in Node |-> hit'[n]] /\ hit'[v] = clock
      /\ \A n \in Node : hit'[n] = hit[n] \/ hit'[n] = clock
  BY <1>1 DEF RInv, SentByHolders, Hit
<1>3. SentByHolders'
  BY <1>1 DEF RInv, SentByHolders, Holds
<1>4. TimesOK'
  BY <1>1, <1>2, KeepsTimes
<1>5. ASSUME NEW n \in Node, NEW m \in Base, NEW i \in Indices(m)
      PROVE  Known(n, m, i)'
  <2>1. CASE hit'[n] = clock
    BY <1>1, <1>4, <2>1, Settled
  <2>2. CASE hit'[n] # clock
    <3>1. hit'[n] = hit[n] /\ n # v
      BY <1>2, <2>2
    <3>2. Known(n, m, i)
      BY DEF RInv, Repairable
    <3>3. \A r \in Node : /\ Holds(r, m, i)' = Holds(r, m, i)
                          /\ Lacks(r, m, i)' = Lacks(r, m, i)
                          /\ QueuedAt(r, m, i)' = QueuedAt(r, m, i)
      BY <1>1 DEF Holds, Lacks, QueuedAt
    <3>4. Flying(m, i)' => Flying(m, i)
      BY <1>1 DEF Flying
    <3>5. FlyingTo(n, m, i) => FlyingTo(n, m, i)'
      BY <1>1, <3>1 DEF FlyingTo, Carries
    <3>6. \A r \in Node : Asking(n, r, m, i) => Asking(n, r, m, i)'
      BY <1>1, <1>2, <3>1 DEF Asking, AsksFor
    <3>7. \A r \in Node : UnderWay(n, r, m, i) => UnderWay(n, r, m, i)'
      BY <3>3, <3>5, <3>6 DEF UnderWay
    <3> QED
      BY <1>1, <3>1, <3>2, <3>3, <3>4, <3>5, <3>7, Undisturbed
  <2> QED
    BY <2>1, <2>2
<1> QED
  BY <1>3, <1>4, <1>5 DEF Repairable

LEMMA CrashRepairs ==
  ASSUME RInv, IInv', NEW x \in Node, Crash(x)
  PROVE  SentByHolders' /\ TimesOK' /\ Repairable'
<1>1. /\ cache' = [cache EXCEPT ![x] = [m \in {} |-> 0]]
      /\ queue' = [queue EXCEPT ![x] = {}]
      /\ air' = {c \in air : c.to # x}
      /\ nextNeed' = [nextNeed EXCEPT ![x] = clock]
      /\ clock' = clock /\ Hit({x})
  BY DEF Crash
<1>2. /\ DOMAIN cache = Node /\ DOMAIN queue = Node /\ clock \in Nat
      /\ hit \in [Node -> Nat] /\ nextNeed \in [Node -> Nat]
  BY DEF RInv, IInv, TimesOK
<1>3. /\ DOMAIN cache'[x] = {} /\ queue'[x] = {} /\ nextNeed'[x] = clock
      /\ hit'[x] = clock /\ hit' \in [Node -> Nat]
      /\ nextNeed' \in [Node -> Nat]
      /\ \A n \in Node \ {x} : /\ cache'[n] = cache[n] /\ queue'[n] = queue[n]
                               /\ nextNeed'[n] = nextNeed[n] /\ hit'[n] = hit[n]
  BY <1>1, <1>2 DEF Hit
<1>4. SentByHolders'
  <2>1. ASSUME NEW n \in Node, NEW e \in queue'[n]
        PROVE  /\ e.frame.kind \in Kinds
               /\ e.frame.kind = "Fragment" =>
                    Holds(n, e.frame.frag.msgid, e.frame.frag.fragndx)'
    <3>1. n # x /\ e \in queue[n]
      BY <1>3, <2>1
    <3> QED
      BY <1>3, <3>1 DEF RInv, SentByHolders, Holds
  <2> QED
    BY <1>1, <2>1 DEF RInv, SentByHolders
<1>5. TimesOK'
  <2>1. \A n \in Node \ {x} :
          /\ hit'[n] <= clock /\ clock <= nextNeed'[n] /\ nextNeed'[n] <= clock + NeedSecs
          /\ \A m \in DOMAIN cache'[n] :
               EntryTimes(cache'[n][m], nextNeed'[n], hit'[n], clock)
    BY <1>3 DEF RInv, TimesOK
  <2>2. clock <= clock /\ clock <= clock + NeedSecs
    BY <1>2, MeshAssumption
  <2> QED
    BY <1>1, <1>3, <2>1, <2>2 DEF TimesOK
<1>6. ASSUME NEW n \in Node, NEW m \in Base, NEW i \in Indices(m)
      PROVE  Known(n, m, i)'
  <2>1. CASE n = x
    BY <1>1, <1>3, <1>5, <2>1, Settled
  <2>2. CASE n # x
    <3>1. Known(n, m, i) /\ hit'[n] = hit[n]
      BY <1>3, <2>2 DEF RInv, Repairable
    <3>2. \A r \in Node : Holds(r, m, i)' => r # x /\ Holds(r, m, i)
      BY <1>3 DEF Holds
    <3>3. /\ Holds(n, m, i)' = Holds(n, m, i)
          /\ Lacks(n, m, i)' = Lacks(n, m, i)
      BY <1>3, <2>2 DEF Holds, Lacks
    <3>4. /\ Flying(m, i)' => Flying(m, i)
          /\ FlyingTo(n, m, i) => FlyingTo(n, m, i)'
      BY <1>1, <2>2 DEF Flying, FlyingTo
    <3>5. \A r \in Node \ {x} : /\ QueuedAt(r, m, i)' = QueuedAt(r, m, i)
                                /\ Asking(n, r, m, i) => Asking(n, r, m, i)'
      BY <1>1, <1>3, <2>2 DEF QueuedAt, Asking
    <3>6. \A r \in Node \ {x} : UnderWay(n, r, m, i) => UnderWay(n, r, m, i)'
      BY <3>4, <3>5 DEF UnderWay
    <3>7. cache'[n] = cache[n]
      BY <1>3, <2>2
    <3> QED
      BY <1>1, <3>1, <3>2, <3>3, <3>4, <3>6, <3>7, Undisturbed
  <2> QED
    BY <2>1, <2>2
<1> QED
  BY <1>4, <1>5, <1>6 DEF Repairable

-----------------------------------------------------------------------------
(* The regulator *)

LEMMA RegSendRepairs ==
  ASSUME RInv, IInv', NEW s \in Node, RegSend(s)
  PROVE  SentByHolders' /\ TimesOK' /\ Repairable'
<1>1. PICK e \in queue[s] :
        /\ queue' = [queue EXCEPT ![s] = @ \ {e}]
        /\ air' = air \cup {[from |-> s, to |-> r, frame |-> e.frame] : r \in Node \ {s}}
  BY DEF RegSend, Pop
<1>2. UNCHANGED <<cache, clock, nextNeed, hit>>
  BY DEF RegSend, timers
<1>3. /\ DOMAIN queue = Node /\ e.frame.kind \in Kinds
      /\ e.frame.kind = "Fragment" => Holds(s, e.frame.frag.msgid, e.frame.frag.fragndx)
  BY DEF RInv, IInv, SentByHolders
<1>4. /\ \A r \in Node : queue'[r] \subseteq queue[r]
      /\ \A r \in Node : \A x \in queue[r] : x \in queue'[r] \/ (r = s /\ x = e)
      /\ air \subseteq air'
      /\ \A c \in air' : c \in air \/ (c.from = s /\ c.to \in Node \ {s} /\ c.frame = e.frame)
  BY <1>1, <1>3
<1>5. \A r \in Node \ {s} : \E c \in air' : c.from = s /\ c.to = r /\ c.frame = e.frame
  <2> SUFFICES ASSUME NEW r \in Node \ {s}
               PROVE  \E c \in air' : c.from = s /\ c.to = r /\ c.frame = e.frame
    OBVIOUS
  <2> DEFINE c == [from |-> s, to |-> r, frame |-> e.frame]
  <2>1. c \in air' /\ c.from = s /\ c.to = r /\ c.frame = e.frame
    BY <1>1
  <2> QED
    BY <2>1
<1>6. SentByHolders'
  BY <1>2, <1>3, <1>4 DEF RInv, SentByHolders, Holds
<1>7. TimesOK'
  BY <1>2 DEF RInv, TimesOK
<1>8. ASSUME NEW n \in Node, NEW m \in Base, NEW i \in Indices(m)
      PROVE  Known(n, m, i)'
  <2>1. Known(n, m, i)
    BY DEF RInv, Repairable
  <2>2. \A r \in Node : /\ Holds(r, m, i)' = Holds(r, m, i)
                        /\ Lacks(r, m, i)' = Lacks(r, m, i)
    BY <1>2 DEF Holds, Lacks
  <2>3. CASE Carries(e.frame, m, i)
    <3>1. Holds(n, m, i)' \/ FlyingTo(n, m, i)'
      BY <1>3, <1>5, <2>2, <2>3 DEF Carries, FlyingTo
    <3> QED
      BY <1>7, <3>1, Settled
  <2>4. CASE ~Carries(e.frame, m, i)
    <3>1. /\ Flying(m, i)' => Flying(m, i)
          /\ FlyingTo(n, m, i) => FlyingTo(n, m, i)'
      BY <1>4, <2>4 DEF Flying, FlyingTo
    <3>2. \A r \in Node : QueuedAt(r, m, i) => QueuedAt(r, m, i)'
      BY <1>4, <2>4 DEF QueuedAt
    <3>3. \A r \in Node \ {n} : Asking(n, r, m, i) => Asking(n, r, m, i)'
      <4> SUFFICES ASSUME NEW r \in Node \ {n}, Asking(n, r, m, i)
                   PROVE  Asking(n, r, m, i)'
        OBVIOUS
      <4>1. CASE \E c \in air : c.from = n /\ c.to = r /\ AsksFor(c.frame, m, i)
        BY <1>4, <4>1 DEF Asking
      <4>2. CASE \E x \in queue[n] : AsksFor(x.frame, m, i)
        <5>1. PICK x \in queue[n] : AsksFor(x.frame, m, i)
          BY <4>2
        <5>2. CASE x \in queue'[n]
          BY <5>1, <5>2 DEF Asking
        <5>3. CASE n = s /\ x = e
          BY <1>5, <5>1, <5>3 DEF Asking
        <5> QED
          BY <1>4, <5>2, <5>3
      <4> QED
        BY <4>1, <4>2 DEF Asking
    <3>4. \A r \in Node \ {n} : UnderWay(n, r, m, i) => UnderWay(n, r, m, i)'
      BY <3>1, <3>2, <3>3 DEF UnderWay
    <3> QED
      BY <1>2, <2>1, <2>2, <3>1, <3>4, Undisturbed
  <2> QED
    BY <2>3, <2>4
<1> QED
  BY <1>6, <1>7, <1>8 DEF Repairable

LEMMA RegSendFailsRepairs ==
  ASSUME RInv, IInv', NEW s \in Node, RegSendFails(s)
  PROVE  SentByHolders' /\ TimesOK' /\ Repairable'
<1>1. PICK e \in queue[s] :
        queue' = [queue EXCEPT ![s] = @ \ {e}] /\ Hit(MissedBy(s, e.frame))
  BY DEF RegSendFails, Pop
<1>2. UNCHANGED <<cache, air, clock, nextNeed>>
  BY DEF RegSendFails, timers
<1>3. DOMAIN queue = Node /\ e.frame.kind \in Kinds
  BY DEF RInv, IInv, SentByHolders
<1>4. /\ \A r \in Node : queue'[r] \subseteq queue[r]
      /\ \A r \in Node : \A x \in queue[r] : x \in queue'[r] \/ (r = s /\ x = e)
  BY <1>1, <1>3
<1>5. /\ hit' = [n \in Node |-> hit'[n]]
      /\ \A n \in Node : hit'[n] = IF n \in MissedBy(s, e.frame) THEN clock ELSE hit[n]
  BY <1>1 DEF Hit
<1>6. SentByHolders'
  BY <1>2, <1>4 DEF RInv, SentByHolders, Holds
<1>7. TimesOK'
  BY <1>2, <1>5, KeepsTimes
<1>8. ASSUME NEW n \in Node, NEW m \in Base, NEW i \in Indices(m)
      PROVE  Known(n, m, i)'
  <2>1. CASE hit'[n] = clock
    BY <1>2, <1>7, <2>1, Settled
  <2>2. CASE hit'[n] # clock
    <3>1. hit'[n] = hit[n] /\ n \notin MissedBy(s, e.frame)
      BY <1>5, <2>2
    <3>2. (n = s /\ e.frame.kind = "Fragment") \/ (n # s /\ e.frame.kind = "Need")
      BY <1>3, <3>1 DEF MissedBy, Kinds
    <3>3. Known(n, m, i)
      BY DEF RInv, Repairable
    <3>4. \A r \in Node : /\ Holds(r, m, i)' = Holds(r, m, i)
                          /\ Lacks(r, m, i)' = Lacks(r, m, i)
                          /\ Flying(m, i)' = Flying(m, i)
                          /\ FlyingTo(n, m, i)' = FlyingTo(n, m, i)
      BY <1>2 DEF Holds, Lacks, Flying, FlyingTo
    <3>5. \A r \in Node \ {n} : QueuedAt(r, m, i) => QueuedAt(r, m, i)'
      BY <1>4, <3>2 DEF QueuedAt, Carries
    <3>6. \A r \in Node \ {n} : Asking(n, r, m, i) => Asking(n, r, m, i)'
      BY <1>2, <1>4, <3>2 DEF Asking, AsksFor
    <3>7. \A r \in Node \ {n} : UnderWay(n, r, m, i) => UnderWay(n, r, m, i)'
      BY <3>4, <3>5, <3>6 DEF UnderWay
    <3> QED
      BY <1>2, <3>1, <3>3, <3>4, <3>7, Undisturbed
  <2> QED
    BY <2>1, <2>2
<1> QED
  BY <1>6, <1>7, <1>8 DEF Repairable

-----------------------------------------------------------------------------
(* Submissions and requests *)

LEMMA HonestOf ==
  ASSUME NEW msgs, NEW frame, FrameOK(frame, msgs), frame.kind = "Fragment"
  PROVE  frame.frag.msgid \in msgs /\ frame.frag.fragndx \in Indices(frame.frag.msgid)
BY DEF FrameOK, HonestFrags, FragOf

\* A frame with the id of another carries, or asks for, the same.
LEMMA SameId ==
  ASSUME NEW f, NEW g, IdOf(f) = IdOf(g), f.kind \in Kinds, g.kind \in Kinds
  PROVE  /\ f.kind = g.kind
         /\ f.kind = "Need" => f.missing = g.missing
         /\ f.kind = "Fragment" =>
              f.frag.msgid = g.frag.msgid /\ f.frag.fragndx = g.frag.fragndx
<1>1. \A x, y, z : <<x, y>> # <<z>>
  OBVIOUS
<1>2. CASE f.kind = "Fragment" /\ g.kind = "Fragment"
  BY <1>2 DEF IdOf
<1>3. CASE f.kind = "Need" /\ g.kind = "Need"
  BY <1>3 DEF IdOf
<1>4. CASE f.kind = "Fragment" /\ g.kind = "Need"
  BY <1>1, <1>4 DEF IdOf
<1>5. CASE f.kind = "Need" /\ g.kind = "Fragment"
  BY <1>1, <1>5 DEF IdOf
<1> QED
  BY <1>2, <1>3, <1>4, <1>5 DEF Kinds

LEMMA SendFragmentsRepairs ==
  ASSUME RInv, IInv', NEW s \in Node, NEW b \in Base, SendFragments(s, b)
  PROVE  SentByHolders' /\ TimesOK' /\ Repairable'
<1> DEFINE frames == {Fragment(FragOf(b, i, 0)) : i \in 0 .. NumFrag[b] - 1}
           c == AddOwn(cache[s], b, clock)
           p == Found(cache[s], b, FALSE, clock)
<1>1. /\ cache' = [cache EXCEPT ![s] = c]
      /\ Enqueue(s, PriorityOf[b], frames)
      /\ UNCHANGED <<air, clock, nextNeed>>
  BY DEF SendFragments, timers
<1>2. /\ clock \in Nat /\ DOMAIN cache = Node /\ DOMAIN queue = Node /\ CacheOK(cache[s])
  BY DEF RInv, IInv, NodeOK
<1>3. Owned(cache[s], c, b, clock)
  BY <1>2, AddOwnOK
<1>4. /\ \A i \in Indices(b) : Fragment(FragOf(b, i, 0)) \in frames
      /\ \A f \in frames : f.kind = "Fragment" /\ f.frag.msgid = b
      /\ \A i : Carries(Fragment(FragOf(b, i, 0)), b, i)
  BY DEF Fragment, FragOf, Indices, Carries
<1>5. /\ b \in DOMAIN cache[s] => p = cache[s][b]
      /\ b \notin DOMAIN cache[s] => p.created = clock /\ p.lasttry = clock
  BY <1>2, NewPartialOK DEF Found
<1> HIDE DEF p, c, frames
<1>6. /\ cache'[s] = c /\ DOMAIN queue' = Node
      /\ \A r \in Node \ {s} : cache'[r] = cache[r] /\ queue'[r] = queue[r]
      /\ queue[s] \subseteq queue'[s]
      /\ \A e \in queue'[s] : e \in queue[s] \/ e.frame \in frames
      /\ \A f \in frames : \/ \E e \in queue'[s] : IdOf(e.frame) = IdOf(f)
                           \/ \A r \in MissedBy(s, f) : hit'[r] = clock
      /\ hit' = [r \in Node |-> hit'[r]]
      /\ \A r \in Node : hit'[r] = hit[r] \/ hit'[r] = clock
  BY <1>1, <1>2, Enqueued
<1>7. /\ DOMAIN c = DOMAIN cache[s] \cup {b}
      /\ \A m \in DOMAIN cache[s] \ {b} : c[m] = cache[s][m]
      /\ Missing(c[b]) = {} /\ c[b].created = p.created /\ c[b].lasttry = p.lasttry
  BY <1>3 DEF Owned, p
<1>8. /\ \A i : Holds(s, b, i)'
      /\ \A r \in Node : \A m, i : Holds(r, m, i) => Holds(r, m, i)'
      /\ \A r \in Node : \A m, i :
           Holds(r, m, i)' => Holds(r, m, i) \/ (r = s /\ m = b)
  BY <1>6, <1>7 DEF Holds
<1>9. SentByHolders'
  <2>1. ASSUME NEW n \in Node, NEW e \in queue'[n]
        PROVE  /\ e.frame.kind \in Kinds
               /\ e.frame.kind = "Fragment" =>
                    Holds(n, e.frame.frag.msgid, e.frame.frag.fragndx)'
    <3>1. CASE e \in queue[n]
      BY <1>8, <3>1 DEF RInv, SentByHolders
    <3>2. CASE n = s /\ e.frame \in frames
      BY <1>4, <1>8, <3>2 DEF Kinds
    <3> QED
      BY <1>6, <3>1, <3>2
  <2> QED
    BY <1>1, <2>1 DEF RInv, SentByHolders
<1>10. \A n \in Node : \A m \in DOMAIN cache'[n] :
         \/ /\ m \in DOMAIN cache[n]
            /\ cache'[n][m].created = cache[n][m].created
            /\ cache'[n][m].lasttry = cache[n][m].lasttry
            /\ Missing(cache'[n][m]) \subseteq Missing(cache[n][m])
         \/ cache'[n][m].created = clock /\ cache'[n][m].lasttry = clock
  BY <1>5, <1>6, <1>7
<1>11. TimesOK'
  BY <1>1, <1>6, <1>10, KeepsTimes
<1>12. ASSUME NEW n \in Node, NEW m \in Base, NEW i \in Indices(m)
       PROVE  Known(n, m, i)'
  <2>1. CASE hit'[n] = clock \/ Holds(n, m, i)'
    BY <1>1, <1>11, <2>1, Settled
  <2>2. CASE hit'[n] # clock /\ ~Holds(n, m, i)'
    <3>1. hit'[n] = hit[n] /\ Known(n, m, i)
      BY <1>6, <2>2 DEF RInv, Repairable
    <3>2. /\ Flying(m, i)' = Flying(m, i)
          /\ FlyingTo(n, m, i)' = FlyingTo(n, m, i)
      BY <1>1 DEF Flying, FlyingTo
    <3>3. \A r \in Node : /\ QueuedAt(r, m, i) => QueuedAt(r, m, i)'
                          /\ Asking(n, r, m, i) => Asking(n, r, m, i)'
      BY <1>1, <1>6 DEF QueuedAt, Asking
    <3>4. ASSUME NEW r \in Node \ {n}, Holds(r, m, i)', ~Holds(r, m, i)
          PROVE  QueuedAt(r, m, i)'
      <4> DEFINE f == Fragment(FragOf(b, i, 0))
      <4>1. r = s /\ m = b
        BY <1>8, <3>4
      <4>2. f \in frames /\ Carries(f, m, i)
        BY <1>4, <4>1
      <4> HIDE DEF f
      <4>3. n \in MissedBy(s, f)
        BY <4>1, <4>2 DEF MissedBy, Carries
      <4>4. PICK e \in queue'[s] : IdOf(e.frame) = IdOf(f)
        BY <1>6, <2>2, <4>2, <4>3
      <4>5. e.frame.kind \in Kinds /\ f.kind \in Kinds
        BY <1>9, <4>2 DEF SentByHolders, Carries, Kinds
      <4>6. Carries(e.frame, m, i)
        BY <4>2, <4>4, <4>5, SameId DEF Carries
      <4> QED
        BY <4>1, <4>6 DEF QueuedAt
    <3>5. \A r \in Node \ {n} : Holds(r, m, i)' =>
            UnderWay(n, r, m, i)' \/ (Holds(r, m, i) /\ ~UnderWay(n, r, m, i))
      BY <3>2, <3>3, <3>4 DEF UnderWay
    <3>6. Lacks(n, m, i)' =>
            \/ /\ Lacks(n, m, i)
               /\ cache'[n][m].created = cache[n][m].created
               /\ cache'[n][m].lasttry = cache[n][m].lasttry
            \/ ~(cache'[n][m].lasttry > cache'[n][m].created)
      BY <1>2, <1>10 DEF Lacks
    <3> QED
      BY <1>1, <1>8, <3>1, <3>2, <3>5, <3>6, Undisturbed
  <2> QED
    BY <2>1, <2>2
<1> QED
  BY <1>9, <1>11, <1>12 DEF Repairable

LEMMA AskedFor ==
  ASSUME NEW c, NEW now, NEW m \in ToRequest(c, now), NEW i \in Missing(c[m])
  PROVE  Requests(c, now) # {} /\ i \in Asked(Requests(c, now), m)
<1> DEFINE x == [msgid |-> m, fragndx |-> Missing(c[m])]
<1>1. x \in Requests(c, now) /\ x.msgid = m /\ x.fragndx = Missing(c[m])
  BY DEF Requests
<1> HIDE DEF x
<1> QED
  BY <1>1 DEF Asked

\* A tick of the need timer in the window of an entry asks for it, unless it was
\* asked for at most Overdue ago: then this tick is not the last in the window.
LEMMA TickedTimes ==
  ASSUME NEW p, NEW q, NEW now \in Nat, NEW fault \in Nat, NEW later,
         p.created \in Nat, p.lasttry \in Nat, later = fault \/ later = now, fault <= now,
         EntryTimes(p, now, fault, now),
         q.created = p.created, Missing(q) = Missing(p),
         \/ q.lasttry = now /\ p.created < now
         \/ q.lasttry = p.lasttry /\ ~(/\ ~Expired(p, now) /\ IsOverdue(p, now)
                                       /\ Missing(p) # {})
  PROVE  EntryTimes(q, now + NeedSecs, later, now)
<1>1. /\ NeedSecs \in Nat \ {0} /\ MaxAge \in Nat /\ Overdue \in Nat \ {0}
      /\ Overdue <= NeedSecs /\ Overdue + NeedSecs <= MaxAge
  BY FragCacheAssumption, MeshAssumption, WindowAssumption
<1>2. CASE q.lasttry = now /\ p.created < now
  <2>1. q.created <= q.lasttry /\ q.lasttry <= now /\ q.lasttry + NeedSecs <= now + NeedSecs
    BY <1>1, <1>2
  <2>2. q.lasttry # q.created
    BY <1>2
  <2>3. q.lasttry <= later => later = now
    BY <1>2
  <2> QED
    BY <1>1, <2>1, <2>2, <2>3 DEF EntryTimes
<1>3. CASE q.lasttry = p.lasttry /\ ~(~Expired(p, now) /\ IsOverdue(p, now) /\ Missing(p) # {})
  <2>1. q.created <= q.lasttry /\ q.lasttry <= now
    BY <1>3 DEF EntryTimes
  <2>2. q.lasttry = q.created \/ q.lasttry + NeedSecs <= now + NeedSecs
    BY <1>1, <1>3 DEF EntryTimes
  <2>3. ASSUME Missing(p) # {}, p.lasttry = p.created \/ p.lasttry <= later,
               later + NeedSecs < p.created + MaxAge
        PROVE  now + NeedSecs < p.created + MaxAge
    <3>1. CASE later = now
      BY <2>3, <3>1
    <3>2. CASE later = fault
      <4>1. now < p.created + MaxAge
        BY <2>3, <3>2 DEF EntryTimes
      <4>2. now < p.lasttry + Overdue
        BY <1>1, <1>3, <2>3, <4>1 DEF Expired, IsOverdue
      <4>3. p.lasttry = p.created
        BY <1>1, <4>2 DEF EntryTimes
      <4> QED
        BY <1>1, <4>2, <4>3
    <3> QED
      BY <3>1, <3>2
  <2> QED
    BY <1>3, <2>1, <2>2, <2>3 DEF EntryTimes
<1> QED
  BY <1>2, <1>3

\* A round of requests reaches every node that holds what is missing.
LEMMA SendFragmentRetriesRepairs ==
  ASSUME RInv, IInv', NEW s \in Node, SendFragmentRetries(s)
  PROVE  SentByHolders' /\ TimesOK' /\ Repairable'
<1> DEFINE c == Requested(cache[s], clock)
           missing == Requests(cache[s], clock)
           frames == IF missing = {} THEN {} ELSE {Need(missing)}
<1>1. /\ clock = nextNeed[s]
      /\ nextNeed' = [nextNeed EXCEPT ![s] = @ + NeedSecs]
      /\ cache' = [cache EXCEPT ![s] = c]
      /\ Enqueue(s, "High", frames)
      /\ UNCHANGED <<air, clock>>
  BY DEF SendFragmentRetries
<1>2. /\ clock \in Nat /\ DOMAIN cache = Node /\ DOMAIN queue = Node
      /\ nextNeed \in [Node -> Nat] /\ hit \in [Node -> Nat]
      /\ \A n \in Node : CacheOK(cache[n]) /\ hit[n] <= clock
  BY DEF RInv, IInv, NodeOK, TimesOK
<1>3. /\ DOMAIN c = DOMAIN cache[s]
      /\ \A m \in DOMAIN cache[s] :
           /\ c[m].created = cache[s][m].created
           /\ c[m].frags = cache[s][m].frags
           /\ c[m].lasttry = IF m \in ToRequest(cache[s], clock) THEN clock
                             ELSE cache[s][m].lasttry
  <2>1. CacheOK(cache[s]) /\ clock \in Nat
    BY <1>2
  <2> QED
    BY <2>1, RequestedOK
<1>4. /\ \A f \in frames : f.kind = "Need"
      /\ missing # {} => Need(missing) \in frames
  BY DEF Need
<1> HIDE DEF c, frames, missing
<1>5. /\ cache'[s] = c /\ nextNeed'[s] = clock + NeedSecs /\ DOMAIN queue' = Node
      /\ queue[s] \subseteq queue'[s]
      /\ \A e \in queue'[s] : e \in queue[s] \/ e.frame \in frames
      /\ \A f \in frames : \/ \E e \in queue'[s] : IdOf(e.frame) = IdOf(f)
                           \/ \A r \in MissedBy(s, f) : hit'[r] = clock
      /\ \A r \in Node \ {s} : /\ cache'[r] = cache[r] /\ queue'[r] = queue[r]
                               /\ nextNeed'[r] = nextNeed[r]
      /\ hit' = [r \in Node |-> hit'[r]]
      /\ \A r \in Node : hit'[r] = hit[r] \/ hit'[r] = clock
  BY <1>1, <1>2, Enqueued
<1>6. \A r \in Node : /\ DOMAIN cache'[r] = DOMAIN cache[r]
                      /\ \A m \in DOMAIN cache[r] :
                           /\ Missing(cache'[r][m]) = Missing(cache[r][m])
                           /\ cache'[r][m].created = cache[r][m].created
  BY <1>3, <1>5 DEF Missing
<1>7. \A r \in Node : \A m, i : /\ Holds(r, m, i)' = Holds(r, m, i)
                                /\ Lacks(r, m, i)' = Lacks(r, m, i)
  BY <1>6 DEF Holds, Lacks
<1>8. SentByHolders'
  <2>1. \A r \in Node : \A e \in queue'[r] : e \in queue[r] \/ e.frame.kind = "Need"
    BY <1>4, <1>5
  <2> QED
    BY <1>1, <1>7, <2>1 DEF RInv, SentByHolders, Kinds
<1>9. TimesOK'
  <2>1. ASSUME NEW m \in DOMAIN cache[s]
        PROVE  EntryTimes(c[m], clock + NeedSecs, hit'[s], clock)
    <3> DEFINE p == cache[s][m]
    <3>1. EntryTimes(p, clock, hit[s], clock)
      BY <1>1 DEF RInv, TimesOK
    <3>2. p.created \in Nat /\ p.lasttry \in Nat
      BY <1>2, EntryTypes
    <3>3. c[m].created = p.created /\ Missing(c[m]) = Missing(p)
      BY <1>3 DEF Missing
    <3>4. m \in ToRequest(cache[s], clock) <=>
            ~Expired(p, clock) /\ IsOverdue(p, clock) /\ Missing(p) # {}
      BY DEF ToRequest
    <3>5. m \in ToRequest(cache[s], clock) => p.created < clock
      <4>1. Overdue \in Nat \ {0} /\ p.created <= p.lasttry
        BY <3>1, FragCacheAssumption DEF EntryTimes
      <4> QED
        BY <1>2, <3>2, <3>4, <4>1 DEF IsOverdue
    <3>6. \/ c[m].lasttry = clock /\ p.created < clock
          \/ c[m].lasttry = p.lasttry /\ m \notin ToRequest(cache[s], clock)
      BY <1>3, <3>5
    <3>7. hit[s] \in Nat /\ hit[s] <= clock /\ (hit'[s] = hit[s] \/ hit'[s] = clock)
      BY <1>2, <1>5
    <3> HIDE DEF p
    <3> QED
      BY <1>2, <3>1, <3>2, <3>3, <3>4, <3>6, <3>7, TickedTimes
  <2>2. ASSUME NEW n \in Node \ {s}, NEW m \in DOMAIN cache[n]
        PROVE  EntryTimes(cache[n][m], nextNeed[n], hit'[n], clock)
    <3>1. /\ EntryTimes(cache[n][m], nextNeed[n], hit[n], clock)
          /\ nextNeed[n] \in Nat /\ nextNeed[n] <= clock + NeedSecs
          /\ hit[n] \in Nat /\ (hit'[n] = hit[n] \/ hit'[n] = clock)
      BY <1>2, <1>5 DEF RInv, TimesOK
    <3>2. cache[n][m].created \in Nat /\ cache[n][m].lasttry \in Nat
      BY <1>2, EntryTypes
    <3> QED
      BY <1>2, <3>1, <3>2, SameTimes
  <2>3. ASSUME NEW n \in Node
        PROVE  /\ nextNeed'[n] \in Nat /\ hit'[n] \in Nat /\ hit'[n] <= clock
               /\ clock <= nextNeed'[n] /\ nextNeed'[n] <= clock + NeedSecs
    <3>1. clock <= nextNeed[n] /\ nextNeed[n] <= clock + NeedSecs /\ NeedSecs \in Nat
      BY MeshAssumption DEF RInv, TimesOK
    <3>2. hit'[n] \in Nat /\ hit'[n] <= clock
      BY <1>2, <1>5
    <3> QED
      BY <1>2, <1>5, <3>1, <3>2
  <2>4. \A n \in Node : \A m \in DOMAIN cache'[n] :
          EntryTimes(cache'[n][m], nextNeed'[n], hit'[n], clock)
    BY <1>3, <1>5, <2>1, <2>2
  <2>5. nextNeed' \in [Node -> Nat] /\ hit' \in [Node -> Nat]
    <3>1. nextNeed' = [n \in Node |-> nextNeed'[n]]
      BY <1>1, <1>2
    <3> QED
      BY <1>5, <2>3, <3>1
  <2> QED
    BY <1>1, <2>3, <2>4, <2>5 DEF TimesOK
<1>10. ASSUME NEW n \in Node, NEW m \in Base, NEW i \in Indices(m)
       PROVE  Known(n, m, i)'
  <2>1. CASE hit'[n] = clock
    BY <1>1, <1>9, <2>1, Settled
  <2>2. CASE hit'[n] # clock
    <3>1. hit'[n] = hit[n] /\ Known(n, m, i)
      BY <1>5, <2>2 DEF RInv, Repairable
    <3>2. /\ Flying(m, i)' = Flying(m, i)
          /\ FlyingTo(n, m, i)' = FlyingTo(n, m, i)
      BY <1>1 DEF Flying, FlyingTo
    <3>3. \A r \in Node : /\ QueuedAt(r, m, i) => QueuedAt(r, m, i)'
                          /\ Asking(n, r, m, i) => Asking(n, r, m, i)'
      BY <1>1, <1>5 DEF QueuedAt, Asking
    <3>4. \A r \in Node : UnderWay(n, r, m, i) => UnderWay(n, r, m, i)'
      BY <3>2, <3>3 DEF UnderWay
    <3>5. CASE n = s /\ m \in ToRequest(cache[s], clock) /\ Lacks(n, m, i)
      <4>1. missing # {} /\ i \in Asked(missing, m)
        BY <3>5, AskedFor DEF Lacks, missing
      <4> DEFINE f == Need(missing)
      <4>2. f \in frames /\ f.kind = "Need" /\ f.missing = missing
        BY <1>4, <4>1 DEF Need
      <4> HIDE DEF f
      <4>3. s \in MissedBy(s, f)
        BY <4>2 DEF MissedBy
      <4>4. PICK e \in queue'[s] : IdOf(e.frame) = IdOf(f)
        BY <1>5, <2>2, <3>5, <4>2, <4>3
      <4>5. e.frame.kind \in Kinds /\ f.kind \in Kinds
        BY <1>8, <4>2 DEF SentByHolders, Kinds
      <4>6. AsksFor(e.frame, m, i)
        BY <4>1, <4>2, <4>4, <4>5, SameId DEF AsksFor
      <4>7. \A r \in Node : UnderWay(n, r, m, i)'
        BY <3>5, <4>6 DEF UnderWay, Asking
      <4> QED
        BY <3>1, <3>2, <1>1, <1>7, <4>7 DEF Known, Heard, Covered
    <3>6. CASE ~(n = s /\ m \in ToRequest(cache[s], clock) /\ Lacks(n, m, i))
      <4>1. Lacks(n, m, i)' =>
              /\ Lacks(n, m, i)
              /\ cache'[n][m].created = cache[n][m].created
              /\ cache'[n][m].lasttry = cache[n][m].lasttry
        BY <1>3, <1>5, <1>6, <1>7, <3>6 DEF Lacks
      <4> QED
        BY <1>1, <1>7, <3>1, <3>2, <3>4, <4>1, Undisturbed
    <3> QED
      BY <3>5, <3>6
  <2> QED
    BY <2>1, <2>2
<1> QED
  BY <1>8, <1>9, <1>10 DEF Repairable

-----------------------------------------------------------------------------
(* What is heard *)

LEMMA HandleFragmentRepairs ==
  ASSUME RInv, IInv', NEW copy \in air, copy.frame.kind = "Fragment", Receive(copy)
  PROVE  SentByHolders' /\ TimesOK' /\ Repairable'
<1> DEFINE t == copy.to
           b == copy.frame.frag.msgid
           j == copy.frame.frag.fragndx
           c == AddFragment(cache[t], copy.frame.frag, TRUE, clock)
           p == Found(cache[t], b, TRUE, clock)
<1>1. /\ queue' = [queue EXCEPT ![t] = Cancel(@, copy.frame)]
      /\ cache' = [cache EXCEPT ![t] = c]
      /\ air' = air \ {copy}
      /\ UNCHANGED <<clock, nextNeed, hit>>
  BY DEF Receive, HandleFragment, timers
<1>2. /\ t \in Node /\ clock \in Nat /\ DOMAIN cache = Node /\ DOMAIN queue = Node
      /\ submitted \subseteq Base /\ CacheOK(cache[t])
      /\ copy.frame.frag \in HonestFrags(submitted)
      /\ hit = [n \in Node |-> hit[n]]
  BY DEF RInv, IInv, NodeOK, FrameOK, TimesOK
<1>3. /\ b \in Base /\ j \in Indices(b) /\ Carries(copy.frame, b, j)
      /\ \E k \in Rot : copy.frame.frag = FragOf(b, j, k)
  <2>1. PICK m \in submitted : \E i \in Indices(m), k \in Rot : copy.frame.frag = FragOf(m, i, k)
    BY <1>2 DEF HonestFrags
  <2>2. PICK i \in Indices(m), k \in Rot : copy.frame.frag = FragOf(m, i, k)
    BY <2>1
  <2>3. b = m /\ j = i
    BY <2>2 DEF FragOf
  <2> QED
    BY <1>2, <2>2, <2>3 DEF Carries
<1>4. /\ CacheOK(c) /\ DOMAIN c = DOMAIN cache[t] \cup {b}
      /\ \A m \in DOMAIN cache[t] \ {b} : c[m] = cache[t][m]
      /\ Missing(c[b]) = Missing(p) \ {j}
      /\ c[b].created = p.created /\ c[b].lasttry = p.lasttry
  <2>1. j \in Nat
    BY <1>3, IndicesType
  <2>2. PICK k \in Rot : copy.frame.frag = FragOf(b, j, k)
    BY <1>3
  <2> DEFINE f == FragOf(b, j, k)
  <2> HIDE DEF t, b, j
  <2>3. AddedTo(cache[t], AddFragment(cache[t], f, TRUE, clock),
                Assembled(cache[t], f, TRUE, clock), b, j, TRUE, clock)
    BY <1>2, <1>3, <2>1, AddFragmentOK
  <2>4. c = AddFragment(cache[t], f, TRUE, clock)
    BY <2>2
  <2> HIDE DEF c, f
  <2> QED
    BY <2>3, <2>4 DEF AddedTo
<1>5. /\ b \in DOMAIN cache[t] => p = cache[t][b]
      /\ b \notin DOMAIN cache[t] =>
           p.created = clock /\ p.lasttry = clock /\ Missing(p) = Indices(b)
  BY <1>2, <1>3, NewPartialOK DEF Found
<1> HIDE DEF p, c
<1>6. /\ cache'[t] = c /\ queue'[t] = Cancel(queue[t], copy.frame)
      /\ \A r \in Node \ {t} : cache'[r] = cache[r] /\ queue'[r] = queue[r]
  BY <1>1, <1>2
<1> HIDE DEF t, b, j
<1>7. /\ Holds(t, b, j)'
      /\ \A r \in Node : \A m, i : Holds(r, m, i) => Holds(r, m, i)'
      /\ \A r \in Node : \A m \in Base : \A i \in Indices(m) :
           Holds(r, m, i)' => Holds(r, m, i) \/ (m = b /\ i = j)
  BY <1>2, <1>4, <1>5, <1>6 DEF Holds
<1>8. \A r \in Node : queue'[r] \subseteq queue[r]
  BY <1>2, <1>6 DEF Cancel
<1>9. SentByHolders'
  BY <1>1, <1>7, <1>8 DEF RInv, SentByHolders
<1>10. \A n \in Node : \A m \in DOMAIN cache'[n] :
         \/ /\ m \in DOMAIN cache[n]
            /\ cache'[n][m].created = cache[n][m].created
            /\ cache'[n][m].lasttry = cache[n][m].lasttry
            /\ Missing(cache'[n][m]) \subseteq Missing(cache[n][m])
         \/ cache'[n][m].created = clock /\ cache'[n][m].lasttry = clock
  <2> SUFFICES ASSUME NEW n \in Node, NEW m \in DOMAIN cache'[n]
               PROVE  \/ /\ m \in DOMAIN cache[n]
                         /\ cache'[n][m].created = cache[n][m].created
                         /\ cache'[n][m].lasttry = cache[n][m].lasttry
                         /\ Missing(cache'[n][m]) \subseteq Missing(cache[n][m])
                      \/ cache'[n][m].created = clock /\ cache'[n][m].lasttry = clock
    OBVIOUS
  <2>1. CASE n # t \/ m # b
    <3>1. m \in DOMAIN cache[n] /\ cache'[n][m] = cache[n][m]
      BY <1>4, <1>6, <2>1
    <3> QED
      BY <3>1
  <2>2. CASE n = t /\ m = b
    BY <1>4, <1>5, <1>6, <2>2
  <2> QED
    BY <2>1, <2>2
<1>11. TimesOK'
  BY <1>1, <1>2, <1>10, KeepsTimes
<1>12. ASSUME NEW n \in Node, NEW m \in Base, NEW i \in Indices(m)
       PROVE  Known(n, m, i)'
  <2>1. CASE hit[n] = clock \/ Holds(n, m, i)' \/ FlyingTo(n, m, i)'
    BY <1>1, <1>11, <2>1, Settled
  <2>2. CASE ~(hit[n] = clock \/ Holds(n, m, i)' \/ FlyingTo(n, m, i)')
    <3>1. Known(n, m, i)
      BY DEF RInv, Repairable
    <3>2. hit[n] < clock
      BY <1>2, <2>2 DEF RInv, TimesOK
    <3>3. ASSUME m = b, i = j
          PROVE  FALSE
      <4>1. Flying(m, i)
        BY <1>3, <3>3 DEF Flying, b, j
      <4>2. FlyingTo(n, m, i) /\ n # t
        BY <1>7, <2>2, <3>1, <3>2, <3>3, <4>1 DEF Known, Heard
      <4>3. FlyingTo(n, m, i)'
        BY <1>1, <4>2 DEF FlyingTo, t
      <4> QED
        BY <2>2, <4>3
    <3>4. ~Carries(copy.frame, m, i)
      BY <3>3 DEF Carries, b, j
    <3>5. /\ Flying(m, i)' => Flying(m, i)
          /\ FlyingTo(n, m, i) => FlyingTo(n, m, i)'
      BY <1>1, <3>4 DEF Flying, FlyingTo
    <3>6. \A r \in Node : \A e \in queue[r] :
            Carries(e.frame, m, i) \/ AsksFor(e.frame, m, i) => e \in queue'[r]
      <4> SUFFICES ASSUME NEW r \in Node, NEW e \in queue[r],
                          Carries(e.frame, m, i) \/ AsksFor(e.frame, m, i),
                          IdOf(e.frame) = IdOf(copy.frame)
                   PROVE  FALSE
        BY <1>2, <1>6 DEF Cancel
      <4>1. e.frame.kind \in Kinds /\ copy.frame.kind \in Kinds
        BY DEF RInv, SentByHolders
      <4> QED
        BY <3>4, <4>1, SameId DEF Carries, AsksFor
    <3>7. \A r \in Node : /\ QueuedAt(r, m, i) => QueuedAt(r, m, i)'
                          /\ Asking(n, r, m, i) => Asking(n, r, m, i)'
      BY <1>1, <3>6 DEF QueuedAt, Asking, AsksFor
    <3>8. \A r \in Node : UnderWay(n, r, m, i) => UnderWay(n, r, m, i)'
      BY <3>5, <3>7 DEF UnderWay
    <3>9. \A r \in Node : Holds(r, m, i)' => Holds(r, m, i)
      BY <1>7, <3>3
    <3>10. Lacks(n, m, i)' =>
             \/ /\ Lacks(n, m, i)
                /\ cache'[n][m].created = cache[n][m].created
                /\ cache'[n][m].lasttry = cache[n][m].lasttry
             \/ ~(cache'[n][m].lasttry > cache'[n][m].created)
      BY <1>2, <1>10 DEF Lacks
    <3>11. hit'[n] = hit[n] /\ clock' = clock
      BY <1>1
    <3> QED
      BY <1>7, <3>1, <3>5, <3>8, <3>9, <3>10, <3>11, Undisturbed
  <2> QED
    BY <2>1, <2>2
<1> QED
  BY <1>9, <1>11, <1>12 DEF Repairable

\* Who is asked answers with what it holds, and with nothing else.
LEMMA AnswersWhatIsHeld ==
  ASSUME NEW c, CacheOK(c), NEW missing
  PROVE  /\ \A frame \in Answers(c, missing) :
              /\ frame.kind = "Fragment"
              /\ frame.frag.msgid \in DOMAIN c
              /\ frame.frag.fragndx \notin Missing(c[frame.frag.msgid])
         /\ \A m \in DOMAIN c : \A i \in Indices(m) :
              i \in Asked(missing, m) /\ i \notin Missing(c[m]) =>
                \E frame \in Answers(c, missing) : Carries(frame, m, i)
<1>1. ASSUME NEW frame \in Answers(c, missing)
      PROVE  /\ frame.kind = "Fragment"
             /\ frame.frag.msgid \in DOMAIN c
             /\ frame.frag.fragndx \notin Missing(c[frame.frag.msgid])
  <2>1. PICK m \in DOMAIN c : \E f \in Resends(c, m, Asked(missing, m)) : frame = Fragment(f)
    BY DEF Answers
  <2>2. PICK f \in Resends(c, m, Asked(missing, m)) : frame = Fragment(f)
    BY <2>1
  <2>3. PICK i \in Available(c, m, Asked(missing, m)) : f = Resend(c, m, i)
    BY DEF Resends
  <2>4. frame.kind = "Fragment" /\ frame.frag.msgid = m /\ frame.frag.fragndx = i
    BY <2>2, <2>3 DEF Resend, Fragment
  <2> QED
    BY <2>4 DEF Available, Missing
<1>2. ASSUME NEW m \in DOMAIN c, NEW i \in Indices(m),
             i \in Asked(missing, m), i \notin Missing(c[m])
      PROVE  \E frame \in Answers(c, missing) : Carries(frame, m, i)
  <2> DEFINE asked == Asked(missing, m)
  <2>1. DOMAIN c[m].frags = Indices(m)
    BY DEF CacheOK, PartialOK
  <2>2. i \in Available(c, m, asked)
    BY <1>2, <2>1 DEF Available, Missing
  <2> HIDE DEF asked
  <2>3. Resend(c, m, i) \in Resends(c, m, asked)
    BY <2>2 DEF Resends
  <2>4. Fragment(Resend(c, m, i)) \in Answers(c, missing)
    BY <2>3 DEF Answers, asked
  <2>5. Carries(Fragment(Resend(c, m, i)), m, i)
    BY DEF Fragment, Resend, Carries
  <2> QED
    BY <2>4, <2>5
<1> QED
  BY <1>1, <1>2

\* An answer changes nothing of the cache that repair looks at; what was asked for
\* is queued, or its refusal is a fault to the node that asks.
LEMMA HandleNeedRepairs ==
  ASSUME RInv, IInv', NEW copy \in air, copy.frame.kind = "Need", Receive(copy)
  PROVE  SentByHolders' /\ TimesOK' /\ Repairable'
<1> DEFINE t == copy.to
           missing == copy.frame.missing
           old == cache[t]
           frames == Answers(old, missing)
           c == [m \in DOMAIN old |-> Fulfilled(old, m, Asked(missing, m))[m]]
<1>1. /\ cache' = [cache EXCEPT ![t] = c]
      /\ Enqueue(t, "High", frames)
      /\ air' = air \ {copy}
      /\ UNCHANGED <<clock, nextNeed>>
  BY DEF Receive, HandleNeed, timers
<1>2. /\ t \in Node /\ clock \in Nat /\ DOMAIN cache = Node /\ DOMAIN queue = Node
      /\ CacheOK(old)
  BY DEF RInv, IInv, NodeOK
<1>3. DOMAIN c = DOMAIN old
  OBVIOUS
<1>4. ASSUME NEW m \in DOMAIN old
      PROVE  /\ c[m].created = old[m].created /\ c[m].lasttry = old[m].lasttry
             /\ Missing(c[m]) = Missing(old[m])
  <2> DEFINE d == Fulfilled(old, m, Asked(missing, m))
  <2>1. m \in Base
    BY <1>2, <1>4 DEF CacheOK
  <2>2. /\ d[m].created = old[m].created /\ d[m].lasttry = old[m].lasttry
        /\ Missing(d[m]) = Missing(old[m])
    BY <1>2, <1>4, <2>1, FulfilledOK
  <2>3. c[m] = d[m]
    OBVIOUS
  <2> HIDE DEF c, d
  <2> QED
    BY <2>2, <2>3
<1> HIDE DEF c
<1>5. /\ \A frame \in frames :
           frame.kind = "Fragment" /\ Holds(t, frame.frag.msgid, frame.frag.fragndx)
      /\ \A m \in Base : \A i \in Indices(m) :
           i \in Asked(missing, m) /\ Holds(t, m, i) =>
             \E frame \in frames : Carries(frame, m, i)
  BY <1>2, AnswersWhatIsHeld DEF Holds
<1> HIDE DEF missing, old, t, frames
<1>6. /\ cache'[t] = c
      /\ \A r \in Node \ {t} : cache'[r] = cache[r] /\ queue'[r] = queue[r]
      /\ queue[t] \subseteq queue'[t]
      /\ \A e \in queue'[t] : e \in queue[t] \/ e.frame \in frames
      /\ \A f \in frames :
           \/ \E e \in queue'[t] : IdOf(e.frame) = IdOf(f)
           \/ \A r \in MissedBy(t, f) : hit'[r] = clock
      /\ hit' = [r \in Node |-> hit'[r]]
      /\ \A r \in Node : hit'[r] = hit[r] \/ hit'[r] = clock
  BY <1>1, <1>2, Enqueued
<1>7. \A r \in Node : /\ DOMAIN cache'[r] = DOMAIN cache[r]
                      /\ \A m \in DOMAIN cache[r] :
                           /\ Missing(cache'[r][m]) = Missing(cache[r][m])
                           /\ cache'[r][m].created = cache[r][m].created
                           /\ cache'[r][m].lasttry = cache[r][m].lasttry
  BY <1>3, <1>4, <1>6 DEF old
<1>8. \A r \in Node : \A m, i : /\ Holds(r, m, i)' = Holds(r, m, i)
                                /\ Lacks(r, m, i)' = Lacks(r, m, i)
  BY <1>7 DEF Holds, Lacks
<1>9. SentByHolders'
  <2>1. ASSUME NEW r \in Node, NEW e \in queue'[r]
        PROVE  /\ e.frame.kind \in Kinds
               /\ e.frame.kind = "Fragment" =>
                    Holds(r, e.frame.frag.msgid, e.frame.frag.fragndx)
    <3>1. CASE e \in queue[r]
      BY <3>1 DEF RInv, SentByHolders
    <3>2. CASE r = t /\ e.frame \in frames
      BY <1>5, <3>2 DEF Kinds
    <3> QED
      BY <1>6, <3>1, <3>2
  <2> QED
    BY <1>1, <1>8, <2>1 DEF RInv, SentByHolders
<1>10. TimesOK'
  BY <1>1, <1>6, <1>7, KeepsTimes
<1>11. ASSUME NEW n \in Node, NEW m \in Base, NEW i \in Indices(m)
       PROVE  Known(n, m, i)'
  <2>1. CASE hit'[n] = clock
    BY <1>1, <1>10, <2>1, Settled
  <2>2. CASE hit'[n] # clock
    <3>1. Known(n, m, i) /\ hit'[n] = hit[n] /\ clock' = clock
      BY <1>1, <1>6, <2>2 DEF RInv, Repairable
    <3>2. CASE FlyingTo(n, m, i)
      <4>1. FlyingTo(n, m, i)'
        BY <1>1, <3>2 DEF FlyingTo, Carries
      <4> QED
        BY <1>1, <1>10, <4>1, Settled
    <3>3. CASE ~FlyingTo(n, m, i)
      <4>1. Flying(m, i)' => Flying(m, i)
        BY <1>1 DEF Flying
      <4>2. \A r \in Node : QueuedAt(r, m, i) => QueuedAt(r, m, i)'
        BY <1>6 DEF QueuedAt
      <4>3. ASSUME NEW r \in Node \ {n}, Asking(n, r, m, i), Holds(r, m, i)
            PROVE  Asking(n, r, m, i)' \/ QueuedAt(r, m, i)'
        <5>1. CASE r = t /\ AsksFor(copy.frame, m, i)
          <6>1. PICK f \in frames : Carries(f, m, i)
            BY <1>5, <4>3, <5>1 DEF AsksFor, missing
          <6>2. n \in MissedBy(t, f)
            BY <4>3, <5>1, <6>1 DEF MissedBy, Carries
          <6>3. PICK e \in queue'[t] : IdOf(e.frame) = IdOf(f)
            BY <1>6, <2>2, <6>2
          <6>4. e.frame.kind \in Kinds /\ f.kind \in Kinds
            BY <1>2, <1>9, <6>1 DEF SentByHolders, Carries, Kinds
          <6>5. Carries(e.frame, m, i)
            BY <6>1, <6>3, <6>4, SameId DEF Carries
          <6> QED
            BY <5>1, <6>5 DEF QueuedAt
        <5>2. CASE ~(r = t /\ AsksFor(copy.frame, m, i))
          <6>1. \A e \in queue[n] : e \in queue'[n]
            BY <1>6
          <6> QED
            BY <1>1, <4>3, <5>2, <6>1 DEF Asking, t
        <5> QED
          BY <5>1, <5>2
      <4>4. \A r \in Node \ {n} : Holds(r, m, i)' =>
              \/ UnderWay(n, r, m, i)'
              \/ Holds(r, m, i) /\ ~UnderWay(n, r, m, i)
        BY <1>8, <3>3, <4>2, <4>3 DEF UnderWay
      <4>5. Lacks(n, m, i)' =>
              /\ Lacks(n, m, i)
              /\ cache'[n][m].created = cache[n][m].created
              /\ cache'[n][m].lasttry = cache[n][m].lasttry
        BY <1>7, <1>8 DEF Lacks
      <4> QED
        BY <1>8, <3>1, <3>3, <4>1, <4>4, <4>5, Undisturbed
    <3> QED
      BY <3>2, <3>3
  <2> QED
    BY <2>1, <2>2
<1> QED
  BY <1>9, <1>10, <1>11 DEF Repairable

-----------------------------------------------------------------------------
(* Together *)

LEMMA InitRepairs == Init => RInv
<1> SUFFICES ASSUME Init
             PROVE  RInv
  OBVIOUS
<1>1. /\ \A n \in Node : DOMAIN cache[n] = {} /\ queue[n] = {} /\ hit[n] = 0
      /\ air = {} /\ clock = 0
      /\ hit \in [Node -> Nat] /\ nextNeed \in [Node -> 0 .. NeedSecs - 1]
  BY DEF Init
<1>2. SentByHolders
  BY <1>1 DEF SentByHolders
<1>3. TimesOK
  <2>1. nextNeed \in [Node -> Nat]
    BY <1>1
  <2>2. \A n \in Node : /\ hit[n] <= clock
                        /\ clock <= nextNeed[n] /\ nextNeed[n] <= clock + NeedSecs
    BY <1>1, MeshAssumption
  <2> QED
    BY <1>1, <2>1, <2>2 DEF TimesOK
<1>4. Repairable
  BY <1>1 DEF Repairable, Known, Heard, Covered, Lacks, Flying
<1> QED
  BY <1>2, <1>3, <1>4, InitInv DEF RInv

LEMMA NextRepairs ==
  ASSUME RInv, [Next]_vars
  PROVE  RInv'
<1>1. IInv'
  BY NextInv DEF RInv
<1>2. SentByHolders' /\ TimesOK' /\ Repairable'
  <2>1. ASSUME NEW n \in Node, NEW m \in Base, SendFragments(n, m)
        PROVE  SentByHolders' /\ TimesOK' /\ Repairable'
    BY <1>1, <2>1, SendFragmentsRepairs
  <2>2. ASSUME NEW n \in Node,
               RegSend(n) \/ RegSendFails(n) \/ SendFragmentRetries(n) \/ Crash(n)
        PROVE  SentByHolders' /\ TimesOK' /\ Repairable'
    BY <1>1, <2>2, RegSendRepairs, RegSendFailsRepairs, SendFragmentRetriesRepairs,
       CrashRepairs
  <2>3. ASSUME NEW copy \in air, Receive(copy)
        PROVE  SentByHolders' /\ TimesOK' /\ Repairable'
    <3>1. copy.frame.kind = "Fragment" \/ copy.frame.kind = "Need"
      BY <2>3 DEF Receive
    <3> QED
      BY <1>1, <2>3, <3>1, HandleFragmentRepairs, HandleNeedRepairs
  <2>4. ASSUME NEW copy \in air, Lose(copy)
        PROVE  SentByHolders' /\ TimesOK' /\ Repairable'
    BY <1>1, <2>4, LoseRepairs
  <2>5. CASE Tick
    BY <2>5, TickRepairs
  <2>6. CASE UNCHANGED vars
    <3>1. UNCHANGED <<cache, queue, air, clock, nextNeed, hit>>
      BY <2>6 DEF vars, timers
    <3>2. SentByHolders'
      BY <3>1 DEF RInv, SentByHolders, Holds
    <3>3. TimesOK'
      BY <3>1 DEF RInv, TimesOK
    <3>4. Repairable'
      BY <3>1 DEF RInv, Repairable, Known, Heard, Covered, Lacks, Holds, Flying,
         UnderWay, QueuedAt, FlyingTo, Asking
    <3> QED
      BY <3>2, <3>3, <3>4
  <2> QED
    BY <2>1, <2>2, <2>3, <2>4, <2>5, <2>6 DEF Next
<1> QED
  BY <1>1, <1>2 DEF RInv

\* When the window has closed, an entry that is not whole was asked for after the
\* last fault of its node: a tick of the need timer fell between the two.
LEMMA RepairedAtTheEnd == RInv => RepairedInTime
<1> SUFFICES ASSUME RInv, NEW n \in Node, NEW m \in DOMAIN cache[n],
                    Expired(cache[n][m], clock),
                    hit[n] + NeedSecs < cache[n][m].created + MaxAge,
                    NEW i \in Missing(cache[n][m]),
                    NEW r \in Node \ {n}, Holds(r, m, i)
             PROVE  UnderWay(n, r, m, i)
  BY DEF RepairedInTime, UnderWay
<1> DEFINE p == cache[n][m]
<1>1. /\ m \in Base /\ p.created \in Nat /\ p.lasttry \in Nat /\ i \in Indices(m)
      /\ clock \in Nat /\ nextNeed[n] \in Nat /\ hit[n] \in Nat
      /\ clock <= nextNeed[n] /\ EntryTimes(p, nextNeed[n], hit[n], clock)
  BY EntryTypes DEF RInv, IInv, TimesOK, NodeOK
<1>2. MaxAge \in Nat
  BY FragCacheAssumption
<1>3. Known(n, m, i) /\ Lacks(n, m, i)
  BY <1>1 DEF RInv, Repairable, Lacks
<1>4. Missing(p) # {} /\ hit[n] + NeedSecs < p.created + MaxAge /\ Expired(p, clock)
  OBVIOUS
<1> HIDE DEF p
<1>5. ~(nextNeed[n] < p.created + MaxAge)
  BY <1>1, <1>2, <1>4 DEF Expired
<1>6. p.lasttry > p.created /\ p.lasttry > hit[n]
  BY <1>1, <1>4, <1>5 DEF EntryTimes
<1> QED
  BY <1>3, <1>6 DEF Known, Covered, p

\* A node that no fault hits in the last period of its need timer within the
\* retry window of a message asks for what it misses, and is answered by each
\* node that holds it: however many nodes there are, whoever submitted the
\* message, however often, and whoever answers (link.rs:344-431, 493-531,
\* fragcache.rs:129-216).
THEOREM RepairsInTime == Spec => []RepairedInTime
<1>1. Init => RInv
  BY InitRepairs
<1>2. RInv /\ [Next]_vars => RInv'
  BY NextRepairs
<1>3. RInv => RepairedInTime
  BY RepairedAtTheEnd
<1> QED
  BY <1>1, <1>2, <1>3, PTL DEF Spec

=============================================================================
