----------------------------- MODULE LinkProofs -----------------------------
(***************************************************************************)
(* The safety properties of Link, for any messages of any number of        *)
(* chunks, any priorities and policies of the client, and queues of any    *)
(* length.                                                                 *)
(***************************************************************************)
EXTENDS Link, FragCacheProofs, SequenceTheorems

Q == INSTANCE OutgoingProofs

-----------------------------------------------------------------------------
(* The line for the mutex *)

LEMMA LeavesLine ==
  ASSUME NEW S, NEW q \in Seq(S), q # <<>>, IsInjective(q)
  PROVE  /\ Tail(q) \in Seq(S)
         /\ IsInjective(Tail(q))
         /\ Range(Tail(q)) = Range(q) \ {Head(q)}
         /\ Head(q) \in Range(q)
<1>1. /\ Len(q) \in Nat /\ Len(q) >= 1 /\ DOMAIN q = 1 .. Len(q)
      /\ Tail(q) \in Seq(S) /\ DOMAIN Tail(q) = 1 .. Len(q) - 1
      /\ Head(q) = q[1] /\ 1 \in DOMAIN q
      /\ \A i \in 1 .. Len(q) - 1 : Tail(q)[i] = q[i + 1] /\ i + 1 \in DOMAIN q
  BY HeadTailProperties, LenProperties, EmptySeq
<1>2. IsInjective(Tail(q))
  <2> SUFFICES ASSUME NEW a \in DOMAIN Tail(q), NEW b \in DOMAIN Tail(q),
                      Tail(q)[a] = Tail(q)[b]
               PROVE  a = b
    BY DEF IsInjective
  <2>1. a + 1 = b + 1
    BY <1>1 DEF IsInjective
  <2> QED
    BY <1>1, <2>1
<1>3. ASSUME NEW i \in DOMAIN Tail(q)
      PROVE  Tail(q)[i] \in Range(q) \ {Head(q)}
  <2>1. i + 1 # 1
    BY <1>1
  <2>2. q[i + 1] # q[1]
    BY <1>1, <2>1 DEF IsInjective
  <2> QED
    BY <1>1, <2>2 DEF Range
<1>4. ASSUME NEW i \in DOMAIN q, q[i] # Head(q)
      PROVE  q[i] \in Range(Tail(q))
  <2>1. i - 1 \in 1 .. Len(q) - 1 /\ (i - 1) + 1 = i
    BY <1>1, <1>4
  <2>2. Tail(q)[i - 1] = q[i]
    BY <1>1, <2>1
  <2> QED
    BY <1>1, <2>1, <2>2 DEF Range
<1> QED
  BY <1>1, <1>2, <1>3, <1>4 DEF Range

LEMMA JoinsLine ==
  ASSUME NEW S, NEW q \in Seq(S), NEW x \in S, IsInjective(q), x \notin Range(q)
  PROVE  /\ Append(q, x) \in Seq(S)
         /\ IsInjective(Append(q, x))
         /\ Range(Append(q, x)) = Range(q) \cup {x}
         /\ Append(q, x) # <<>>
         /\ q # <<>> => Head(Append(q, x)) = Head(q)
<1> DEFINE r == Append(q, x)
           k == Len(q)
<1>1. /\ k \in Nat /\ DOMAIN q = 1 .. k /\ DOMAIN r = 1 .. k + 1
      /\ r \in Seq(S) /\ Len(r) = k + 1
      /\ \A i \in 1 .. k : r[i] = q[i]
      /\ r[k + 1] = x
  BY AppendProperties, LenProperties
<1> HIDE DEF r, k
<1>2. \A i \in 1 .. k + 1 : i \in 1 .. k \/ i = k + 1
  BY <1>1
<1>3. \A i \in 1 .. k : q[i] # x
  BY <1>1 DEF Range
<1>4. IsInjective(r)
  BY <1>1, <1>2, <1>3 DEF IsInjective
<1>5. Range(r) = Range(q) \cup {x}
  <2>1. k + 1 \in DOMAIN r /\ \A i \in 1 .. k : i \in DOMAIN r
    BY <1>1
  <2> QED
    BY <1>1, <1>2, <2>1 DEF Range
<1>6. r # <<>>
  BY <1>1, EmptySeq
<1>7. q # <<>> => Head(r) = Head(q)
  <2>1. q # <<>> => k >= 1
    BY <1>1, EmptySeq DEF k
  <2>2. q # <<>> => r[1] = q[1]
    BY <1>1, <2>1
  <2> QED
    BY <1>1, <1>6, <2>2, HeadTailProperties
<1> QED
  BY <1>1, <1>4, <1>5, <1>6, <1>7 DEF r

-----------------------------------------------------------------------------
(* The outgoing side: what each of its steps does to the entries *)

\* retain, as Link sees it.
LEMMA OutRetain ==
  ASSUME NEW S, NEW q \in Seq(S), NEW K \in SUBSET DOMAIN q
  PROVE  /\ Out!Retain(q, K) \in Seq(S)
         /\ Len(Out!Retain(q, K)) <= Len(q)
         /\ Out!Entries(Out!Retain(q, K)) \subseteq {q[i] : i \in K}
<1>1. Out!Retain(q, K) = Q!Retain(q, K)
  BY DEF Out!Retain, Q!Retain, Out!Nth, Q!Nth, Out!Rank, Q!Rank,
     Out!Cardinality, Q!Cardinality, Out!IsFiniteSet, Q!IsFiniteSet
<1>2. /\ Q!Retain(q, K) \in Seq(S)
      /\ Len(Q!Retain(q, K)) <= Len(q)
      /\ \A a \in DOMAIN Q!Retain(q, K) :
           Q!Nth(K, a) \in K /\ Q!Retain(q, K)[a] = q[Q!Nth(K, a)]
  BY LinkAssumption, Q!RetainProperties
<1> HIDE DEF Q!Retain
<1> QED
  BY <1>1, <1>2 DEF Out!Entries

\* The n-th of some positions is one of them.
LEMMA OutNth ==
  ASSUME NEW K \in SUBSET Int, IsFiniteSet(K), NEW n \in 1 .. Cardinality(K)
  PROVE  Out!Nth(K, n) \in K
<1>1. Out!Nth(K, n) = Q!Nth(K, n)
  BY DEF Out!Nth, Q!Nth, Out!Rank, Q!Rank,
     Out!Cardinality, Q!Cardinality, Out!IsFiniteSet, Q!IsFiniteSet
<1>2. Q!IsFiniteSet(K) /\ Q!Cardinality(K) = Cardinality(K)
  BY DEF IsFiniteSet, Cardinality, Q!IsFiniteSet, Q!Cardinality
<1> QED
  BY <1>1, <1>2, LinkAssumption, Q!NthProperties

\* Another queue takes the place of queue p.
LEMMA QueueReplaced ==
  ASSUME Out!TypeOK, NEW p \in Out!Priority, NEW r \in Seq(Out!Entry),
         Len(r) <= OutgoingQueueMax + 1, queue' = [queue EXCEPT ![p] = r]
  PROVE  /\ queue' \in [Out!Priority -> Seq(Out!Entry)]
         /\ \A o \in Out!Priority : Len(queue'[o]) <= OutgoingQueueMax + 1
         /\ queue'[p] = r
         /\ \A o \in Out!Priority \ {p} : queue'[o] = queue[o]
<1>1. /\ queue \in [Out!Priority -> Seq(Out!Entry)]
      /\ \A o \in Out!Priority : Len(queue[o]) <= OutgoingQueueMax + 1
  BY DEF Out!TypeOK
<1>2. \A o \in Out!Priority : queue'[o] = IF o = p THEN r ELSE queue[o]
  BY <1>1
<1> QED
  BY <1>1, <1>2

LEMMA CancelOut ==
  ASSUME Out!TypeOK, NEW id \in MsgId, NEW prio \in Out!Priority, Out!Cancel(id, prio)
  PROVE  /\ Out!TypeOK'
         /\ held' = held /\ reg' = reg
         /\ \A p \in Out!Priority : Out!Entries(queue'[p]) \subseteq Out!Entries(queue[p])
         /\ \A e \in Out!Entries(queue'[prio]) : e.id # id
<1> DEFINE q == queue[prio]
           K == {i \in DOMAIN q : q[i].id # id}
           r == Out!Retain(q, K)
<1>1. queue' = [queue EXCEPT ![prio] = r] /\ UNCHANGED <<notify, wake, reg, held>>
  BY DEF Out!Cancel, Out!Without
<1>2. q \in Seq(Out!Entry) /\ Len(q) <= OutgoingQueueMax + 1
  BY DEF Out!TypeOK
<1>3. /\ r \in Seq(Out!Entry) /\ Len(r) <= Len(q)
      /\ Out!Entries(r) \subseteq {q[i] : i \in K}
  BY <1>2, OutRetain
<1>4. Out!Entries(r) \subseteq Out!Entries(q) /\ \A e \in Out!Entries(r) : e.id # id
  BY <1>3 DEF Out!Entries
<1> HIDE DEF r
<1>5. Len(r) <= OutgoingQueueMax + 1
  BY <1>2, <1>3, LenProperties, LinkAssumption
<1>6. /\ queue' \in [Out!Priority -> Seq(Out!Entry)]
      /\ \A o \in Out!Priority : Len(queue'[o]) <= OutgoingQueueMax + 1
      /\ queue'[prio] = r
      /\ \A o \in Out!Priority \ {prio} : queue'[o] = queue[o]
  BY <1>1, <1>3, <1>5, QueueReplaced
<1>7. Out!TypeOK'
  BY <1>1, <1>6 DEF Out!TypeOK
<1> QED
  BY <1>1, <1>4, <1>6, <1>7

LEMMA EnqueueOut ==
  ASSUME Out!TypeOK, NEW id \in MsgId, NEW frame \in Frame, NEW prio \in Out!Priority,
         NEW policy \in Out!Policy, Out!Enqueue(id, frame, prio, policy)
  PROVE  /\ Out!TypeOK'
         /\ held' = held /\ reg' = reg
         /\ \A p \in Out!Priority :
              Out!Entries(queue'[p]) \subseteq
                Out!Entries(queue[p]) \cup {[id |-> id, policy |-> policy, frame |-> frame]}
<1> DEFINE q == queue[prio]
           e == [id |-> id, policy |-> policy, frame |-> frame]
           K == {i \in DOMAIN q : ~Out!Outranks(policy, q[i].policy)}
           r == Out!Retain(q, K)
           s == Append(r, e)
<1>1. queue' = [queue EXCEPT ![prio] = s] /\ UNCHANGED <<notify, reg, held>>
  BY DEF Out!Enqueue, Out!Push, Out!Purge
<1>2. wake' \in 0 .. MaxWake
  BY LinkAssumption DEF Out!Enqueue, Out!TypeOK
<1>3. q \in Seq(Out!Entry) /\ e \in Out!Entry
  BY DEF Out!TypeOK, Out!Entry
<1>4. Len(q) <= OutgoingQueueMax
  <2>1. ~Out!IsFull(q)
    BY DEF Out!Enqueue, Out!Verdict
  <2> QED
    BY <1>3, <2>1, LenProperties, LinkAssumption DEF Out!IsFull
<1>5. /\ r \in Seq(Out!Entry) /\ Len(r) <= Len(q)
      /\ Out!Entries(r) \subseteq {q[i] : i \in K}
  BY <1>3, OutRetain
<1>6. Out!Entries(r) \subseteq Out!Entries(q)
  BY <1>5 DEF Out!Entries
<1> HIDE DEF r, e, q
<1>7. /\ s \in Seq(Out!Entry) /\ Len(s) = Len(r) + 1 /\ Len(r) \in Nat
      /\ DOMAIN r = 1 .. Len(r) /\ DOMAIN s = 1 .. Len(r) + 1
      /\ \A i \in 1 .. Len(r) : s[i] = r[i]
      /\ s[Len(r) + 1] = e
  BY <1>3, <1>5, AppendProperties, LenProperties
<1>8. \A i \in 1 .. Len(r) + 1 : i \in 1 .. Len(r) \/ i = Len(r) + 1
  BY <1>7
<1>9. Out!Entries(s) \subseteq Out!Entries(q) \cup {e}
  <2>1. Out!Entries(s) \subseteq Out!Entries(r) \cup {e}
    BY <1>7, <1>8 DEF Out!Entries
  <2> QED
    BY <1>6, <2>1
<1>10. Len(s) <= OutgoingQueueMax + 1
  BY <1>3, <1>4, <1>5, <1>7, LenProperties, LinkAssumption
<1> HIDE DEF s
<1>11. /\ queue' \in [Out!Priority -> Seq(Out!Entry)]
       /\ \A o \in Out!Priority : Len(queue'[o]) <= OutgoingQueueMax + 1
       /\ queue'[prio] = s
       /\ \A o \in Out!Priority \ {prio} : queue'[o] = queue[o]
  BY <1>1, <1>7, <1>10, QueueReplaced
<1>12. Out!TypeOK'
  BY <1>1, <1>2, <1>11 DEF Out!TypeOK
<1> QED
  BY <1>1, <1>9, <1>11, <1>12 DEF e, q

\* The regulator away from the link.
LEMMA RegOtherOut ==
  ASSUME Out!TypeOK, Out!RegPop \/ Out!RegPark \/ Out!RegWake \/ Out!RegResume
  PROVE  /\ Out!TypeOK'
         /\ reg # "send"
         /\ \A p \in Out!Priority : Out!Entries(queue'[p]) \subseteq Out!Entries(queue[p])
         /\ held' \subseteq held \cup UNION {Out!Entries(queue[p]) : p \in Out!Priority}
<1>1. CASE Out!RegPop
  <2> DEFINE prio == Out!NextPriority
             q == queue[prio]
  <2>1. prio \in Out!Priority /\ q # <<>>
    BY <1>1 DEF Out!RegPop, Out!NextPriority, Out!IsEmpty, Out!Priority
  <2>2. /\ reg = "look" /\ reg' = "send" /\ held' = {Head(q)}
        /\ queue' = [queue EXCEPT ![prio] = Tail(q)]
        /\ UNCHANGED <<notify, wake>>
    BY <1>1 DEF Out!RegPop
  <2> HIDE DEF prio
  <2>3. q \in Seq(Out!Entry) /\ Len(q) <= OutgoingQueueMax + 1
    BY <2>1 DEF Out!TypeOK
  <2>4. /\ Head(q) \in Out!Entry /\ Head(q) = q[1]
        /\ Tail(q) \in Seq(Out!Entry) /\ Len(Tail(q)) = Len(q) - 1
        /\ DOMAIN Tail(q) = 1 .. Len(q) - 1
        /\ Len(q) \in Nat /\ Len(q) >= 1 /\ DOMAIN q = 1 .. Len(q)
        /\ \A i \in 1 .. Len(q) - 1 : Tail(q)[i] = q[i + 1] /\ i + 1 \in DOMAIN q
    BY <2>1, <2>3, HeadTailProperties, LenProperties, EmptySeq
  <2> HIDE DEF q
  <2>5. Len(Tail(q)) <= OutgoingQueueMax + 1
    BY <2>3, <2>4, LinkAssumption
  <2>6. Out!Entries(Tail(q)) \subseteq Out!Entries(q) /\ Head(q) \in Out!Entries(q)
    <3>1. 1 \in DOMAIN q
      BY <2>4
    <3> QED
      BY <2>4, <3>1 DEF Out!Entries
  <2>7. /\ queue' \in [Out!Priority -> Seq(Out!Entry)]
        /\ \A o \in Out!Priority : Len(queue'[o]) <= OutgoingQueueMax + 1
        /\ queue'[prio] = Tail(q)
        /\ \A o \in Out!Priority \ {prio} : queue'[o] = queue[o]
    BY <2>1, <2>2, <2>4, <2>5, QueueReplaced
  <2>8. Out!TypeOK'
    BY <2>2, <2>4, <2>7 DEF Out!TypeOK
  <2> QED
    BY <2>1, <2>2, <2>6, <2>7, <2>8 DEF q
<1>2. CASE Out!RegPark \/ Out!RegWake \/ Out!RegResume
  <2>1. queue' = queue /\ held' = held /\ reg # "send"
    BY <1>2 DEF Out!RegPark, Out!RegWake, Out!RegResume
  <2>2. Out!TypeOK'
    BY <1>2, LinkAssumption DEF Out!RegPark, Out!RegWake, Out!RegResume, Out!TypeOK
  <2> QED
    BY <2>1, <2>2
<1> QED
  BY <1>1, <1>2

-----------------------------------------------------------------------------
(* Steps that are left *)

LinkStep ==
  [op : {"cancel"}, id : MsgId, prio : Out!Priority]
    \cup [op : {"queue"}, id : MsgId, frame : Frame, prio : Out!Priority, policy : Out!Policy]
    \cup [op : {"cache"}, msgid : Base, fragndx : Nat, inbound : BOOLEAN]
    \cup [op : {"upcall"}, msgid : Short]
    \cup [op : {"fulfill"}, msgid : Base, ndxs : SUBSET Nat]
    \cup [op : {"retry"}]
    \cup [op : {"start"}]

Cached(c, m, i) == m \in DOMAIN c /\ i \notin Missing(c[m])

\* A fragment that is still to be queued is in the cache, or is put there first.
Promised(steps, c) ==
  \A k \in DOMAIN steps : steps[k].op = "queue" /\ steps[k].frame.kind = "Fragment" =>
    \/ Cached(c, steps[k].frame.msgid, steps[k].frame.fragndx)
    \/ \E j \in DOMAIN steps :
         /\ j < k
         /\ steps[j].op = "cache"
         /\ steps[j].msgid = steps[k].frame.msgid
         /\ steps[j].fragndx = steps[k].frame.fragndx

\* The id a last step of the mesh listener is about.
IdOf(s) == IF s.op = "cache" THEN Part(s.msgid, s.fragndx) ELSE Whole(s.msgid)

EndsHearing(steps) == steps # <<>> /\ Last(steps).op \in {"cache", "upcall"}

NoCopy(q, id) == \A e \in Out!Entries(q) : e.id # id

\* Until the mesh listener is done with what it heard, either queue will still be
\* searched for a copy or has none; and from the first search on the link is
\* locked, so that nobody can queue one.
Searched(steps, locked, queues) ==
  EndsHearing(steps) =>
    /\ \A k \in DOMAIN steps : k # Len(steps) => steps[k].op = "cancel"
    /\ \A p \in Out!Priority :
         \/ \E k \in DOMAIN steps : steps[k] = CancelStep(IdOf(Last(steps)), p)
         \/ locked /\ NoCopy(queues[p], IdOf(Last(steps)))

\* What is left after the first step.
LEMMA Rest ==
  ASSUME NEW S, NEW q \in Seq(S), q # <<>>
  PROVE  /\ Tail(q) \in Seq(S) /\ Head(q) = q[1] /\ Head(q) \in S
         /\ Len(q) \in Nat /\ Len(q) >= 1 /\ DOMAIN q = 1 .. Len(q)
         /\ Len(Tail(q)) = Len(q) - 1 /\ DOMAIN Tail(q) = 1 .. Len(q) - 1
         /\ \A i \in 1 .. Len(q) - 1 : Tail(q)[i] = q[i + 1] /\ i + 1 \in DOMAIN q
         /\ \A i \in DOMAIN q : i # 1 =>
              i - 1 \in DOMAIN Tail(q) /\ Tail(q)[i - 1] = q[i]
<1>1. /\ Len(q) \in Nat /\ Len(q) >= 1 /\ DOMAIN q = 1 .. Len(q)
      /\ Tail(q) \in Seq(S) /\ Len(Tail(q)) = Len(q) - 1
      /\ DOMAIN Tail(q) = 1 .. Len(q) - 1
      /\ Head(q) = q[1] /\ Head(q) \in S
      /\ \A i \in 1 .. Len(q) - 1 : Tail(q)[i] = q[i + 1] /\ i + 1 \in DOMAIN q
  BY HeadTailProperties, LenProperties, EmptySeq
<1>2. ASSUME NEW i \in DOMAIN q, i # 1
      PROVE  i - 1 \in DOMAIN Tail(q) /\ Tail(q)[i - 1] = q[i]
  <2>1. i - 1 \in 1 .. Len(q) - 1 /\ (i - 1) + 1 = i
    BY <1>1, <1>2
  <2> QED
    BY <1>1, <2>1
<1> QED
  BY <1>1, <1>2

\* A cache that only grows keeps the promises.
LEMMA PromisedKept ==
  ASSUME NEW steps, NEW c, NEW d, Promised(steps, c),
         \A m, i : Cached(c, m, i) => Cached(d, m, i)
  PROVE  Promised(steps, d)
BY DEF Promised

\* So does a step that is done, if what it was to cache is cached.
LEMMA PromisedRest ==
  ASSUME NEW steps \in Seq(LinkStep), steps # <<>>, NEW c, NEW d, Promised(steps, c),
         \A m, i : Cached(c, m, i) => Cached(d, m, i),
         Head(steps).op = "cache" => Cached(d, Head(steps).msgid, Head(steps).fragndx)
  PROVE  Promised(Tail(steps), d)
<1> DEFINE t == Tail(steps)
<1>1. /\ Head(steps) = steps[1]
      /\ Len(steps) \in Nat /\ DOMAIN steps = 1 .. Len(steps)
      /\ DOMAIN t = 1 .. Len(steps) - 1
      /\ \A i \in 1 .. Len(steps) - 1 : t[i] = steps[i + 1] /\ i + 1 \in DOMAIN steps
      /\ \A i \in DOMAIN steps : i # 1 => i - 1 \in DOMAIN t /\ t[i - 1] = steps[i]
  BY Rest
<1> HIDE DEF t
<1> SUFFICES ASSUME NEW k \in DOMAIN t, t[k].op = "queue", t[k].frame.kind = "Fragment"
             PROVE  \/ Cached(d, t[k].frame.msgid, t[k].frame.fragndx)
                    \/ \E j \in DOMAIN t :
                         /\ j < k
                         /\ t[j].op = "cache"
                         /\ t[j].msgid = t[k].frame.msgid
                         /\ t[j].fragndx = t[k].frame.fragndx
  BY DEF Promised, t
<1>2. k + 1 \in DOMAIN steps /\ steps[k + 1] = t[k]
  BY <1>1
<1>3. CASE Cached(c, t[k].frame.msgid, t[k].frame.fragndx)
  BY <1>3
<1>4. ASSUME NEW j \in DOMAIN steps, j < k + 1, steps[j].op = "cache",
             steps[j].msgid = t[k].frame.msgid, steps[j].fragndx = t[k].frame.fragndx
      PROVE  \/ Cached(d, t[k].frame.msgid, t[k].frame.fragndx)
             \/ \E l \in DOMAIN t :
                  /\ l < k
                  /\ t[l].op = "cache"
                  /\ t[l].msgid = t[k].frame.msgid
                  /\ t[l].fragndx = t[k].frame.fragndx
  <2>1. CASE j = 1
    BY <1>1, <1>4, <2>1
  <2>2. CASE j # 1
    <3>1. j - 1 < k
      BY <1>1, <1>4
    <3> QED
      BY <1>1, <1>4, <2>2, <3>1
  <2> QED
    BY <2>1, <2>2
<1> QED
  BY <1>2, <1>3, <1>4 DEF Promised

\* Queues that lose entries stay searched, and a lock that comes is no harm.
LEMMA SearchedKept ==
  ASSUME NEW steps, NEW locked, NEW later, NEW qs, NEW rs, Searched(steps, locked, qs),
         locked => later,
         locked => \A p \in Out!Priority : Out!Entries(rs[p]) \subseteq Out!Entries(qs[p])
  PROVE  Searched(steps, later, rs)
BY DEF Searched, NoCopy

\* A search that is done has left no copy.
LEMMA SearchedRest ==
  ASSUME NEW steps \in Seq(LinkStep), steps # <<>>, NEW qs, NEW rs,
         Searched(steps, TRUE, qs),
         \A p \in Out!Priority : Out!Entries(rs[p]) \subseteq Out!Entries(qs[p]),
         Head(steps).op = "cancel" => NoCopy(rs[Head(steps).prio], Head(steps).id)
  PROVE  Searched(Tail(steps), TRUE, rs)
<1> DEFINE t == Tail(steps)
<1>1. /\ Head(steps) = steps[1]
      /\ Len(steps) \in Nat /\ Len(steps) >= 1 /\ DOMAIN steps = 1 .. Len(steps)
      /\ Len(t) = Len(steps) - 1 /\ DOMAIN t = 1 .. Len(steps) - 1
      /\ \A i \in 1 .. Len(steps) - 1 : t[i] = steps[i + 1] /\ i + 1 \in DOMAIN steps
      /\ \A i \in DOMAIN steps : i # 1 => i - 1 \in DOMAIN t /\ t[i - 1] = steps[i]
      /\ t \in Seq(LinkStep)
  BY Rest
<1> HIDE DEF t
<1> SUFFICES ASSUME EndsHearing(t)
             PROVE  /\ \A k \in DOMAIN t : k # Len(t) => t[k].op = "cancel"
                    /\ \A p \in Out!Priority :
                         \/ \E k \in DOMAIN t : t[k] = CancelStep(IdOf(Last(t)), p)
                         \/ NoCopy(rs[p], IdOf(Last(t)))
  BY DEF Searched, t
<1>2. Len(t) >= 1
  BY <1>1, EmptySeq DEF EndsHearing
<1>3. /\ Len(t) \in DOMAIN t /\ Len(t) + 1 = Len(steps)
      /\ Last(t) = Last(steps)
  <2>1. Len(t) \in 1 .. Len(steps) - 1 /\ Len(t) + 1 = Len(steps)
    BY <1>1, <1>2
  <2> QED
    BY <1>1, <2>1 DEF Last
<1>4. /\ \A k \in DOMAIN steps : k # Len(steps) => steps[k].op = "cancel"
      /\ \A p \in Out!Priority :
           \/ \E k \in DOMAIN steps : steps[k] = CancelStep(IdOf(Last(steps)), p)
           \/ NoCopy(qs[p], IdOf(Last(steps)))
  BY <1>3 DEF Searched, EndsHearing
<1>5. ASSUME NEW k \in DOMAIN t, k # Len(t)
      PROVE  t[k].op = "cancel"
  <2>1. k + 1 \in DOMAIN steps /\ k + 1 # Len(steps)
    BY <1>1, <1>5
  <2> QED
    BY <1>1, <1>4, <2>1
<1>6. ASSUME NEW p \in Out!Priority
      PROVE  \/ \E k \in DOMAIN t : t[k] = CancelStep(IdOf(Last(t)), p)
             \/ NoCopy(rs[p], IdOf(Last(t)))
  <2>1. CASE NoCopy(qs[p], IdOf(Last(steps)))
    BY <1>3, <2>1 DEF NoCopy
  <2>2. ASSUME NEW k \in DOMAIN steps, steps[k] = CancelStep(IdOf(Last(steps)), p)
        PROVE  \/ \E l \in DOMAIN t : t[l] = CancelStep(IdOf(Last(t)), p)
               \/ NoCopy(rs[p], IdOf(Last(t)))
    <3>1. CASE k = 1
      <4>1. /\ Head(steps).op = "cancel" /\ Head(steps).prio = p
            /\ Head(steps).id = IdOf(Last(steps))
        BY <1>1, <2>2, <3>1 DEF CancelStep
      <4> QED
        BY <1>3, <4>1
    <3>2. CASE k # 1
      BY <1>1, <1>3, <2>2, <3>2
    <3> QED
      BY <3>1, <3>2
  <2> QED
    BY <1>4, <2>1, <2>2
<1> QED
  BY <1>5, <1>6

\* A handler that starts with a step of another kind is not about what it heard,
\* or that step is its last.
LEMMA NotHearing ==
  ASSUME NEW steps \in Seq(LinkStep), steps # <<>>, NEW locked, NEW qs,
         Searched(steps, locked, qs), Head(steps).op # "cancel"
  PROVE  ~EndsHearing(Tail(steps))
<1> DEFINE t == Tail(steps)
<1>1. /\ Head(steps) = steps[1]
      /\ Len(steps) \in Nat /\ Len(steps) >= 1 /\ DOMAIN steps = 1 .. Len(steps)
      /\ Len(t) = Len(steps) - 1
      /\ \A i \in 1 .. Len(steps) - 1 : t[i] = steps[i + 1] /\ i + 1 \in DOMAIN steps
      /\ t \in Seq(LinkStep)
  BY Rest
<1> HIDE DEF t
<1> SUFFICES ASSUME EndsHearing(t)
             PROVE  FALSE
  BY DEF t
<1>2. Len(t) >= 1
  BY <1>1, EmptySeq DEF EndsHearing
<1>3. Len(t) \in 1 .. Len(steps) - 1 /\ Len(t) + 1 = Len(steps)
  BY <1>1, <1>2
<1>4. Last(t) = Last(steps)
  BY <1>1, <1>3 DEF Last
<1>5. 1 \in DOMAIN steps /\ 1 # Len(steps)
  BY <1>1, <1>2
<1> QED
  BY <1>1, <1>4, <1>5 DEF Searched, EndsHearing

-----------------------------------------------------------------------------
(* What every reachable state satisfies *)

TaskOK(t, steps, locked, c, queues) ==
  /\ steps \in Seq(LinkStep)
  /\ Promised(steps, c)
  /\ t = "mesh" => Searched(steps, locked, queues)

Waiters == Task \cup {"reg"}

\* A task is in line exactly while it has steps left, and nobody is twice.
LineOK ==
  /\ line \in Seq(Waiters)
  /\ IsInjective(line)
  /\ \A t \in Task : (t \in Range(line)) <=> (todo[t] # <<>>)
  /\ "reg" \in Range(line) => reg = "send"

AllCached(entries, c) ==
  \A e \in entries :
    e.frame.kind = "Fragment" => Cached(c, e.frame.msgid, e.frame.fragndx)

OnTheWay == held \cup UNION {Out!Entries(queue[p]) : p \in Out!Priority}

IInv ==
  /\ Out!TypeOK
  /\ CacheOK(cache)
  /\ LineOK
  /\ dead \subseteq Task
  /\ told \subseteq Short \cup Base
  /\ todo \in [Task -> Seq(LinkStep)]
  /\ \A t \in Task : TaskOK(t, todo[t], Holds(t), cache, queue)
  /\ AllCached(OnTheWay, cache)

LEMMA EmptyOK ==
  ASSUME NEW t, NEW locked, NEW c, NEW qs
  PROVE  TaskOK(t, <<>>, locked, c, qs)
<1>1. <<>> \in Seq(LinkStep) /\ DOMAIN <<>> = {}
  OBVIOUS
<1>2. ~EndsHearing(<<>>)
  BY DEF EndsHearing
<1> QED
  BY <1>1, <1>2 DEF TaskOK, Promised, Searched

\* A task that does not take the step keeps what it was promised.
LEMMA OthersOK ==
  ASSUME NEW t, NEW steps, NEW locked, NEW later, NEW c, NEW d, NEW qs, NEW rs,
         TaskOK(t, steps, locked, c, qs),
         \A m, i : Cached(c, m, i) => Cached(d, m, i),
         locked => later,
         locked => \A p \in Out!Priority : Out!Entries(rs[p]) \subseteq Out!Entries(qs[p])
  PROVE  TaskOK(t, steps, later, d, rs)
<1>1. Promised(steps, d)
  BY PromisedKept DEF TaskOK
<1>2. t = "mesh" => Searched(steps, later, rs)
  BY SearchedKept DEF TaskOK
<1> QED
  BY <1>1, <1>2 DEF TaskOK

\* The holder of the link goes on to the steps given, or is done.
LEMMA HolderGoes ==
  ASSUME IInv, NEW t \in Task, Holds(t), NEW steps,
         TaskOK(t, steps, TRUE, cache', queue'),
         todo' = [todo EXCEPT ![t] = steps],
         line' = IF steps = <<>> THEN Tail(line) ELSE line,
         \A m, i : Cached(cache, m, i) => Cached(cache', m, i),
         reg = "send" => reg' = "send",
         Out!TypeOK', CacheOK(cache'), dead' \subseteq Task, told' \subseteq Short \cup Base,
         AllCached(OnTheWay', cache')
  PROVE  IInv'
<1>1. /\ line \in Seq(Waiters) /\ IsInjective(line)
      /\ \A u \in Task : (u \in Range(line)) <=> (todo[u] # <<>>)
      /\ "reg" \in Range(line) => reg = "send"
      /\ todo \in [Task -> Seq(LinkStep)]
      /\ \A u \in Task : TaskOK(u, todo[u], Holds(u), cache, queue)
  BY DEF IInv, LineOK
<1>2. line # <<>> /\ Head(line) = t
  BY DEF Holds
<1>3. steps \in Seq(LinkStep)
  BY DEF TaskOK
<1>4. /\ todo' \in [Task -> Seq(LinkStep)] /\ todo'[t] = steps
      /\ \A u \in Task \ {t} : todo'[u] = todo[u]
  BY <1>1, <1>3
<1>5. /\ Tail(line) \in Seq(Waiters) /\ IsInjective(Tail(line))
      /\ Range(Tail(line)) = Range(line) \ {t}
      /\ t \in Range(line)
  BY <1>1, <1>2, LeavesLine
<1>6. "reg" # t
  BY DEF Task
<1>7. LineOK'
  <2>1. CASE steps = <<>>
    BY <1>1, <1>4, <1>5, <2>1 DEF LineOK
  <2>2. CASE steps # <<>>
    BY <1>1, <1>4, <1>5, <2>2 DEF LineOK
  <2> QED
    BY <2>1, <2>2
<1>8. ASSUME NEW u \in Task
      PROVE  TaskOK(u, todo'[u], Holds(u)', cache', queue')
  <2>1. CASE u # t
    <3>1. Holds(u) = FALSE /\ todo'[u] = todo[u]
      BY <1>2, <1>4, <2>1 DEF Holds
    <3>2. TaskOK(u, todo[u], FALSE, cache, queue)
      BY <1>1, <3>1
    <3> QED
      BY <3>1, <3>2, OthersOK
  <2>2. CASE u = t /\ steps = <<>>
    BY <1>4, <2>2, EmptyOK
  <2>3. CASE u = t /\ steps # <<>>
    <3>1. Holds(u)' = TRUE
      BY <1>2, <2>3 DEF Holds
    <3> QED
      BY <1>4, <2>3, <3>1
  <2> QED
    BY <2>1, <2>2, <2>3
<1> QED
  BY <1>4, <1>7, <1>8 DEF IInv

\* A task that has an input lines up.
LEMMA LineUpOK ==
  ASSUME IInv, NEW t \in Task, Idle(t), NEW steps, steps # <<>>,
         TaskOK(t, steps, FALSE, cache, queue), LineUp(t, steps)
  PROVE  IInv'
<1>1. /\ line \in Seq(Waiters) /\ IsInjective(line)
      /\ \A u \in Task : (u \in Range(line)) <=> (todo[u] # <<>>)
      /\ "reg" \in Range(line) => reg = "send"
      /\ todo \in [Task -> Seq(LinkStep)]
      /\ \A u \in Task : TaskOK(u, todo[u], Holds(u), cache, queue)
  BY DEF IInv, LineOK
<1>2. /\ todo' = [todo EXCEPT ![t] = steps]
      /\ line' = Append(line, t)
      /\ UNCHANGED <<queue, notify, wake, reg, held, cache, dead, told>>
  BY DEF LineUp, outVars
<1>3. t \notin Range(line) /\ t \in Waiters /\ "reg" # t
  BY <1>1 DEF Idle, Waiters, Task
<1>4. /\ line' \in Seq(Waiters) /\ IsInjective(line')
      /\ Range(line') = Range(line) \cup {t}
      /\ line' # <<>>
      /\ line # <<>> => Head(line') = Head(line)
  BY <1>1, <1>2, <1>3, JoinsLine
<1>5. /\ todo' \in [Task -> Seq(LinkStep)] /\ todo'[t] = steps
      /\ \A u \in Task \ {t} : todo'[u] = todo[u]
  BY <1>1, <1>2 DEF TaskOK
<1>6. LineOK'
  BY <1>1, <1>2, <1>3, <1>4, <1>5 DEF LineOK
<1>7. \A u \in Task : Holds(u) => Holds(u)'
  BY <1>4 DEF Holds
<1>8. ASSUME NEW u \in Task
      PROVE  TaskOK(u, todo'[u], Holds(u)', cache', queue')
  <2>1. CASE u = t
    BY <1>2, <1>5, <2>1, OthersOK
  <2>2. CASE u # t
    BY <1>1, <1>2, <1>5, <1>7, <2>2, OthersOK
  <2> QED
    BY <2>1, <2>2
<1>9. Out!TypeOK'
  BY <1>2 DEF IInv, Out!TypeOK
<1>10. AllCached(OnTheWay', cache')
  BY <1>2 DEF IInv, OnTheWay
<1> QED
  BY <1>2, <1>5, <1>6, <1>8, <1>9, <1>10 DEF IInv

-----------------------------------------------------------------------------
(* The steps each input leads to *)

LEMMA IdTypes ==
  /\ \A m \in Short : Whole(m) \in MsgId /\ CompleteFrame(m) \in Frame
  /\ \A m \in Base : \A i \in Indices(m) :
       Part(m, i) \in MsgId /\ FragmentFrame(m, i) \in Frame
  /\ \A need \in LinkNeed : Whole(need) \in MsgId /\ NeedFrame(need) \in Frame
<1>1. \A m \in Short : Whole(m) \in MsgId /\ CompleteFrame(m) \in Frame
  BY DEF MsgId, Frame
<1>2. \A m \in Base : \A i \in Indices(m) : Part(m, i) \in MsgId
  BY DEF MsgId, Indices
<1>3. \A m \in Base : \A i \in Indices(m) : FragmentFrame(m, i) \in Frame
  BY DEF Frame, Indices
<1>4. \A need \in LinkNeed : Whole(need) \in MsgId /\ NeedFrame(need) \in Frame
  BY DEF MsgId, Frame
<1> QED
  BY <1>1, <1>2, <1>3, <1>4

\* A handler of one step that is no fragment's.
LEMMA OneStepOK ==
  ASSUME NEW t, NEW s \in LinkStep, NEW c, NEW qs,
         s.op # "cache", s.op # "upcall",
         s.op = "queue" => s.frame.kind # "Fragment"
  PROVE  TaskOK(t, <<s>>, FALSE, c, qs) /\ <<s>> # <<>>
<1>1. <<s>> \in Seq(LinkStep) /\ <<s>> # <<>> /\ DOMAIN <<s>> = {1} /\ <<s>>[1] = s
      /\ Len(<<s>>) = 1
  OBVIOUS
<1>2. Promised(<<s>>, c)
  BY <1>1 DEF Promised
<1>3. ~EndsHearing(<<s>>)
  BY <1>1 DEF EndsHearing, Last
<1> QED
  BY <1>1, <1>2, <1>3 DEF TaskOK, Searched

\* Both queues are searched, then the message is handled.
LEMMA HearingOK ==
  ASSUME NEW t, NEW s \in LinkStep, NEW id \in MsgId, NEW c, NEW qs,
         s.op # "queue", id = IdOf(s)
  PROVE  /\ TaskOK(t, CancelBoth(id) \o <<s>>, FALSE, c, qs)
         /\ CancelBoth(id) \o <<s>> # <<>>
<1> DEFINE a == CancelStep(id, "High")
           b == CancelStep(id, "Normal")
           steps == CancelBoth(id) \o <<s>>
<1>2. a \in LinkStep /\ a.op = "cancel" /\ b \in LinkStep /\ b.op = "cancel"
  BY DEF CancelStep, LinkStep, Out!Priority
<1>3. /\ steps \in Seq(LinkStep) /\ steps # <<>>
      /\ Len(steps) = 3 /\ DOMAIN steps = 1 .. 3
      /\ steps[1] = a /\ steps[2] = b /\ steps[3] = s
  <2> HIDE DEF a, b
  <2>1. /\ <<a, b>> \in Seq(LinkStep) /\ Len(<<a, b>>) = 2
        /\ <<a, b>>[1] = a /\ <<a, b>>[2] = b
        /\ <<s>> \in Seq(LinkStep) /\ Len(<<s>>) = 1 /\ <<s>>[1] = s
    BY <1>2
  <2>2. steps = <<a, b>> \o <<s>>
    BY DEF CancelBoth, a, b
  <2> HIDE DEF steps
  <2>3. /\ steps \in Seq(LinkStep) /\ Len(steps) = 3
        /\ \A i \in 1 .. 3 : steps[i] = IF i <= 2 THEN <<a, b>>[i] ELSE <<s>>[i - 2]
    BY <2>1, <2>2, ConcatProperties
  <2>4. steps[1] = a /\ steps[2] = b /\ steps[3] = s
    BY <2>1, <2>3
  <2>5. DOMAIN steps = 1 .. 3
    BY <2>3, LenProperties
  <2>6. steps # <<>>
    BY <2>3, EmptySeq
  <2> QED
    BY <2>3, <2>4, <2>5, <2>6
<1> HIDE DEF steps
<1>4. \A k \in DOMAIN steps : k = 1 \/ k = 2 \/ k = 3
  BY <1>3
<1>5. Promised(steps, c)
  BY <1>2, <1>3, <1>4 DEF Promised
<1>6. Last(steps) = s
  BY <1>3 DEF Last
<1>7. \A p \in Out!Priority :
        \E k \in DOMAIN steps : steps[k] = CancelStep(IdOf(Last(steps)), p)
  <2>1. 1 \in DOMAIN steps /\ 2 \in DOMAIN steps
    BY <1>3
  <2> QED
    BY <1>3, <1>6, <2>1 DEF Out!Priority, a, b
<1>8. \A k \in DOMAIN steps : k # Len(steps) => steps[k].op = "cancel"
  BY <1>2, <1>3, <1>4
<1>9. Searched(steps, FALSE, qs)
  BY <1>7, <1>8 DEF Searched
<1> QED
  BY <1>3, <1>5, <1>9 DEF TaskOK, steps

\* Each number from 1 to twice k is odd or even, and has its fragment.
LEMMA Halves ==
  ASSUME NEW k \in Nat, NEW n \in 1 .. 2 * k
  PROVE  /\ (n - 1) \div 2 \in 0 .. k - 1
         /\ n % 2 # 1 => /\ n - 1 \in 1 .. 2 * k /\ n - 1 < n /\ (n - 1) % 2 = 1
                         /\ (n - 1 - 1) \div 2 = (n - 1) \div 2
OBVIOUS

\* Each fragment is cached before it is queued.
LEMMA SendFragmentsOK ==
  ASSUME NEW c \in Submit, c.base \in Base, NEW d, NEW qs
  PROVE  TaskOK("client", SendFragments(c), FALSE, d, qs) /\ SendFragments(c) # <<>>
<1> DEFINE m == c.base
           k == NumFrag[m]
           steps == SendFragments(c)
           Ndx(n) == (n - 1) \div 2
<1>1. /\ k \in Nat \ {0} /\ Indices(m) = 0 .. k - 1
      /\ c.prio \in Out!Priority /\ c.policy \in Out!Policy
  BY IndicesType, LinkAssumption DEF Indices
<1>2. /\ DOMAIN steps = 1 .. 2 * k
      /\ \A n \in 1 .. 2 * k : steps[n] =
           IF n % 2 = 1 THEN CacheStep(m, Ndx(n), FALSE)
           ELSE QueueStep(Part(m, Ndx(n)), FragmentFrame(m, Ndx(n)), c.prio, c.policy)
  BY DEF SendFragments
<1>3. steps = [n \in 1 .. 2 * k |-> steps[n]]
  BY DEF SendFragments
<1> HIDE DEF steps, k, m
<1>4. \A n \in 1 .. 2 * k : Ndx(n) \in 0 .. k - 1
  BY <1>1, Halves
<1>5. \A n \in 1 .. 2 * k :
        n % 2 # 1 => /\ n - 1 \in 1 .. 2 * k /\ n - 1 < n /\ (n - 1) % 2 = 1
                     /\ Ndx(n - 1) = Ndx(n)
  BY <1>1, Halves
<1> HIDE DEF Ndx
<1>6. ASSUME NEW n \in 1 .. 2 * k
      PROVE  steps[n] \in LinkStep
  <2>1. m \in Base /\ Ndx(n) \in Indices(m) /\ Ndx(n) \in Nat
    BY <1>1, <1>4 DEF m
  <2>2. CacheStep(m, Ndx(n), FALSE) \in LinkStep
    BY <2>1 DEF CacheStep, LinkStep
  <2>3. Part(m, Ndx(n)) \in MsgId /\ FragmentFrame(m, Ndx(n)) \in Frame
    BY <2>1, IdTypes
  <2>4. QueueStep(Part(m, Ndx(n)), FragmentFrame(m, Ndx(n)), c.prio, c.policy) \in LinkStep
    BY <1>1, <2>3 DEF QueueStep, LinkStep
  <2> QED
    BY <1>2, <2>2, <2>4
<1>7. steps \in Seq(LinkStep) /\ steps # <<>>
  <2>1. 2 * k \in Nat /\ 1 \in 1 .. 2 * k
    BY <1>1
  <2>2. steps \in Seq(LinkStep)
    BY <1>3, <1>6, <2>1, IsASeq
  <2> QED
    BY <1>2, <2>1, <2>2, EmptySeq
<1>8. Promised(steps, d)
  <2> SUFFICES ASSUME NEW n \in DOMAIN steps, steps[n].op = "queue"
               PROVE  \E j \in DOMAIN steps :
                        /\ j < n
                        /\ steps[j].op = "cache"
                        /\ steps[j].msgid = steps[n].frame.msgid
                        /\ steps[j].fragndx = steps[n].frame.fragndx
    BY DEF Promised
  <2>1. n \in 1 .. 2 * k
    BY <1>2
  <2>2. n % 2 # 1
    <3>1. CacheStep(m, Ndx(n), FALSE).op # "queue"
      BY DEF CacheStep
    <3> QED
      BY <1>2, <2>1, <3>1
  <2>3. /\ n - 1 \in 1 .. 2 * k /\ n - 1 < n /\ (n - 1) % 2 = 1
        /\ Ndx(n - 1) = Ndx(n)
    BY <1>5, <2>1, <2>2
  <2>4. steps[n - 1] = CacheStep(m, Ndx(n), FALSE)
    BY <1>2, <2>3
  <2>5. steps[n].frame = FragmentFrame(m, Ndx(n))
    <3>1. steps[n] = QueueStep(Part(m, Ndx(n)), FragmentFrame(m, Ndx(n)), c.prio, c.policy)
      BY <1>2, <2>1, <2>2
    <3> QED
      BY <3>1 DEF QueueStep
  <2> QED
    BY <1>2, <2>3, <2>4, <2>5 DEF CacheStep, FragmentFrame
<1> QED
  BY <1>7, <1>8 DEF TaskOK, steps

\* What the client sends.
LEMMA SendOK ==
  ASSUME NEW c \in Submit, NEW d, NEW qs
  PROVE  TaskOK("client", SendLinkMessage(c), FALSE, d, qs) /\ SendLinkMessage(c) # <<>>
<1>1. /\ c.base \in Short \cup Base
      /\ c.prio \in Out!Priority /\ c.policy \in Out!Policy
  BY LinkAssumption
<1>2. CASE c.base \in Short
  <2> DEFINE s == QueueStep(Whole(c.base), CompleteFrame(c.base), c.prio, c.policy)
  <2>1. s \in LinkStep /\ s.op = "queue" /\ s.frame.kind # "Fragment"
    BY <1>1, <1>2, IdTypes DEF LinkStep, QueueStep, CompleteFrame
  <2>2. SendLinkMessage(c) = <<s>>
    BY <1>2 DEF SendLinkMessage, SendComplete
  <2> HIDE DEF s
  <2> QED
    BY <2>1, <2>2, OneStepOK
<1>3. CASE c.base \notin Short
  BY <1>1, <1>3, SendFragmentsOK DEF SendLinkMessage
<1> QED
  BY <1>2, <1>3

LEMMA StartInv ==
  ASSUME IInv, Start
  PROVE  IInv'
<1>1. StartStep \in LinkStep /\ StartStep.op = "start"
  BY DEF StartStep, LinkStep
<1>2. TaskOK("start", <<StartStep>>, FALSE, cache, queue) /\ <<StartStep>> # <<>>
  BY <1>1, OneStepOK
<1> QED
  BY <1>2, LineUpOK DEF Start, Task

LEMMA NeedTickInv ==
  ASSUME IInv, NeedTick
  PROVE  IInv'
<1>1. RetryStep \in LinkStep /\ RetryStep.op = "retry"
  BY DEF RetryStep, LinkStep
<1>2. TaskOK("info", <<RetryStep>>, FALSE, cache, queue) /\ <<RetryStep>> # <<>>
  BY <1>1, OneStepOK
<1> QED
  BY <1>2, LineUpOK DEF NeedTick, Task

LEMMA ClientSendInv ==
  ASSUME IInv, ClientSend
  PROVE  IInv'
<1> PICK c \in Submit : LineUp("client", SendLinkMessage(c))
  BY DEF ClientSend
<1>1. TaskOK("client", SendLinkMessage(c), FALSE, cache, queue) /\ SendLinkMessage(c) # <<>>
  BY SendOK
<1> QED
  BY <1>1, LineUpOK DEF ClientSend, Task

LEMMA ReceiveInv ==
  ASSUME IInv, Receive
  PROVE  IInv'
<1>1. Idle("mesh") /\ "mesh" \in Task
  BY DEF Receive, Task
<1>2. ASSUME NEW m \in Short, LineUp("mesh", HandleComplete(m))
      PROVE  IInv'
  <2>1. /\ UpcallStep(m) \in LinkStep /\ UpcallStep(m).op = "upcall"
        /\ Whole(m) = IdOf(UpcallStep(m))
    BY DEF UpcallStep, LinkStep, IdOf
  <2>2. Whole(m) \in MsgId
    BY IdTypes
  <2>3. TaskOK("mesh", HandleComplete(m), FALSE, cache, queue) /\ HandleComplete(m) # <<>>
    BY <2>1, <2>2, HearingOK DEF HandleComplete
  <2> QED
    BY <1>1, <1>2, <2>3, LineUpOK
<1>3. ASSUME NEW m \in Base, NEW i \in 0 .. NumFrag[m] - 1, LineUp("mesh", HandleFragment(m, i))
      PROVE  IInv'
  <2>1. i \in Nat /\ i \in Indices(m)
    BY IndicesType DEF Indices
  <2>2. /\ CacheStep(m, i, TRUE) \in LinkStep /\ CacheStep(m, i, TRUE).op = "cache"
        /\ Part(m, i) = IdOf(CacheStep(m, i, TRUE))
    BY <2>1 DEF CacheStep, LinkStep, IdOf
  <2>3. Part(m, i) \in MsgId
    BY <2>1, IdTypes
  <2>4. TaskOK("mesh", HandleFragment(m, i), FALSE, cache, queue) /\ HandleFragment(m, i) # <<>>
    BY <2>2, <2>3, HearingOK DEF HandleFragment
  <2> QED
    BY <1>1, <1>3, <2>4, LineUpOK
<1>4. ASSUME NEW r \in LinkMissing, LineUp("mesh", HandleNeed(r.msgid, r.fragndx))
      PROVE  IInv'
  <2>1. r.msgid \in Base /\ r.fragndx \in SUBSET Nat
    BY IndicesType DEF LinkMissing, Indices
  <2>2. FulfillStep(r.msgid, r.fragndx) \in LinkStep
        /\ FulfillStep(r.msgid, r.fragndx).op = "fulfill"
    BY <2>1 DEF FulfillStep, LinkStep
  <2>3. TaskOK("mesh", HandleNeed(r.msgid, r.fragndx), FALSE, cache, queue)
        /\ HandleNeed(r.msgid, r.fragndx) # <<>>
    BY <2>2, OneStepOK DEF HandleNeed
  <2> QED
    BY <1>1, <1>4, <2>3, LineUpOK
<1> QED
  BY <1>2, <1>3, <1>4 DEF Receive

-----------------------------------------------------------------------------
(* The steps of the holder of the link *)

LEMMA StepTypes ==
  ASSUME NEW s \in LinkStep
  PROVE  /\ s.op = "cancel" => s.id \in MsgId /\ s.prio \in Out!Priority
         /\ s.op = "queue" => /\ s.id \in MsgId /\ s.frame \in Frame
                              /\ s.prio \in Out!Priority /\ s.policy \in Out!Policy
         /\ s.op = "cache" => /\ s.msgid \in Base /\ s.fragndx \in Nat
                              /\ s.inbound \in BOOLEAN
         /\ s.op = "upcall" => s.msgid \in Short
         /\ s.op = "fulfill" => s.msgid \in Base /\ s.ndxs \in SUBSET Nat
BY DEF LinkStep

LEMMA HolderHas ==
  ASSUME IInv, NEW t \in Task, Holds(t)
  PROVE  /\ todo[t] \in Seq(LinkStep) /\ todo[t] # <<>>
         /\ Head(todo[t]) \in LinkStep
         /\ TaskOK(t, todo[t], TRUE, cache, queue)
         /\ todo \in [Task -> Seq(LinkStep)]
<1>1. /\ todo \in [Task -> Seq(LinkStep)]
      /\ TaskOK(t, todo[t], Holds(t), cache, queue)
      /\ line \in Seq(Waiters) /\ IsInjective(line)
      /\ \A u \in Task : (u \in Range(line)) <=> (todo[u] # <<>>)
  BY DEF IInv, LineOK
<1>2. Holds(t) = TRUE
  OBVIOUS
<1>3. t \in Range(line)
  BY <1>1, LeavesLine DEF Holds
<1>4. todo[t] \in Seq(LinkStep) /\ todo[t] # <<>>
  BY <1>1, <1>3
<1> QED
  BY <1>1, <1>2, <1>4, Rest

LEMMA TailOK ==
  ASSUME NEW t, NEW steps \in Seq(LinkStep), steps # <<>>,
         NEW c, NEW d, NEW qs, NEW rs,
         TaskOK(t, steps, TRUE, c, qs),
         \A m, i : Cached(c, m, i) => Cached(d, m, i),
         Head(steps).op = "cache" => Cached(d, Head(steps).msgid, Head(steps).fragndx),
         Head(steps).op = "cancel" =>
           /\ \A p \in Out!Priority : Out!Entries(rs[p]) \subseteq Out!Entries(qs[p])
           /\ NoCopy(rs[Head(steps).prio], Head(steps).id)
  PROVE  TaskOK(t, Tail(steps), TRUE, d, rs)
<1>1. Tail(steps) \in Seq(LinkStep)
  BY Rest
<1>2. Promised(Tail(steps), d)
  BY PromisedRest DEF TaskOK
<1>3. ASSUME t = "mesh"
      PROVE  Searched(Tail(steps), TRUE, rs)
  <2>1. Searched(steps, TRUE, qs)
    BY <1>3 DEF TaskOK
  <2>2. CASE Head(steps).op = "cancel"
    BY <2>1, <2>2, SearchedRest
  <2>3. CASE Head(steps).op # "cancel"
    <3>1. ~EndsHearing(Tail(steps))
      BY <2>1, <2>3, NotHearing
    <3> QED
      BY <3>1 DEF Searched
  <2> QED
    BY <2>2, <2>3
<1> QED
  BY <1>1, <1>2, <1>3 DEF TaskOK

\* The entries on their way to the radio stay cached.
LEMMA StayCached ==
  ASSUME NEW es, NEW fs, NEW c, NEW d, AllCached(es, c), fs \subseteq es,
         \A m, i : Cached(c, m, i) => Cached(d, m, i)
  PROVE  AllCached(fs, d)
BY DEF AllCached

LEMMA DoCancelInv ==
  ASSUME IInv, NEW t \in Task, Holds(t), DoCancel(t, Head(todo[t]))
  PROVE  IInv'
<1> DEFINE steps == todo[t]
           s == Head(steps)
<1>1. /\ steps \in Seq(LinkStep) /\ steps # <<>> /\ s \in LinkStep
      /\ TaskOK(t, steps, TRUE, cache, queue)
  BY HolderHas
<1>2. /\ s.op = "cancel" /\ Out!Cancel(s.id, s.prio) /\ Continue(t, Tail(steps))
      /\ UNCHANGED <<cache, told>>
  BY DEF DoCancel
<1>3. s.id \in MsgId /\ s.prio \in Out!Priority
  BY <1>1, <1>2, StepTypes
<1> HIDE DEF s
<1>4. /\ Out!TypeOK'
      /\ held' = held /\ reg' = reg
      /\ \A p \in Out!Priority : Out!Entries(queue'[p]) \subseteq Out!Entries(queue[p])
      /\ \A e \in Out!Entries(queue'[s.prio]) : e.id # s.id
  BY <1>2, <1>3, CancelOut DEF IInv
<1>5. NoCopy(queue'[s.prio], s.id)
  BY <1>4 DEF NoCopy
<1>6. \A m, i : Cached(cache, m, i) => Cached(cache', m, i)
  BY <1>2
<1>7. TaskOK(t, Tail(steps), TRUE, cache', queue')
  BY <1>1, <1>2, <1>4, <1>5, <1>6, TailOK DEF s
<1>8. OnTheWay' \subseteq OnTheWay
  BY <1>4 DEF OnTheWay
<1>9. AllCached(OnTheWay', cache')
  BY <1>6, <1>8, StayCached DEF IInv
<1>10. /\ todo' = [todo EXCEPT ![t] = Tail(steps)]
       /\ line' = IF Tail(steps) = <<>> THEN Tail(line) ELSE line
       /\ dead' = dead
  BY <1>2 DEF Continue
<1>11. CacheOK(cache') /\ dead' \subseteq Task /\ told' \subseteq Short \cup Base
  BY <1>2, <1>10 DEF IInv
<1> QED
  BY <1>4, <1>6, <1>7, <1>9, <1>10, <1>11, HolderGoes

LEMMA DoCacheInv ==
  ASSUME IInv, NEW t \in Task, Holds(t), DoCache(t, Head(todo[t]))
  PROVE  IInv'
<1> DEFINE steps == todo[t]
           s == Head(steps)
           m == s.msgid
           i == s.fragndx
           up == Assembled(cache, FragOf(m, i, 0), s.inbound, 0)
<1>1. /\ steps \in Seq(LinkStep) /\ steps # <<>> /\ s \in LinkStep
      /\ TaskOK(t, steps, TRUE, cache, queue)
  BY HolderHas
<1>2. /\ s.op = "cache"
      /\ cache' = AddFragment(cache, FragOf(m, i, 0), s.inbound, 0)
      /\ told' = told \cup {u.msgid : u \in up}
      /\ Continue(t, Tail(steps))
      /\ UNCHANGED <<queue, notify, wake, reg, held>>
  BY DEF DoCache, outVars
<1>3. m \in Base /\ i \in Nat /\ s.inbound \in BOOLEAN
  BY <1>1, <1>2, StepTypes
<1> HIDE DEF s, m, i
<1>4. 0 \in Rot /\ 0 \in Nat
  BY FragCacheAssumption DEF Rot
<1>5. AddedTo(cache, cache', up, m, i, s.inbound, 0)
  BY <1>2, <1>3, <1>4, AddFragmentOK DEF IInv
<1> HIDE DEF up
<1>6. /\ CacheOK(cache')
      /\ \A u \in up : u.msgid = m
      /\ Cached(cache', m, i)
  BY <1>5 DEF AddedTo, Cached
<1>7. ASSUME NEW b, NEW j, Cached(cache, b, j)
      PROVE  Cached(cache', b, j)
  <2>1. CASE b = m
    BY <1>5, <1>7, <2>1 DEF AddedTo, Cached, Found
  <2>2. CASE b # m
    BY <1>5, <1>7, <2>2 DEF AddedTo, Cached
  <2> QED
    BY <2>1, <2>2
<1>8. TaskOK(t, Tail(steps), TRUE, cache', queue')
  BY <1>1, <1>2, <1>6, <1>7, TailOK DEF s, m, i
<1>9. AllCached(OnTheWay', cache')
  <2>1. OnTheWay' = OnTheWay
    BY <1>2 DEF OnTheWay
  <2> QED
    BY <1>7, <2>1, StayCached DEF IInv
<1>10. /\ todo' = [todo EXCEPT ![t] = Tail(steps)]
       /\ line' = IF Tail(steps) = <<>> THEN Tail(line) ELSE line
       /\ dead' = dead
  BY <1>2 DEF Continue
<1>11. dead' \subseteq Task /\ told' \subseteq Short \cup Base
  BY <1>2, <1>3, <1>6, <1>10 DEF IInv
<1>12. Out!TypeOK' /\ reg' = reg
  BY <1>2 DEF IInv, Out!TypeOK
<1> QED
  BY <1>6, <1>7, <1>8, <1>9, <1>10, <1>11, <1>12, HolderGoes

LEMMA DoUpcallInv ==
  ASSUME IInv, NEW t \in Task, Holds(t), DoUpcall(t, Head(todo[t]))
  PROVE  IInv'
<1> DEFINE steps == todo[t]
           s == Head(steps)
<1>1. /\ steps \in Seq(LinkStep) /\ steps # <<>> /\ s \in LinkStep
      /\ TaskOK(t, steps, TRUE, cache, queue)
  BY HolderHas
<1>2. /\ s.op = "upcall" /\ told' = told \cup {s.msgid} /\ Continue(t, Tail(steps))
      /\ UNCHANGED <<queue, notify, wake, reg, held, cache>>
  BY DEF DoUpcall, outVars
<1>3. s.msgid \in Short
  BY <1>1, <1>2, StepTypes
<1> HIDE DEF s
<1>4. \A m, i : Cached(cache, m, i) => Cached(cache', m, i)
  BY <1>2
<1>5. TaskOK(t, Tail(steps), TRUE, cache', queue')
  BY <1>1, <1>2, <1>4, TailOK DEF s
<1>6. AllCached(OnTheWay', cache')
  BY <1>2 DEF IInv, OnTheWay
<1>7. /\ todo' = [todo EXCEPT ![t] = Tail(steps)]
      /\ line' = IF Tail(steps) = <<>> THEN Tail(line) ELSE line
      /\ dead' = dead
  BY <1>2 DEF Continue
<1>8. CacheOK(cache') /\ dead' \subseteq Task /\ told' \subseteq Short \cup Base
  BY <1>2, <1>3, <1>7 DEF IInv
<1>9. Out!TypeOK' /\ reg' = reg
  BY <1>2 DEF IInv, Out!TypeOK
<1> QED
  BY <1>4, <1>5, <1>6, <1>7, <1>8, <1>9, HolderGoes

LEMMA DoQueueInv ==
  ASSUME IInv, NEW t \in Task, Holds(t), DoQueue(t, Head(todo[t]))
  PROVE  IInv'
<1> DEFINE steps == todo[t]
           s == Head(steps)
           e == [id |-> s.id, policy |-> s.policy, frame |-> s.frame]
<1>1. /\ steps \in Seq(LinkStep) /\ steps # <<>> /\ s \in LinkStep
      /\ TaskOK(t, steps, TRUE, cache, queue)
      /\ s = steps[1] /\ 1 \in DOMAIN steps /\ \A j \in DOMAIN steps : ~(j < 1)
  <2>1. /\ steps \in Seq(LinkStep) /\ steps # <<>> /\ s \in LinkStep
        /\ TaskOK(t, steps, TRUE, cache, queue)
    BY HolderHas
  <2>2. /\ s = steps[1] /\ DOMAIN steps = 1 .. Len(steps)
        /\ Len(steps) \in Nat /\ Len(steps) >= 1
    BY <2>1, Rest
  <2> HIDE DEF steps
  <2>3. 1 \in 1 .. Len(steps) /\ \A j \in 1 .. Len(steps) : ~(j < 1)
    BY <2>2
  <2> QED
    BY <2>1, <2>2, <2>3
<1>2. /\ s.op = "queue"
      /\ \/ Out!Enqueue(s.id, s.frame, s.prio, s.policy)
         \/ Out!EnqueueRefused(s.id, s.prio, s.policy)
      /\ IF Out!EnqueuePanics THEN Die(t) ELSE Continue(t, Tail(steps))
      /\ UNCHANGED <<cache, told>>
  BY DEF DoQueue
<1>3. /\ s.id \in MsgId /\ s.frame \in Frame
      /\ s.prio \in Out!Priority /\ s.policy \in Out!Policy
  BY <1>1, <1>2, StepTypes
<1> HIDE DEF s
<1>4. /\ Out!TypeOK'
      /\ held' = held /\ reg' = reg
      /\ \A p \in Out!Priority :
           Out!Entries(queue'[p]) \subseteq Out!Entries(queue[p]) \cup {e}
  <2>1. CASE Out!Enqueue(s.id, s.frame, s.prio, s.policy)
    BY <1>3, <2>1, EnqueueOut DEF IInv
  <2>2. CASE Out!EnqueueRefused(s.id, s.prio, s.policy)
    <3>1. UNCHANGED <<queue, notify, wake, reg, held>>
      BY <2>2 DEF Out!EnqueueRefused, Out!vars
    <3> QED
      BY <3>1 DEF IInv, Out!TypeOK
  <2> QED
    BY <1>2, <2>1, <2>2
<1>5. e.frame.kind = "Fragment" => Cached(cache, e.frame.msgid, e.frame.fragndx)
  BY <1>1, <1>2 DEF TaskOK, Promised
<1> HIDE DEF e
<1>6. \A m, i : Cached(cache, m, i) => Cached(cache', m, i)
  BY <1>2
<1>7. AllCached(OnTheWay', cache')
  <2>1. OnTheWay' \subseteq OnTheWay \cup {e}
    BY <1>4 DEF OnTheWay
  <2> QED
    BY <1>2, <1>5, <2>1 DEF IInv, AllCached
<1>8. CacheOK(cache') /\ told' \subseteq Short \cup Base
  BY <1>2 DEF IInv
<1>9. CASE Out!EnqueuePanics
  <2>1. /\ todo' = [todo EXCEPT ![t] = <<>>]
        /\ line' = Tail(line)
        /\ dead' = dead \cup {t}
    BY <1>2, <1>9 DEF Die
  <2>2. TaskOK(t, <<>>, TRUE, cache', queue')
    BY EmptyOK
  <2>3. dead' \subseteq Task
    BY <2>1 DEF IInv
  <2> QED
    BY <1>4, <1>6, <1>7, <1>8, <2>1, <2>2, <2>3, HolderGoes
<1>10. CASE ~Out!EnqueuePanics
  <2>1. /\ todo' = [todo EXCEPT ![t] = Tail(steps)]
        /\ line' = IF Tail(steps) = <<>> THEN Tail(line) ELSE line
        /\ dead' = dead
    BY <1>2, <1>10 DEF Continue
  <2>2. TaskOK(t, Tail(steps), TRUE, cache', queue')
    BY <1>1, <1>2, <1>6, TailOK DEF s
  <2>3. dead' \subseteq Task
    BY <2>1 DEF IInv
  <2> QED
    BY <1>4, <1>6, <1>7, <1>8, <2>1, <2>2, <2>3, HolderGoes
<1> QED
  BY <1>9, <1>10

\* Cached fragments may be queued before what was left.
LEMMA QueuesFirst ==
  ASSUME NEW r \in Seq(LinkStep), NEW u \in Seq(LinkStep), NEW c,
         \A k \in DOMAIN r :
           r[k].op = "queue" /\ Cached(c, r[k].frame.msgid, r[k].frame.fragndx),
         Promised(u, c)
  PROVE  /\ r \o u \in Seq(LinkStep)
         /\ Promised(r \o u, c)
         /\ ~EndsHearing(u) => ~EndsHearing(r \o u)
<1> DEFINE v == r \o u
           k == Len(r)
<1>1. /\ v \in Seq(LinkStep) /\ Len(v) = k + Len(u) /\ DOMAIN v = 1 .. k + Len(u)
      /\ \A i \in 1 .. k + Len(u) : v[i] = IF i <= k THEN r[i] ELSE u[i - k]
      /\ k \in Nat /\ Len(u) \in Nat /\ DOMAIN r = 1 .. k /\ DOMAIN u = 1 .. Len(u)
  BY ConcatProperties, LenProperties
<1> HIDE DEF v, k
<1>2. ASSUME NEW i \in DOMAIN v
      PROVE  \/ i \in DOMAIN r /\ v[i] = r[i]
             \/ i - k \in DOMAIN u /\ v[i] = u[i - k]
  BY <1>1
<1>3. ASSUME NEW j \in DOMAIN u
      PROVE  j + k \in DOMAIN v /\ v[j + k] = u[j]
  <2>1. j + k \in 1 .. k + Len(u) /\ ~(j + k <= k) /\ (j + k) - k = j
    BY <1>1
  <2> QED
    BY <1>1, <2>1
<1>4. Promised(v, c)
  <2> SUFFICES ASSUME NEW i \in DOMAIN v, v[i].op = "queue", v[i].frame.kind = "Fragment"
               PROVE  \/ Cached(c, v[i].frame.msgid, v[i].frame.fragndx)
                      \/ \E j \in DOMAIN v :
                           /\ j < i
                           /\ v[j].op = "cache"
                           /\ v[j].msgid = v[i].frame.msgid
                           /\ v[j].fragndx = v[i].frame.fragndx
    BY DEF Promised
  <2>1. CASE i \in DOMAIN r /\ v[i] = r[i]
    BY <2>1
  <2>2. CASE i - k \in DOMAIN u /\ v[i] = u[i - k]
    <3>1. CASE Cached(c, v[i].frame.msgid, v[i].frame.fragndx)
      BY <3>1
    <3>2. ASSUME NEW j \in DOMAIN u, j < i - k, u[j].op = "cache",
                 u[j].msgid = v[i].frame.msgid, u[j].fragndx = v[i].frame.fragndx
          PROVE  \E l \in DOMAIN v :
                   /\ l < i
                   /\ v[l].op = "cache"
                   /\ v[l].msgid = v[i].frame.msgid
                   /\ v[l].fragndx = v[i].frame.fragndx
      <4>1. j + k < i
        BY <1>1, <3>2
      <4> QED
        BY <1>3, <3>2, <4>1
    <3> QED
      BY <2>2, <3>1, <3>2 DEF Promised
  <2> QED
    BY <1>2, <2>1, <2>2
<1>5. ~EndsHearing(u) => ~EndsHearing(v)
  <2> SUFFICES ASSUME ~EndsHearing(u), v # <<>>
               PROVE  Last(v).op \notin {"cache", "upcall"}
    BY DEF EndsHearing
  <2>1. Len(v) \in DOMAIN v
    BY <1>1, EmptySeq
  <2>2. CASE Len(v) \in DOMAIN r /\ v[Len(v)] = r[Len(v)]
    BY <2>2 DEF Last
  <2>3. CASE Len(v) - k \in DOMAIN u /\ v[Len(v)] = u[Len(v) - k]
    <3>1. Len(v) - k = Len(u) /\ u # <<>>
      BY <1>1, <2>3
    <3> QED
      BY <2>3, <3>1 DEF EndsHearing, Last
  <2> QED
    BY <1>2, <2>1, <2>2, <2>3
<1> QED
  BY <1>1, <1>4, <1>5 DEF v

\* What is resent is cached.
LEMMA ResendStepsOK ==
  ASSUME CacheOK(cache), NEW m \in Base, NEW ndxs
  PROVE  /\ ResendSteps(m, ndxs) \in Seq(LinkStep)
         /\ \A k \in DOMAIN ResendSteps(m, ndxs) :
              LET s == ResendSteps(m, ndxs)[k]
              IN  s.op = "queue" /\ Cached(cache, s.frame.msgid, s.frame.fragndx)
<1> DEFINE sent == Available(cache, m, ndxs)
           r == ResendSteps(m, ndxs)
           S(n) == QueueStep(Part(m, Out!Nth(sent, n)), FragmentFrame(m, Out!Nth(sent, n)),
                             "High", NormalPolicy)
<1>1. sent \subseteq Indices(m)
  BY DEF Available, CacheOK, PartialOK
<1>2. Indices(m) \subseteq Nat /\ IsFiniteSet(Indices(m))
  <2>1. NumFrag[m] \in Nat \ {0} /\ Indices(m) \subseteq Nat
    BY IndicesType
  <2> QED
    BY <2>1, FS_Interval DEF Indices
<1>3. sent \in SUBSET Int /\ IsFiniteSet(sent) /\ Cardinality(sent) \in Nat
  BY <1>1, <1>2, FS_Subset, FS_CardinalityType
<1>4. \A n \in 1 .. Cardinality(sent) : Out!Nth(sent, n) \in sent
  BY <1>3, OutNth
<1>5. \A i \in sent : Cached(cache, m, i)
  BY DEF Available, Cached, Missing
<1>6. r = [n \in 1 .. Cardinality(sent) |-> S(n)]
  BY DEF ResendSteps
<1> HIDE DEF sent, r
<1>7. ASSUME NEW n \in 1 .. Cardinality(sent)
      PROVE  /\ S(n) \in LinkStep /\ S(n).op = "queue"
             /\ Cached(cache, S(n).frame.msgid, S(n).frame.fragndx)
  <2>1. PICK i \in sent : i = Out!Nth(sent, n)
    BY <1>4
  <2>2. Part(m, i) \in MsgId /\ FragmentFrame(m, i) \in Frame
    BY <1>1, IdTypes
  <2>3. "High" \in Out!Priority /\ NormalPolicy \in Out!Policy
    BY DEF Out!Priority, Out!Policy, NormalPolicy
  <2>4. /\ QueueStep(Part(m, i), FragmentFrame(m, i), "High", NormalPolicy) \in LinkStep
        /\ QueueStep(Part(m, i), FragmentFrame(m, i), "High", NormalPolicy).op = "queue"
        /\ QueueStep(Part(m, i), FragmentFrame(m, i), "High", NormalPolicy).frame
             = FragmentFrame(m, i)
    BY <2>2, <2>3 DEF QueueStep, LinkStep
  <2>5. FragmentFrame(m, i).msgid = m /\ FragmentFrame(m, i).fragndx = i
    BY DEF FragmentFrame
  <2> QED
    BY <1>5, <2>1, <2>4, <2>5
<1> HIDE DEF S
<1>8. r \in Seq(LinkStep)
  BY <1>3, <1>6, <1>7, IsASeq
<1>9. \A n \in DOMAIN r : n \in 1 .. Cardinality(sent) /\ r[n] = S(n)
  BY <1>6
<1> QED
  BY <1>7, <1>8, <1>9 DEF r

LEMMA DoFulfillInv ==
  ASSUME IInv, NEW t \in Task, Holds(t), DoFulfill(t, Head(todo[t]))
  PROVE  IInv'
<1> DEFINE steps == todo[t]
           s == Head(steps)
           r == ResendSteps(s.msgid, s.ndxs)
           new == r \o Tail(steps)
<1>1. /\ steps \in Seq(LinkStep) /\ steps # <<>> /\ s \in LinkStep
      /\ TaskOK(t, steps, TRUE, cache, queue)
  BY HolderHas
<1>2. /\ s.op = "fulfill" /\ cache' = Fulfilled(cache, s.msgid, s.ndxs)
      /\ Continue(t, new)
      /\ UNCHANGED <<queue, notify, wake, reg, held, told>>
  BY DEF DoFulfill, outVars
<1>3. s.msgid \in Base
  BY <1>1, <1>2, StepTypes
<1> HIDE DEF s
<1>4. CacheOK(cache)
  BY DEF IInv
<1>5. /\ CacheOK(cache')
      /\ DOMAIN cache' = DOMAIN cache
      /\ \A m \in DOMAIN cache : Missing(cache'[m]) = Missing(cache[m])
  BY <1>2, <1>3, <1>4, FulfilledOK
<1>6. /\ \A m, i : Cached(cache, m, i) => Cached(cache', m, i)
  BY <1>5 DEF Cached
<1>7. TaskOK(t, Tail(steps), TRUE, cache', queue')
  BY <1>1, <1>2, <1>6, TailOK DEF s
<1>8. TaskOK(t, new, TRUE, cache', queue')
  <2>1. /\ r \in Seq(LinkStep)
        /\ \A k \in DOMAIN r :
             r[k].op = "queue" /\ Cached(cache, r[k].frame.msgid, r[k].frame.fragndx)
    BY <1>3, <1>4, ResendStepsOK
  <2> HIDE DEF r
  <2>2. CASE t # "mesh"
    <3>1. Tail(steps) \in Seq(LinkStep) /\ Promised(Tail(steps), cache')
      BY <1>7 DEF TaskOK
    <3>2. new \in Seq(LinkStep) /\ Promised(new, cache')
      BY <1>6, <2>1, <3>1, QueuesFirst
    <3> QED
      BY <2>2, <3>2 DEF TaskOK
  <2>3. CASE t = "mesh"
    <3>1. Searched(steps, TRUE, queue)
      BY <1>1, <2>3 DEF TaskOK
    <3>2. ~EndsHearing(Tail(steps))
      BY <1>1, <1>2, <3>1, NotHearing DEF s
    <3>3. Tail(steps) \in Seq(LinkStep) /\ Promised(Tail(steps), cache')
      BY <1>7 DEF TaskOK
    <3>4. new \in Seq(LinkStep) /\ Promised(new, cache') /\ ~EndsHearing(new)
      BY <1>6, <2>1, <3>2, <3>3, QueuesFirst
    <3> QED
      BY <3>4 DEF TaskOK, Searched
  <2> QED
    BY <2>2, <2>3
<1> HIDE DEF new
<1>9. AllCached(OnTheWay', cache')
  <2>1. OnTheWay' = OnTheWay
    BY <1>2 DEF OnTheWay
  <2> QED
    BY <1>6, <2>1, StayCached DEF IInv
<1>10. /\ todo' = [todo EXCEPT ![t] = new]
       /\ line' = IF new = <<>> THEN Tail(line) ELSE line
       /\ dead' = dead
  BY <1>2 DEF Continue
<1>11. dead' \subseteq Task /\ told' \subseteq Short \cup Base
  BY <1>2, <1>10 DEF IInv
<1>12. Out!TypeOK' /\ reg' = reg
  BY <1>2 DEF IInv, Out!TypeOK
<1> QED
  BY <1>5, <1>6, <1>8, <1>9, <1>10, <1>11, <1>12, HolderGoes

\* A step with nothing left to do but, maybe, to queue one frame that is not a
\* fragment.
LEMMA OneMoreOK ==
  ASSUME NEW t, NEW s \in LinkStep, s.op = "queue", s.frame.kind # "Fragment", NEW c, NEW qs
  PROVE  TaskOK(t, <<s>>, TRUE, c, qs)
<1>1. <<s>> \in Seq(LinkStep) /\ DOMAIN <<s>> = {1} /\ <<s>>[1] = s /\ Len(<<s>>) = 1
  OBVIOUS
<1>2. Promised(<<s>>, c)
  BY <1>1 DEF Promised
<1>3. ~EndsHearing(<<s>>)
  BY <1>1 DEF EndsHearing, Last
<1> QED
  BY <1>1, <1>2, <1>3 DEF TaskOK, Searched

LEMMA DoRetryInv ==
  ASSUME IInv, NEW t \in Task, Holds(t), DoRetry(t, Head(todo[t]))
  PROVE  IInv'
<1> DEFINE Need(due) == {[msgid |-> m, fragndx |-> Missing(cache[m])] : m \in due}
           Ask(need) == QueueStep(Whole(need), NeedFrame(need), "High", NormalPolicy)
           Due == {m \in DOMAIN cache : Missing(cache[m]) # {}}
<1>1. /\ \/ Continue(t, <<>>)
         \/ \E due \in (SUBSET Due) \ {{}} : Continue(t, <<Ask(Need(due))>>)
      /\ UNCHANGED <<queue, notify, wake, reg, held, cache, told>>
  BY DEF DoRetry, outVars
<1>2. ASSUME NEW due \in (SUBSET Due) \ {{}}
      PROVE  TaskOK(t, <<Ask(Need(due))>>, TRUE, cache', queue')
  <2>1. ASSUME NEW m \in due
        PROVE  [msgid |-> m, fragndx |-> Missing(cache[m])] \in LinkMissing
    <3>1. m \in Base /\ m \in DOMAIN cache /\ Missing(cache[m]) # {}
      BY <2>1 DEF IInv, CacheOK
    <3>2. Missing(cache[m]) \subseteq 0 .. NumFrag[m] - 1
      BY <3>1 DEF IInv, CacheOK, PartialOK, Missing, Indices
    <3>3. [msgid |-> m, fragndx |-> Missing(cache[m])]
            \in [msgid : {m}, fragndx : (SUBSET (0 .. NumFrag[m] - 1)) \ {{}}]
      BY <3>1, <3>2
    <3> QED
      BY <3>1, <3>3 DEF LinkMissing
  <2>2. Need(due) \in LinkNeed
    <3>1. Need(due) \subseteq LinkMissing /\ Need(due) # {}
      BY <2>1
    <3> QED
      BY <3>1 DEF LinkNeed
  <2> HIDE DEF Need
  <2>3. Whole(Need(due)) \in MsgId /\ NeedFrame(Need(due)) \in Frame
    BY <2>2, IdTypes
  <2>4. "High" \in Out!Priority /\ NormalPolicy \in Out!Policy
    BY DEF Out!Priority, Out!Policy, NormalPolicy
  <2>5. Ask(Need(due)) \in LinkStep /\ Ask(Need(due)).op = "queue"
    BY <2>3, <2>4 DEF QueueStep, LinkStep
  <2>6. Ask(Need(due)).frame.kind # "Fragment"
    BY DEF QueueStep, NeedFrame
  <2> QED
    BY <2>5, <2>6, OneMoreOK
<1> HIDE DEF Due, Ask, Need
<1>3. PICK new : TaskOK(t, new, TRUE, cache', queue') /\ Continue(t, new)
  BY <1>1, <1>2, EmptyOK
<1>4. /\ todo' = [todo EXCEPT ![t] = new]
      /\ line' = IF new = <<>> THEN Tail(line) ELSE line
      /\ dead' = dead
  BY <1>3 DEF Continue
<1>5. CacheOK(cache') /\ dead' \subseteq Task /\ told' \subseteq Short \cup Base
  BY <1>1, <1>4 DEF IInv
<1>6. Out!TypeOK' /\ reg' = reg
  BY <1>1 DEF IInv, Out!TypeOK
<1>7. \A m, i : Cached(cache, m, i) => Cached(cache', m, i)
  BY <1>1
<1>8. AllCached(OnTheWay', cache')
  BY <1>1 DEF IInv, OnTheWay
<1> QED
  BY <1>3, <1>4, <1>5, <1>6, <1>7, <1>8, HolderGoes

LEMMA DoStartInv ==
  ASSUME IInv, NEW t \in Task, Holds(t), DoStart(t, Head(todo[t]))
  PROVE  IInv'
<1>1. /\ ~notify /\ notify' = TRUE /\ reg' = "look"
      /\ UNCHANGED <<queue, wake, held, cache, told>>
      /\ todo' = [todo EXCEPT ![t] = <<>>]
      /\ line' = Tail(line)
      /\ dead' = dead
  BY DEF DoStart, Out!StartRegulator, Continue
<1>2. reg = "off"
  BY <1>1 DEF IInv, Out!TypeOK
<1>3. Out!TypeOK'
  BY <1>1, <1>2 DEF IInv, Out!TypeOK
<1>4. TaskOK(t, <<>>, TRUE, cache', queue')
  BY EmptyOK
<1>5. \A m, i : Cached(cache, m, i) => Cached(cache', m, i)
  BY <1>1
<1>6. AllCached(OnTheWay', cache')
  BY <1>1 DEF IInv, OnTheWay
<1>7. CacheOK(cache') /\ dead' \subseteq Task /\ told' \subseteq Short \cup Base
  BY <1>1 DEF IInv
<1> QED
  BY <1>1, <1>2, <1>3, <1>4, <1>5, <1>6, <1>7, HolderGoes

LEMMA StepInv ==
  ASSUME IInv, NEW t \in Task, Step(t)
  PROVE  IInv'
<1>1. Holds(t)
  BY DEF Step
<1>2. \/ DoCancel(t, Head(todo[t]))
      \/ DoQueue(t, Head(todo[t]))
      \/ DoCache(t, Head(todo[t]))
      \/ DoUpcall(t, Head(todo[t]))
      \/ DoFulfill(t, Head(todo[t]))
      \/ DoRetry(t, Head(todo[t]))
      \/ DoStart(t, Head(todo[t]))
  BY DEF Step
<1> QED
  BY <1>1, <1>2, DoCancelInv, DoQueueInv, DoCacheInv, DoUpcallInv, DoFulfillInv,
     DoRetryInv, DoStartInv

-----------------------------------------------------------------------------
(* The steps of the regulator *)

LEMMA RegAskInv ==
  ASSUME IInv, RegAsk
  PROVE  IInv'
<1>1. /\ line \in Seq(Waiters) /\ IsInjective(line)
      /\ \A u \in Task : (u \in Range(line)) <=> (todo[u] # <<>>)
      /\ todo \in [Task -> Seq(LinkStep)]
      /\ \A u \in Task : TaskOK(u, todo[u], Holds(u), cache, queue)
  BY DEF IInv, LineOK
<1>2. /\ reg = "send" /\ "reg" \notin Range(line)
      /\ line' = Append(line, "reg")
      /\ UNCHANGED <<queue, notify, wake, reg, held, cache, todo, dead, told>>
  BY DEF RegAsk, outVars
<1>3. "reg" \in Waiters /\ "reg" \notin Task
  BY DEF Waiters, Task
<1>4. /\ line' \in Seq(Waiters) /\ IsInjective(line')
      /\ Range(line') = Range(line) \cup {"reg"}
      /\ line' # <<>>
      /\ line # <<>> => Head(line') = Head(line)
  BY <1>1, <1>2, <1>3, JoinsLine
<1>5. LineOK'
  BY <1>1, <1>2, <1>3, <1>4 DEF LineOK
<1>6. \A u \in Task : Holds(u) => Holds(u)'
  BY <1>4 DEF Holds
<1>7. \A u \in Task : TaskOK(u, todo'[u], Holds(u)', cache', queue')
  BY <1>1, <1>2, <1>6, OthersOK
<1>8. Out!TypeOK' /\ AllCached(OnTheWay', cache')
  BY <1>2 DEF IInv, Out!TypeOK, OnTheWay
<1> QED
  BY <1>2, <1>5, <1>7, <1>8 DEF IInv

LEMMA RegSendInv ==
  ASSUME IInv, RegSend
  PROVE  IInv'
<1>1. /\ line \in Seq(Waiters) /\ IsInjective(line)
      /\ \A u \in Task : (u \in Range(line)) <=> (todo[u] # <<>>)
      /\ todo \in [Task -> Seq(LinkStep)]
      /\ \A u \in Task : TaskOK(u, todo[u], Holds(u), cache, queue)
  BY DEF IInv, LineOK
<1>2. /\ line # <<>> /\ Head(line) = "reg"
      /\ line' = Tail(line)
      /\ reg = "send" /\ reg' = "pause" /\ held' = {}
      /\ UNCHANGED <<queue, notify, wake, cache, todo, dead, told>>
  BY DEF RegSend, Out!RegSend, Holds
<1>3. "reg" \notin Task
  BY DEF Task
<1>4. /\ line' \in Seq(Waiters) /\ IsInjective(line')
      /\ Range(line') = Range(line) \ {"reg"}
  BY <1>1, <1>2, LeavesLine
<1>5. LineOK'
  BY <1>1, <1>2, <1>3, <1>4 DEF LineOK
<1>6. ASSUME NEW u \in Task
      PROVE  TaskOK(u, todo'[u], Holds(u)', cache', queue')
  <2>1. Holds(u) = FALSE
    BY <1>2, <1>3 DEF Holds
  <2>2. TaskOK(u, todo[u], FALSE, cache, queue)
    BY <1>1, <2>1
  <2> QED
    BY <1>2, <2>2, OthersOK
<1>7. Out!TypeOK'
  BY <1>2 DEF IInv, Out!TypeOK
<1>8. AllCached(OnTheWay', cache')
  <2>1. OnTheWay' \subseteq OnTheWay
    BY <1>2 DEF OnTheWay
  <2> QED
    BY <1>2, <2>1 DEF IInv, AllCached
<1> QED
  BY <1>2, <1>5, <1>6, <1>7, <1>8 DEF IInv

LEMMA RegOtherInv ==
  ASSUME IInv, RegOther
  PROVE  IInv'
<1>1. /\ line \in Seq(Waiters) /\ IsInjective(line)
      /\ \A u \in Task : (u \in Range(line)) <=> (todo[u] # <<>>)
      /\ "reg" \in Range(line) => reg = "send"
      /\ todo \in [Task -> Seq(LinkStep)]
      /\ \A u \in Task : TaskOK(u, todo[u], Holds(u), cache, queue)
  BY DEF IInv, LineOK
<1>2. UNCHANGED <<cache, line, todo, dead, told>>
  BY DEF RegOther
<1>3. /\ Out!TypeOK' /\ reg # "send"
      /\ \A p \in Out!Priority : Out!Entries(queue'[p]) \subseteq Out!Entries(queue[p])
      /\ held' \subseteq held \cup UNION {Out!Entries(queue[p]) : p \in Out!Priority}
  BY RegOtherOut DEF IInv, RegOther
<1>4. LineOK'
  BY <1>1, <1>2, <1>3 DEF LineOK
<1>5. \A u \in Task : Holds(u) => Holds(u)'
  BY <1>2 DEF Holds
<1>6. ASSUME NEW u \in Task
      PROVE  TaskOK(u, todo'[u], Holds(u)', cache', queue')
  <2>1. /\ TaskOK(u, todo[u], Holds(u), cache, queue)
        /\ Holds(u) => Holds(u)'
        /\ \A m, i : Cached(cache, m, i) => Cached(cache', m, i)
        /\ todo'[u] = todo[u]
    BY <1>1, <1>2, <1>5
  <2> QED
    BY <1>3, <2>1, OthersOK
<1>7. AllCached(OnTheWay', cache')
  <2>1. OnTheWay' \subseteq OnTheWay
    BY <1>3 DEF OnTheWay
  <2> QED
    BY <1>2, <2>1 DEF IInv, AllCached
<1> QED
  BY <1>2, <1>3, <1>4, <1>6, <1>7 DEF IInv

-----------------------------------------------------------------------------

LEMMA InitInv == Init => IInv
<1> SUFFICES ASSUME Init
             PROVE  IInv
  OBVIOUS
<1>1. /\ queue = [p \in Out!Priority |-> <<>>]
      /\ notify = FALSE /\ wake = 0 /\ reg = "off" /\ held = {}
      /\ cache = [b \in {} |-> 0]
      /\ line = <<>> /\ todo = [t \in Task |-> <<>>] /\ dead = {} /\ told = {}
  BY DEF Init, Out!Init
<1>2. /\ <<>> \in Seq(Out!Entry) /\ <<>> \in Seq(Waiters) /\ <<>> \in Seq(LinkStep)
      /\ DOMAIN <<>> = {}
  OBVIOUS
<1>3. Len(<<>>) <= OutgoingQueueMax + 1
  BY EmptySeq, LinkAssumption
<1>4. Out!TypeOK
  <2>1. 0 \in 0 .. MaxWake
    BY LinkAssumption
  <2> QED
    BY <1>1, <1>2, <1>3, <2>1 DEF Out!TypeOK
<1>5. CacheOK(cache)
  BY <1>1 DEF CacheOK
<1>6. LineOK
  BY <1>1, <1>2 DEF LineOK, IsInjective, Range
<1>7. \A t \in Task : TaskOK(t, todo[t], Holds(t), cache, queue)
  BY <1>1, EmptyOK
<1>8. AllCached(OnTheWay, cache)
  BY <1>1, <1>2 DEF AllCached, OnTheWay, Out!Entries
<1> QED
  BY <1>1, <1>2, <1>4, <1>5, <1>6, <1>7, <1>8 DEF IInv

LEMMA NextInv == IInv /\ [Next]_vars => IInv'
<1> SUFFICES ASSUME IInv, [Next]_vars
             PROVE  IInv'
  OBVIOUS
<1>1. CASE Start
  BY <1>1, StartInv
<1>2. CASE Receive
  BY <1>2, ReceiveInv
<1>3. CASE ClientSend
  BY <1>3, ClientSendInv
<1>4. CASE NeedTick
  BY <1>4, NeedTickInv
<1>5. ASSUME NEW t \in Task, Step(t)
      PROVE  IInv'
  BY <1>5, StepInv
<1>6. CASE RegAsk
  BY <1>6, RegAskInv
<1>7. CASE RegSend
  BY <1>7, RegSendInv
<1>8. CASE RegOther
  BY <1>8, RegOtherInv
<1>9. CASE UNCHANGED vars
  <2>1. UNCHANGED <<queue, notify, wake, reg, held, cache, line, todo, dead, told>>
    BY <1>9 DEF vars
  <2>2. Out!TypeOK' /\ LineOK' /\ AllCached(OnTheWay', cache')
    BY <2>1 DEF IInv, Out!TypeOK, LineOK, OnTheWay
  <2>3. \A u \in Task : TaskOK(u, todo'[u], Holds(u)', cache', queue')
    BY <2>1 DEF IInv, Holds
  <2> QED
    BY <2>1, <2>2, <2>3 DEF IInv
<1> QED
  BY <1>1, <1>2, <1>3, <1>4, <1>5, <1>6, <1>7, <1>8, <1>9 DEF Next, Regulator

LEMMA AlwaysInv == Spec => []IInv
BY InitInv, NextInv, PTL DEF Spec

\* TypeOK, for every instance: above all that a task is in line for the mutex
\* exactly while its handler has steps left, so that none keeps the link locked
\* behind its back and none works on it unlocked (link.rs:316,355,388,479,497).
THEOREM TypeCorrect == Spec => []TypeOK
<1>1. IInv => TypeOK
  <2> SUFFICES ASSUME IInv
               PROVE  TypeOK
    OBVIOUS
  <2>1. Range(line) \subseteq Task \cup {"reg"}
    BY LenProperties DEF IInv, LineOK, Waiters, Range
  <2> QED
    BY <2>1 DEF IInv, LineOK, CacheOK, TypeOK
<1> QED
  BY <1>1, AlwaysInv, PTL

\* SentIsCached, for every instance: whatever is queued, purged, cancelled,
\* refused or resent, a fragment on its way to the radio can be asked for again
\* (link.rs:497-521,399-423).
THEOREM ResendsAnswerable == Spec => []SentIsCached
<1>1. IInv => SentIsCached
  BY DEF IInv, SentIsCached, AllCached, OnTheWay, Cached
<1> QED
  BY <1>1, AlwaysInv, PTL

\* A step that ends the handling of what the mesh listener heard is its last one,
\* and leaves the queues alone.
LEMMA HearingEnds ==
  ASSUME IInv, Next, Holds("mesh"), Head(todo["mesh"]).op \in {"cache", "upcall"},
         todo'["mesh"] = <<>>
  PROVE  Tail(todo["mesh"]) = <<>> /\ queue' = queue
<1> DEFINE s == Head(todo["mesh"])
<1>1. /\ "mesh" \in Task /\ todo["mesh"] # <<>>
      /\ todo \in [Task -> Seq(LinkStep)]
      /\ s.op = "cache" \/ s.op = "upcall"
  BY HolderHas DEF Task
<1>2. \A t \in Task : Holds(t) => t = "mesh"
  BY DEF Holds
<1>3. ASSUME NEW t \in Task, NEW steps, LineUp(t, steps)
      PROVE  t = "mesh"
  BY <1>1, <1>3 DEF LineUp
<1>4. ~(Start \/ Receive \/ ClientSend \/ NeedTick)
  BY <1>1, <1>3 DEF Start, Receive, ClientSend, NeedTick, Idle, Task
<1>5. ~Regulator
  BY <1>1 DEF Regulator, RegAsk, RegSend, RegOther
<1>6. Step("mesh")
  BY <1>2, <1>4, <1>5 DEF Next, Step
<1>7. DoCache("mesh", s) \/ DoUpcall("mesh", s)
  BY <1>1, <1>6 DEF Step, DoCancel, DoQueue, DoFulfill, DoRetry, DoStart
<1>8. Continue("mesh", Tail(todo["mesh"])) /\ queue' = queue
  BY <1>7 DEF DoCache, DoUpcall, outVars
<1> QED
  BY <1>1, <1>8 DEF Continue

\* NoQueuedCopy, for every instance: when the link is done with what it heard, no
\* copy of it waits in either queue (link.rs:316-335,355-374).
THEOREM HeardIsWithdrawn == Spec => NoQueuedCopy
<1> DEFINE Done == \A id \in Heard : todo'["mesh"] = <<>> =>
             \A p \in Out!Priority : ~\E e \in Out!Entries(queue'[p]) : e.id = id
<1>1. IInv /\ [Next]_vars => [Done]_vars
  <2> SUFFICES ASSUME IInv, Next, NEW id \in Heard, todo'["mesh"] = <<>>,
                      NEW p \in Out!Priority, NEW e \in Out!Entries(queue'[p])
               PROVE  e.id # id
    OBVIOUS
  <2> DEFINE steps == todo["mesh"]
             s == Head(steps)
  <2>1. /\ Holds("mesh") /\ s.op \in {"cache", "upcall"}
        /\ id = IdOf(s)
    BY DEF Heard, IdOf
  <2>2. Tail(steps) = <<>> /\ queue' = queue
    BY <2>1, HearingEnds
  <2>3. "mesh" \in Task
    BY DEF Task
  <2>4. /\ steps \in Seq(LinkStep) /\ steps # <<>>
        /\ Searched(steps, TRUE, queue)
    BY <2>1, <2>3, HolderHas DEF TaskOK
  <2>5. Len(steps) = 1 /\ DOMAIN steps = {1} /\ steps[1] = s
    <3>1. /\ Len(steps) \in Nat /\ Len(Tail(steps)) = Len(steps) - 1
          /\ DOMAIN steps = 1 .. Len(steps) /\ s = steps[1]
      BY <2>4, Rest
    <3> HIDE DEF steps, s
    <3>2. Len(steps) = 1
      <4>1. Len(Tail(steps)) = 0
        BY <2>2, EmptySeq DEF steps
      <4> QED
        BY <3>1, <4>1
    <3>3. 1 .. 1 = {1}
      OBVIOUS
    <3> QED
      BY <3>1, <3>2, <3>3
  <2>6. Last(steps) = s /\ EndsHearing(steps)
    BY <2>1, <2>4, <2>5 DEF Last, EndsHearing
  <2>7. \A k \in DOMAIN steps : steps[k].op # "cancel"
    BY <2>1, <2>5
  <2>8. NoCopy(queue[p], id)
    <3>1. CancelStep(IdOf(Last(steps)), p).op = "cancel"
      BY DEF CancelStep
    <3>2. \/ \E k \in DOMAIN steps : steps[k] = CancelStep(IdOf(Last(steps)), p)
          \/ NoCopy(queue[p], IdOf(Last(steps)))
      BY <2>4, <2>6 DEF Searched
    <3>3. NoCopy(queue[p], IdOf(Last(steps)))
      BY <2>7, <3>1, <3>2
    <3> QED
      BY <2>1, <2>6, <3>3
  <2> QED
    BY <2>2, <2>8 DEF NoCopy
<1> QED
  BY <1>1, AlwaysInv, PTL DEF Spec, NoQueuedCopy

=============================================================================
