--------------------------- MODULE OutgoingProofs ---------------------------
(***************************************************************************)
(* The safety invariants of Outgoing, for every set of ids, frames,        *)
(* classes and levels and for every cap.                                   *)
(***************************************************************************)
EXTENDS Outgoing, FiniteSetTheorems, SequenceTheorems, TLAPS

-----------------------------------------------------------------------------
(* What retain keeps, for deques of every length: the elements at the kept *)
(* positions, each once, in their old order.                               *)

\* A set of positions of a deque is finite and no larger than the deque.
LEMMA PositionsFinite ==
  ASSUME NEW n \in Nat, NEW K \in SUBSET (1 .. n)
  PROVE  /\ IsFiniteSet(K)
         /\ Cardinality(K) \in 0 .. n
<1>1. IsFiniteSet(1 .. n) /\ Cardinality(1 .. n) = n
  BY FS_Interval
<1>2. IsFiniteSet(K) /\ Cardinality(K) <= n
  BY <1>1, FS_Subset
<1>3. Cardinality(K) \in Nat
  BY <1>2, FS_CardinalityType
<1> QED
  BY <1>2, <1>3

\* Ranks grow with the position and run through 1 .. Cardinality(K).
LEMMA RankProperties ==
  ASSUME NEW K \in SUBSET Int, IsFiniteSet(K)
  PROVE  /\ \A i \in K : Rank(K, i) \in 1 .. Cardinality(K)
         /\ \A i, j \in K : i < j => Rank(K, i) < Rank(K, j)
<1> DEFINE Below(i) == {k \in K : k <= i}
<1>1. \A i \in K : Below(i) \in SUBSET K /\ i \in Below(i)
  OBVIOUS
<1>2. IsFiniteSet(K) /\ Cardinality(K) \in Nat
  BY FS_CardinalityType
<1>3. ASSUME NEW i \in K
      PROVE  IsFiniteSet(Below(i)) /\ Cardinality(Below(i)) \in 1 .. Cardinality(K)
  <2>1. IsFiniteSet(Below(i)) /\ Cardinality(Below(i)) <= Cardinality(K)
    BY <1>1, <1>2, FS_Subset
  <2>2. Cardinality(Below(i)) \in Nat
    BY <2>1, FS_CardinalityType
  <2>3. Cardinality(Below(i)) # 0
    BY <1>1, <2>1, FS_EmptySet
  <2> QED
    BY <2>1, <2>2, <2>3, <1>2
<1>4. ASSUME NEW i \in K, NEW j \in K, i < j
      PROVE  Rank(K, i) < Rank(K, j)
  <2>1. Below(i) \in SUBSET Below(j) /\ Below(i) # Below(j)
    <3>1. K \subseteq Int
      OBVIOUS
    <3>2. j \in Below(j) /\ j \notin Below(i)
      BY <1>4, <3>1
    <3>3. \A k \in K : k <= i => k <= j
      BY <1>4, <3>1
    <3>4. Below(i) \subseteq Below(j)
      BY <3>3
    <3> HIDE DEF Below
    <3> QED
      BY <3>2, <3>4
  <2>2. /\ Cardinality(Below(i)) <= Cardinality(Below(j))
        /\ Cardinality(Below(i)) # Cardinality(Below(j))
    BY <2>1, <1>3, FS_Subset
  <2>3. Cardinality(Below(i)) \in Int /\ Cardinality(Below(j)) \in Int
    BY <1>3, <1>2
  <2> QED
    BY <2>2, <2>3 DEF Rank
<1> QED
  BY <1>3, <1>4 DEF Rank

\* Every rank is taken, so Nth is the position it is named for.
LEMMA NthProperties ==
  ASSUME NEW K \in SUBSET Int, IsFiniteSet(K),
         NEW j \in 1 .. Cardinality(K)
  PROVE  Nth(K, j) \in K /\ Rank(K, Nth(K, j)) = j
<1> DEFINE R == [i \in K |-> Rank(K, i)]
<1> DEFINE T == 1 .. Cardinality(K)
<1>1. IsFiniteSet(K) /\ Cardinality(K) \in Nat
  BY FS_CardinalityType
<1>2. R \in [K -> T]
  BY RankProperties
<1>3. \A a, b \in K : R[a] = R[b] => a = b
  <2> SUFFICES ASSUME NEW a \in K, NEW b \in K, a # b
               PROVE  R[a] # R[b]
    OBVIOUS
  <2>1. a < b \/ b < a
    OBVIOUS
  <2>2. Rank(K, a) \in Int /\ Rank(K, b) \in Int
    <3>1. \A i \in K : Rank(K, i) \in 1 .. Cardinality(K)
      BY RankProperties
    <3>2. \A i \in K : Rank(K, i) \in Int
      BY <3>1
    <3> QED
      BY <3>2
  <2>3. \A x, y \in K : x < y => Rank(K, x) < Rank(K, y)
    BY RankProperties
  <2>4. Rank(K, a) # Rank(K, b)
    BY <2>1, <2>2, <2>3
  <2> QED
    BY <2>4
<1>4. R \in Injection(K, T)
  BY <1>2, <1>3 DEF Injection, IsInjective
<1>5. IsFiniteSet(T) /\ Cardinality(T) = Cardinality(K)
  BY <1>1, FS_Interval
<1>6. R \in Surjection(K, T)
  BY <1>4, <1>5, FS_Injection
<1>7. \E i \in K : R[i] = j
  BY <1>6 DEF Surjection
<1>8. \E i \in K : Rank(K, i) = j
  BY <1>7
<1> QED
  BY <1>8 DEF Nth

\* retain, stated without ranks: the result is a deque no longer than the old
\* one; it keeps order, keeps only kept positions and keeps all of them.
THEOREM RetainProperties ==
  ASSUME NEW S, NEW q \in Seq(S), NEW K \in SUBSET DOMAIN q
  PROVE  LET r == Retain(q, K)
         IN  /\ r \in Seq(S)
             /\ Len(r) = Cardinality(K)
             /\ Len(r) <= Len(q)
             /\ \A a \in DOMAIN r : Nth(K, a) \in K /\ r[a] = q[Nth(K, a)]
             /\ \A a, b \in DOMAIN r : a < b => Nth(K, a) < Nth(K, b)
             /\ \A i \in K : \E a \in DOMAIN r : Nth(K, a) = i
<1> DEFINE r == Retain(q, K)
           c == Cardinality(K)
<1>1. Len(q) \in Nat /\ DOMAIN q = 1 .. Len(q) /\ \A i \in DOMAIN q : q[i] \in S
  BY LenProperties
<1>2. c \in 0 .. Len(q) /\ IsFiniteSet(K) /\ K \in SUBSET Int
  BY <1>1, PositionsFinite
<1>3. \A a \in 1 .. c : Nth(K, a) \in K /\ Rank(K, Nth(K, a)) = a
  BY <1>2, NthProperties
<1>4. r = [a \in 1 .. c |-> q[Nth(K, a)]]
  BY DEF Retain
<1>5. r \in [1 .. c -> S]
  BY <1>1, <1>3, <1>4
<1>6. r \in Seq(S) /\ Len(r) = c /\ DOMAIN r = 1 .. c
  BY <1>2, <1>5
<1>7. ASSUME NEW a \in 1 .. c, NEW b \in 1 .. c, a < b
      PROVE  Nth(K, a) < Nth(K, b)
  <2>1. Nth(K, a) \in K /\ Nth(K, b) \in K /\ Nth(K, a) \in Int /\ Nth(K, b) \in Int
    BY <1>1, <1>3
  <2>2. \A x, y \in K : x < y => Rank(K, x) < Rank(K, y)
    BY <1>2, RankProperties
  <2>3. ~(Nth(K, b) < Nth(K, a))
    BY <1>3, <1>7, <2>1, <2>2
  <2>4. Nth(K, a) # Nth(K, b)
    BY <1>3, <1>7
  <2> QED
    BY <2>1, <2>3, <2>4
<1>8. ASSUME NEW i \in K
      PROVE  \E a \in 1 .. c : Nth(K, a) = i
  <2> DEFINE a == Rank(K, i)
  <2>1. a \in 1 .. c
    BY <1>2, RankProperties
  <2>2. Nth(K, a) \in K /\ Rank(K, Nth(K, a)) = Rank(K, i)
    BY <1>3, <2>1
  <2>3. \A x, y \in K : x < y => Rank(K, x) < Rank(K, y)
    BY <1>2, RankProperties
  <2>4. Nth(K, a) \in Int /\ i \in Int
    BY <1>1, <2>2
  <2>5. a \in Int
    BY <2>1
  <2>6. Nth(K, a) = i
    BY <2>2, <2>3, <2>4, <2>5
  <2> QED
    BY <2>1, <2>6
<1> HIDE DEF r
<1>9. \A a \in DOMAIN r : Nth(K, a) \in K /\ r[a] = q[Nth(K, a)]
  BY <1>3, <1>4, <1>6
<1>10. \A a, b \in DOMAIN r : a < b => Nth(K, a) < Nth(K, b)
  BY <1>6, <1>7
<1>11. \A i \in K : \E a \in DOMAIN r : Nth(K, a) = i
  BY <1>6, <1>8
<1>12. Len(r) = Cardinality(K) /\ Len(r) <= Len(q)
  BY <1>2, <1>6
<1> QED
  BY <1>6, <1>9, <1>10, <1>11, <1>12 DEF r

-----------------------------------------------------------------------------
(* What every reachable state satisfies *)

\* UniqueIds and ClassUniform of one queue.
Distinct(q) == \A i, j \in DOMAIN q : q[i].id = q[j].id => i = j
Uniform(q) == \A i, j \in DOMAIN q : ~Outranks(q[i].policy, q[j].policy)

QueueOK(q) ==
  /\ q \in Seq(Entry)
  /\ Len(q) <= OutgoingQueueMax + 1
  /\ Distinct(q)
  /\ Uniform(q)

\* The four invariants are inductive together: NoLostWakeup leans on TypeOK
\* (a parked regulator means notify is set).
IInv == TypeOK /\ UniqueIds /\ ClassUniform /\ NoLostWakeup

LEMMA QueuesOK ==
  IInv <=> /\ TypeOK
           /\ \A p \in Priority : QueueOK(queue[p])
           /\ NoLostWakeup
BY DEF IInv, TypeOK, UniqueIds, ClassUniform, QueueOK, Distinct, Uniform

\* retain breaks none of a queue's invariants.
LEMMA RetainOK ==
  ASSUME NEW q, QueueOK(q), NEW K \in SUBSET DOMAIN q
  PROVE  /\ QueueOK(Retain(q, K))
         /\ Entries(Retain(q, K)) = {q[i] : i \in K}
         /\ Len(Retain(q, K)) <= Len(q)
<1> DEFINE r == Retain(q, K)
<1>1. q \in Seq(Entry) /\ Len(q) \in Nat /\ Len(q) <= OutgoingQueueMax + 1
  BY LenProperties DEF QueueOK
<1>2. /\ r \in Seq(Entry)
      /\ Len(r) = Cardinality(K)
      /\ Len(r) <= Len(q)
      /\ \A a \in DOMAIN r : Nth(K, a) \in K /\ r[a] = q[Nth(K, a)]
      /\ \A a, b \in DOMAIN r : a < b => Nth(K, a) < Nth(K, b)
      /\ \A i \in K : \E a \in DOMAIN r : Nth(K, a) = i
  BY <1>1, RetainProperties
<1> HIDE DEF r
<1>3. Len(r) \in Nat /\ DOMAIN r = 1 .. Len(r) /\ DOMAIN q = 1 .. Len(q)
  BY <1>1, <1>2, LenProperties
<1>4. Len(r) <= OutgoingQueueMax + 1
  BY <1>1, <1>2, <1>3, OutgoingAssumption
<1>5. Distinct(r)
  <2> SUFFICES ASSUME NEW a \in DOMAIN r, NEW b \in DOMAIN r, r[a].id = r[b].id
               PROVE  a = b
    BY DEF Distinct
  <2>1. Nth(K, a) = Nth(K, b)
    BY <1>2 DEF QueueOK, Distinct
  <2>2. a \in Int /\ b \in Int /\ Nth(K, a) \in Int
    BY <1>2, <1>3
  <2> QED
    BY <1>2, <2>1, <2>2
<1>6. Uniform(r)
  BY <1>2 DEF QueueOK, Uniform
<1>7. Entries(r) = {q[i] : i \in K}
  BY <1>2 DEF Entries
<1> QED
  BY <1>2, <1>4, <1>5, <1>6, <1>7 DEF QueueOK, r

\* pop_front breaks none of them either.
LEMMA TailOK ==
  ASSUME NEW q, QueueOK(q), q # <<>>
  PROVE  /\ QueueOK(Tail(q))
         /\ Head(q) \in Entry
<1>1. q \in Seq(Entry)
  BY DEF QueueOK
<1>2. /\ Head(q) \in Entry
      /\ Tail(q) \in Seq(Entry)
      /\ Len(Tail(q)) = Len(q) - 1
      /\ \A i \in 1 .. Len(Tail(q)) : Tail(q)[i] = q[i + 1]
  BY <1>1, HeadTailProperties
<1>3. /\ Len(q) \in Nat /\ DOMAIN q = 1 .. Len(q)
      /\ Len(Tail(q)) \in Nat /\ DOMAIN Tail(q) = 1 .. Len(Tail(q))
  BY <1>1, <1>2, LenProperties
<1>4. \A i \in DOMAIN Tail(q) : i + 1 \in DOMAIN q /\ Tail(q)[i] = q[i + 1]
  BY <1>2, <1>3
<1>5. Distinct(Tail(q))
  <2> SUFFICES ASSUME NEW i \in DOMAIN Tail(q), NEW j \in DOMAIN Tail(q),
                      Tail(q)[i].id = Tail(q)[j].id
               PROVE  i = j
    BY DEF Distinct
  <2>1. i + 1 = j + 1
    BY <1>4 DEF QueueOK, Distinct
  <2> QED
    BY <1>3, <2>1
<1>6. Uniform(Tail(q))
  BY <1>4 DEF QueueOK, Uniform
<1>7. Len(Tail(q)) <= OutgoingQueueMax + 1
  BY <1>2, <1>3, OutgoingAssumption DEF QueueOK
<1> QED
  BY <1>2, <1>5, <1>6, <1>7 DEF QueueOK

\* What enqueue's three tests and its purge are for: a queue that accepts an
\* entry is still within its cap, without duplicates and uniform.
LEMMA PushOK ==
  ASSUME NEW q, QueueOK(q), NEW e \in Entry,
         Verdict(q, e.id, e.policy) = "Queue"
  PROVE  /\ QueueOK(Append(Purge(q, e.policy), e))
         /\ Append(Purge(q, e.policy), e) # <<>>
<1> DEFINE K == {i \in DOMAIN q : ~Outranks(e.policy, q[i].policy)}
           r == Purge(q, e.policy)
           s == Append(r, e)
<1>1. ~IsFull(q) /\ ~IsDup(q, e.id) /\ ~IsPreempted(q, e.policy)
  BY DEF Verdict
<1>2. /\ QueueOK(r)
      /\ Entries(r) = {q[i] : i \in K}
      /\ Len(r) <= Len(q)
  <2>1. r = Retain(q, K)
    BY DEF Purge
  <2> QED
    BY <2>1, RetainOK
<1>3. q \in Seq(Entry) /\ r \in Seq(Entry)
  BY <1>2 DEF QueueOK
<1> HIDE DEF r
<1>4. Len(q) \in Nat /\ Len(r) \in Nat /\ DOMAIN r = 1 .. Len(r)
  BY <1>3, LenProperties
<1>5. /\ s \in Seq(Entry)
      /\ Len(s) = Len(r) + 1
      /\ DOMAIN s = 1 .. Len(r) + 1
      /\ \A i \in DOMAIN r : s[i] = r[i]
      /\ s[Len(r) + 1] = e
  BY <1>3, <1>4
<1>6. Len(q) <= OutgoingQueueMax
  BY <1>1, <1>4, OutgoingAssumption DEF IsFull
<1>7. Len(s) <= OutgoingQueueMax + 1
  BY <1>2, <1>4, <1>5, <1>6, OutgoingAssumption
<1>8. \A i \in DOMAIN r : r[i] \in Entries(q) /\ ~Outranks(e.policy, r[i].policy)
  <2> SUFFICES ASSUME NEW i \in DOMAIN r
               PROVE  r[i] \in Entries(q) /\ ~Outranks(e.policy, r[i].policy)
    OBVIOUS
  <2>1. r[i] \in {q[k] : k \in K}
    BY <1>2 DEF Entries
  <2> QED
    BY <2>1 DEF Entries
<1>9. \A i \in DOMAIN s : i \in DOMAIN r \/ (i = Len(r) + 1 /\ i \notin DOMAIN r)
  BY <1>4, <1>5
<1>10. Distinct(s)
  <2> SUFFICES ASSUME NEW i \in DOMAIN s, NEW j \in DOMAIN s, s[i].id = s[j].id
               PROVE  i = j
    BY DEF Distinct
  <2>1. CASE i \in DOMAIN r /\ j \in DOMAIN r
    BY <1>2, <1>5, <2>1 DEF QueueOK, Distinct
  <2>2. CASE i \in DOMAIN r /\ j = Len(r) + 1
    BY <1>1, <1>5, <1>8, <2>2 DEF IsDup
  <2>3. CASE j \in DOMAIN r /\ i = Len(r) + 1
    BY <1>1, <1>5, <1>8, <2>3 DEF IsDup
  <2> QED
    BY <1>9, <2>1, <2>2, <2>3
<1>11. Uniform(s)
  <2> SUFFICES ASSUME NEW i \in DOMAIN s, NEW j \in DOMAIN s
               PROVE  ~Outranks(s[i].policy, s[j].policy)
    BY DEF Uniform
  <2>1. CASE i \in DOMAIN r /\ j \in DOMAIN r
    BY <1>2, <1>5, <2>1 DEF QueueOK, Uniform
  <2>2. CASE i \in DOMAIN r /\ j = Len(r) + 1
    BY <1>1, <1>5, <1>8, <2>2 DEF IsPreempted
  <2>3. CASE j \in DOMAIN r /\ i = Len(r) + 1
    BY <1>5, <1>8, <2>3
  <2>4. CASE i = Len(r) + 1 /\ j = Len(r) + 1
    <3>1. e.policy.level \in Int
      <4>1. e.policy \in Policy
        BY DEF Entry
      <4>2. e.policy.level \in Level \cup {0}
        BY <4>1 DEF Policy
      <4>3. Level \cup {0} \subseteq Int
        BY OutgoingAssumption
      <4> QED
        BY <4>2, <4>3
    <3>2. ~Outranks(e.policy, e.policy)
      BY <3>1 DEF Outranks
    <3> QED
      BY <1>5, <2>4, <3>2
  <2> QED
    BY <1>9, <2>1, <2>2, <2>3, <2>4
<1>12. s # <<>>
  BY <1>4, <1>5
<1> QED
  BY <1>5, <1>7, <1>10, <1>11, <1>12 DEF QueueOK, r

-----------------------------------------------------------------------------

LEMMA InitInv == Init => IInv
<1> SUFFICES ASSUME Init PROVE IInv
  OBVIOUS
<1>1. \A p \in Priority : queue[p] = <<>>
  BY DEF Init
<1>2. QueueOK(<<>>)
  <2>1. <<>> \in Seq(Entry) /\ Len(<<>>) = 0 /\ DOMAIN <<>> = {}
    BY EmptySeq
  <2>2. 0 <= OutgoingQueueMax + 1
    BY OutgoingAssumption
  <2> QED
    BY <2>1, <2>2 DEF QueueOK, Distinct, Uniform
<1>3. TypeOK
  <2>1. queue \in [Priority -> Seq(Entry)]
    BY <1>2 DEF Init, QueueOK
  <2>2. \A p \in Priority : Len(queue[p]) <= OutgoingQueueMax + 1
    BY <1>1, <1>2 DEF QueueOK
  <2>3. wake \in 0 .. MaxWake
    BY OutgoingAssumption DEF Init
  <2>4. notify \in BOOLEAN /\ (notify <=> reg # "off")
    BY DEF Init
  <2> QED
    BY <2>1, <2>2, <2>3, <2>4 DEF Init, TypeOK
<1>4. NoLostWakeup
  BY DEF Init, NoLostWakeup
<1> QED
  BY <1>1, <1>2, <1>3, <1>4, QueuesOK

\* One step of any task keeps the four invariants.
LEMMA NextInv == IInv /\ [Next]_vars => IInv'
<1> SUFFICES ASSUME IInv, [Next]_vars PROVE IInv'
  OBVIOUS
<1>1. TypeOK /\ NoLostWakeup /\ \A p \in Priority : QueueOK(queue[p])
  BY QueuesOK
<1>2. queue \in [Priority -> Seq(Entry)] /\ Priority = {"High", "Normal"}
  BY <1>1 DEF TypeOK, Priority
\* A step that replaces one queue by a good one and moves nothing else.
<1>3. ASSUME NEW p \in Priority, NEW r, QueueOK(r),
             queue' = [queue EXCEPT ![p] = r]
      PROVE  /\ queue' \in [Priority -> Seq(Entry)]
             /\ \A o \in Priority : QueueOK(queue'[o])
             /\ \A o \in Priority : Len(queue'[o]) <= OutgoingQueueMax + 1
  <2>1. \A o \in Priority : queue'[o] = IF o = p THEN r ELSE queue[o]
    BY <1>2, <1>3
  <2>2. \A o \in Priority : QueueOK(queue'[o])
    BY <1>1, <1>3, <2>1
  <2> QED
    BY <1>2, <1>3, <2>2 DEF QueueOK
<1>4. ASSUME TypeOK', NoLostWakeup', \A o \in Priority : QueueOK(queue'[o])
      PROVE  IInv'
  BY <1>4 DEF IInv, UniqueIds, ClassUniform, QueueOK, Distinct, Uniform
<1>5. ASSUME NEW id \in MsgId, NEW frame \in Frame, NEW prio \in Priority,
             NEW policy \in Policy, Enqueue(id, frame, prio, policy)
      PROVE  IInv'
  <2> DEFINE e == [id |-> id, policy |-> policy, frame |-> frame]
             r == Append(Purge(queue[prio], policy), e)
  <2>1. e \in Entry /\ e.id = id /\ e.policy = policy
    BY DEF Entry
  <2>2. QueueOK(r) /\ r # <<>>
    BY <1>1, <1>5, <2>1, PushOK DEF Enqueue
  <2>3. queue' = [queue EXCEPT ![prio] = r]
    BY <1>5 DEF Enqueue, Push
  <2>4. wake' \in 0 .. MaxWake /\ (NeedWakeup /\ notify => wake' > 0)
    BY <1>1, <1>5, OutgoingAssumption DEF Enqueue, TypeOK
  <2>5. wake' = wake \/ (NeedWakeup /\ notify)
    BY <1>5 DEF Enqueue
  <2>6. TypeOK'
    BY <1>1, <1>3, <1>5, <2>2, <2>3, <2>4 DEF Enqueue, TypeOK
  <2>7. NoLostWakeup'
    <3> SUFFICES ASSUME reg' = "park", wake' = 0
                 PROVE  FALSE
      BY DEF NoLostWakeup
    <3>1. reg = "park" /\ notify
      BY <1>1, <1>5 DEF Enqueue, TypeOK
    <3>2. ~NeedWakeup
      BY <2>4, <3>1
    <3>3. wake = 0
      BY <2>5, <3>2
    <3> QED
      BY <1>1, <3>1, <3>2, <3>3 DEF NoLostWakeup, NeedWakeup
  <2> QED
    BY <1>3, <1>4, <2>2, <2>3, <2>6, <2>7
<1>6. ASSUME NEW id \in MsgId, NEW prio \in Priority, Cancel(id, prio)
      PROVE  IInv'
  <2> DEFINE r == Without(queue[prio], id)
  <2>1. QueueOK(r) /\ Len(r) <= Len(queue[prio])
    BY <1>1, RetainOK DEF Without
  <2>2. queue' = [queue EXCEPT ![prio] = r]
    BY <1>6 DEF Cancel
  <2>3. TypeOK'
    BY <1>1, <1>3, <1>6, <2>1, <2>2 DEF Cancel, TypeOK
  <2>4. queue[prio] = <<>> => r = <<>>
    <3>1. r \in Seq(Entry) /\ queue[prio] \in Seq(Entry)
      BY <1>2, <2>1 DEF QueueOK
    <3>2. Len(r) \in Nat
      BY <3>1, LenProperties
    <3>3. queue[prio] = <<>> => Len(r) = 0
      BY <2>1, <3>2
    <3> QED
      BY <3>1, <3>3, EmptySeq
  <2>5. IsEmpty => IsEmpty'
    BY <1>2, <2>2, <2>4 DEF IsEmpty
  <2>6. NoLostWakeup'
    BY <1>1, <1>6, <2>5 DEF Cancel, NoLostWakeup
  <2> QED
    BY <1>3, <1>4, <2>1, <2>2, <2>3, <2>6
<1>7. CASE StartRegulator
  <2>1. TypeOK' /\ NoLostWakeup'
    BY <1>1, <1>7 DEF StartRegulator, TypeOK, NoLostWakeup
  <2>2. queue' = queue
    BY <1>7 DEF StartRegulator
  <2> QED
    BY <1>1, <1>4, <2>1, <2>2
<1>8. CASE RegPop
  <2> DEFINE q == queue[NextPriority]
  <2>1. NextPriority \in Priority /\ q # <<>>
    BY <1>2, <1>8 DEF RegPop, NextPriority, IsEmpty
  <2>2. QueueOK(Tail(q)) /\ Head(q) \in Entry
    BY <1>1, <2>1, TailOK
  <2>3. queue' = [queue EXCEPT ![NextPriority] = Tail(q)]
    BY <1>8 DEF RegPop
  <2>4. TypeOK'
    BY <1>1, <1>3, <1>8, <2>1, <2>2, <2>3 DEF RegPop, TypeOK
  <2>5. NoLostWakeup'
    BY <1>8 DEF RegPop, NoLostWakeup
  <2> QED
    BY <1>3, <1>4, <2>1, <2>2, <2>3, <2>4, <2>5
<1>9. CASE RegPark \/ RegWake \/ RegSend \/ RegResume
  <2>1. TypeOK'
    BY <1>1, <1>9, OutgoingAssumption
    DEF RegPark, RegWake, RegSend, RegResume, TypeOK
  <2>2. queue' = queue
    BY <1>9 DEF RegPark, RegWake, RegSend, RegResume
  <2>3. NoLostWakeup'
    BY <1>9 DEF RegPark, RegWake, RegSend, RegResume, NoLostWakeup, IsEmpty
  <2> QED
    BY <1>1, <1>4, <2>1, <2>2, <2>3
<1>10. CASE UNCHANGED vars
  <2>1. TypeOK' /\ NoLostWakeup' /\ queue' = queue
    BY <1>1, <1>10 DEF vars, TypeOK, NoLostWakeup, IsEmpty
  <2> QED
    BY <1>1, <1>4, <2>1
<1> QED
  BY <1>5, <1>6, <1>7, <1>8, <1>9, <1>10 DEF Next, Regulator, EnqueueRefused

\* In every behaviour each variable keeps its shape, and no queue outgrows its
\* cap by more than one entry, whatever the cap.
THEOREM TypeCorrect == Spec => []TypeOK
<1>1. IInv => TypeOK
  BY DEF IInv
<1> QED
  BY <1>1, InitInv, NextInv, PTL DEF Spec

\* In every behaviour no queue holds one message id twice.
THEOREM NoDuplicates == Spec => []UniqueIds
<1>1. IInv => UniqueIds
  BY DEF IInv
<1> QED
  BY <1>1, InitInv, NextInv, PTL DEF Spec

\* In every behaviour no entry waits in a queue beside one that supersedes it.
THEOREM NoSuperseded == Spec => []ClassUniform
<1>1. IInv => ClassUniform
  BY DEF IInv
<1> QED
  BY <1>1, InitInv, NextInv, PTL DEF Spec

\* In every behaviour the regulator never waits for a token that does not come
\* while a queue holds an entry.
THEOREM NeverStranded == Spec => []NoLostWakeup
<1>1. IInv => NoLostWakeup
  BY DEF IInv
<1> QED
  BY <1>1, InitInv, NextInv, PTL DEF Spec

-----------------------------------------------------------------------------
(* FirstInFirstOut *)

\* Two entries of queue q that are both still in r are in their old order.
InOrder(q, r) ==
  \A i, j \in DOMAIN q : i < j =>
    \A m, n \in DOMAIN r : r[m] = q[i] /\ r[n] = q[j] => m < n

\* A queue without duplicates has each entry at one position only.
LEMMA PlaceOf ==
  ASSUME NEW q, QueueOK(q), NEW i \in DOMAIN q, NEW j \in DOMAIN q, q[i] = q[j]
  PROVE  i = j
BY DEF QueueOK, Distinct

LEMMA SameInOrder ==
  ASSUME NEW q, QueueOK(q)
  PROVE  InOrder(q, q)
BY PlaceOf DEF InOrder

\* retain swaps no two entries.
LEMMA RetainInOrder ==
  ASSUME NEW q, QueueOK(q), NEW K \in SUBSET DOMAIN q
  PROVE  InOrder(q, Retain(q, K))
<1> DEFINE r == Retain(q, K)
<1>1. /\ r \in Seq(Entry)
      /\ \A a \in DOMAIN r : Nth(K, a) \in K /\ r[a] = q[Nth(K, a)]
      /\ \A a, b \in DOMAIN r : a < b => Nth(K, a) < Nth(K, b)
  BY RetainProperties DEF QueueOK
<1> HIDE DEF r
<1>2. DOMAIN r \subseteq Int /\ DOMAIN q \subseteq Int
  BY <1>1, LenProperties DEF QueueOK
<1> SUFFICES ASSUME NEW i \in DOMAIN q, NEW j \in DOMAIN q, i < j,
                    NEW m \in DOMAIN r, NEW n \in DOMAIN r,
                    r[m] = q[i], r[n] = q[j]
             PROVE  m < n
  BY DEF InOrder, r
<1>3. Nth(K, m) = i /\ Nth(K, n) = j
  BY <1>1, PlaceOf
<1>4. m # n /\ ~(n < m)
  BY <1>1, <1>2, <1>3
<1> QED
  BY <1>2, <1>4

\* pop_front swaps none.
LEMMA TailInOrder ==
  ASSUME NEW q, QueueOK(q), q # <<>>
  PROVE  InOrder(q, Tail(q))
<1>1. /\ q \in Seq(Entry)
      /\ Tail(q) \in Seq(Entry)
      /\ Len(Tail(q)) = Len(q) - 1
      /\ \A i \in 1 .. Len(Tail(q)) : Tail(q)[i] = q[i + 1]
  BY HeadTailProperties DEF QueueOK
<1>2. /\ Len(q) \in Nat /\ DOMAIN q = 1 .. Len(q)
      /\ DOMAIN Tail(q) = 1 .. Len(q) - 1
  BY <1>1, LenProperties
<1> SUFFICES ASSUME NEW i \in DOMAIN q, NEW j \in DOMAIN q, i < j,
                    NEW m \in DOMAIN Tail(q), NEW n \in DOMAIN Tail(q),
                    Tail(q)[m] = q[i], Tail(q)[n] = q[j]
             PROVE  m < n
  BY DEF InOrder
<1>3. m + 1 \in DOMAIN q /\ n + 1 \in DOMAIN q /\ q[m + 1] = q[i] /\ q[n + 1] = q[j]
  BY <1>1, <1>2
<1>4. m + 1 = i /\ n + 1 = j
  BY <1>3, PlaceOf
<1> QED
  BY <1>2, <1>4

\* The purge and the push of enqueue swap none: the new entry is behind all
\* that stay, and is none of those that were there.
LEMMA PushInOrder ==
  ASSUME NEW q, QueueOK(q), NEW e \in Entry,
         Verdict(q, e.id, e.policy) = "Queue"
  PROVE  InOrder(q, Append(Purge(q, e.policy), e))
<1> DEFINE K == {i \in DOMAIN q : ~Outranks(e.policy, q[i].policy)}
           r == Purge(q, e.policy)
           s == Append(r, e)
<1>1. r = Retain(q, K)
  BY DEF Purge
<1>2. QueueOK(r) /\ InOrder(q, r)
  BY <1>1, RetainOK, RetainInOrder
<1> HIDE DEF r
<1>3. r \in Seq(Entry) /\ Len(r) \in Nat /\ DOMAIN r = 1 .. Len(r)
  BY <1>2, LenProperties DEF QueueOK
<1>4. /\ DOMAIN s = 1 .. Len(r) + 1
      /\ \A i \in DOMAIN r : s[i] = r[i]
      /\ s[Len(r) + 1] = e
  BY <1>3
<1>5. \A i \in DOMAIN q : q[i] # e
  BY DEF Verdict, IsDup, Entries
<1> SUFFICES ASSUME NEW i \in DOMAIN q, NEW j \in DOMAIN q, i < j,
                    NEW m \in DOMAIN s, NEW n \in DOMAIN s,
                    s[m] = q[i], s[n] = q[j]
             PROVE  m < n
  BY DEF InOrder, r
<1>6. m \in DOMAIN r /\ n \in DOMAIN r
  BY <1>3, <1>4, <1>5
<1> QED
  BY <1>2, <1>4, <1>6 DEF InOrder

\* In every behaviour the entries of one priority leave in the order in which
\* they were accepted (outgoing.rs:152,192-195).
THEOREM LeavesInOrder == Spec => FirstInFirstOut
<1> DEFINE Ordered ==
      \A p \in Priority : \A i, j \in DOMAIN queue[p] : i < j =>
        LET older == queue[p][i]
            newer == queue[p][j]
        IN  /\ /\ held' # held
               /\ held' = {newer}
               /\ newer \notin Entries(queue'[p])
               => older \notin Entries(queue'[p])
            /\ \A m, n \in DOMAIN queue'[p] :
                 queue'[p][m] = older /\ queue'[p][n] = newer => m < n
<1>1. IInv /\ [Next]_vars => [Ordered]_vars
  <2> SUFFICES ASSUME IInv, Next PROVE Ordered
    BY DEF Ordered
  <2>1. TypeOK /\ \A p \in Priority : QueueOK(queue[p])
    BY QueuesOK
  <2>2. queue \in [Priority -> Seq(Entry)] /\ Priority = {"High", "Normal"}
    BY <2>1 DEF TypeOK, Priority
  <2>3. ASSUME NEW p \in Priority, NEW r, InOrder(queue[p], r),
               queue' = [queue EXCEPT ![p] = r]
        PROVE  \A o \in Priority : InOrder(queue[o], queue'[o])
    BY <2>1, <2>2, <2>3, SameInOrder
  <2>4. ASSUME \A o \in Priority : InOrder(queue[o], queue'[o]),
               \/ held' = held
               \/ held' = {}
               \/ /\ held' = {Head(queue[NextPriority])}
                  /\ queue' = [queue EXCEPT ![NextPriority] = Tail(@)]
                  /\ queue[NextPriority] # <<>>
        PROVE  Ordered
    <3> SUFFICES ASSUME NEW p \in Priority,
                        NEW i \in DOMAIN queue[p], NEW j \in DOMAIN queue[p], i < j,
                        held' # held, held' = {queue[p][j]},
                        queue[p][j] \notin Entries(queue'[p])
                 PROVE  FALSE
      BY <2>4 DEF InOrder
    <3>1. /\ held' = {Head(queue[NextPriority])}
          /\ queue' = [queue EXCEPT ![NextPriority] = Tail(@)]
          /\ queue[NextPriority] # <<>>
      BY <2>4
    <3>2. CASE p = NextPriority
      <4>1. /\ DOMAIN queue[p] \subseteq Nat \ {0}
            /\ 1 \in DOMAIN queue[p]
            /\ queue[p][1] = Head(queue[p])
        BY <2>2, <3>1, <3>2
      <4>2. queue[p][j] = queue[p][1]
        BY <3>1, <3>2, <4>1
      <4>3. j = 1
        BY <2>1, <4>1, <4>2, PlaceOf
      <4> QED
        BY <4>1, <4>3
    <3>3. CASE p # NextPriority
      <4>1. queue'[p] = queue[p]
        BY <2>2, <3>1, <3>3
      <4> QED
        BY <4>1 DEF Entries
    <3> QED
      BY <3>2, <3>3
  <2>5. ASSUME NEW id \in MsgId, NEW frame \in Frame, NEW prio \in Priority,
               NEW policy \in Policy, Enqueue(id, frame, prio, policy)
        PROVE  Ordered
    <3> DEFINE e == [id |-> id, policy |-> policy, frame |-> frame]
               r == Append(Purge(queue[prio], policy), e)
    <3>1. e \in Entry /\ e.id = id /\ e.policy = policy
      BY DEF Entry
    <3>2. InOrder(queue[prio], r)
      BY <2>1, <2>5, <3>1, PushInOrder DEF Enqueue
    <3>3. queue' = [queue EXCEPT ![prio] = r] /\ held' = held
      BY <2>5 DEF Enqueue, Push
    <3> QED
      BY <2>3, <2>4, <3>2, <3>3
  <2>6. ASSUME NEW id \in MsgId, NEW prio \in Priority, Cancel(id, prio)
        PROVE  Ordered
    <3>1. InOrder(queue[prio], Without(queue[prio], id))
      BY <2>1, RetainInOrder DEF Without
    <3> QED
      BY <2>3, <2>4, <2>6, <3>1 DEF Cancel
  <2>7. CASE RegPop
    <3>1. NextPriority \in Priority /\ queue[NextPriority] # <<>>
      BY <2>2, <2>7 DEF RegPop, NextPriority, IsEmpty
    <3>2. InOrder(queue[NextPriority], Tail(queue[NextPriority]))
      BY <2>1, <3>1, TailInOrder
    <3> QED
      BY <2>3, <2>4, <2>7, <3>1, <3>2 DEF RegPop
  <2>8. ASSUME queue' = queue, held' = held \/ held' = {}
        PROVE  Ordered
    BY <2>1, <2>4, <2>8, SameInOrder
  <2> QED
    BY <2>5, <2>6, <2>7, <2>8
    DEF Next, Regulator, EnqueueRefused, vars, StartRegulator, RegPark, RegWake,
        RegSend, RegResume
<1>2. Spec => []IInv
  BY InitInv, NextInv, PTL DEF Spec
<1>3. FirstInFirstOut <=> [][Ordered]_vars
  BY DEF FirstInFirstOut
<1> HIDE DEF Ordered
<1> QED
  BY <1>1, <1>2, <1>3, PTL DEF Spec

-----------------------------------------------------------------------------
(* The refinement of TxQueue *)

\* What the pool of TxQueue is told of one queue: the entries in it, of which
\* there are no more than its length.
LEMMA EntriesSize ==
  ASSUME NEW q \in Seq(Entry)
  PROVE  /\ IsFiniteSet(Entries(q))
         /\ Cardinality(Entries(q)) \in Nat
         /\ Cardinality(Entries(q)) <= Len(q)
<1>1. Len(q) \in Nat /\ DOMAIN q = 1 .. Len(q) /\ q \in [1 .. Len(q) -> Entry]
  BY LenProperties
<1>2. IsFiniteSet(1 .. Len(q)) /\ Cardinality(1 .. Len(q)) = Len(q)
  BY <1>1, FS_Interval
<1>3. q \in Surjection(1 .. Len(q), Entries(q))
  BY <1>1 DEF Entries, Surjection
<1>4. IsFiniteSet(Entries(q)) /\ Cardinality(Entries(q)) <= Len(q)
  BY <1>2, <1>3, FS_Surjection
<1> QED
  BY <1>4, FS_CardinalityType

LEMMA EntriesAppend ==
  ASSUME NEW q \in Seq(Entry), NEW e \in Entry
  PROVE  Entries(Append(q, e)) = Entries(q) \cup {e}
<1>1. Len(q) \in Nat /\ DOMAIN q = 1 .. Len(q)
  BY LenProperties
<1>2. /\ DOMAIN Append(q, e) = 1 .. Len(q) + 1
      /\ \A i \in DOMAIN q : Append(q, e)[i] = q[i]
      /\ Append(q, e)[Len(q) + 1] = e
  BY <1>1
<1>3. /\ DOMAIN Append(q, e) = DOMAIN q \cup {Len(q) + 1}
      /\ Len(q) + 1 \in DOMAIN Append(q, e)
  BY <1>1, <1>2
<1> QED
  BY <1>2, <1>3 DEF Entries

\* pop_front takes away the head and nothing equal to it.
LEMMA EntriesTail ==
  ASSUME NEW q, QueueOK(q), q # <<>>
  PROVE  /\ Head(q) \in Entries(q)
         /\ Entries(Tail(q)) = Entries(q) \ {Head(q)}
<1>1. /\ q \in Seq(Entry)
      /\ Tail(q) \in Seq(Entry)
      /\ Len(Tail(q)) = Len(q) - 1
      /\ \A i \in 1 .. Len(Tail(q)) : Tail(q)[i] = q[i + 1]
  BY HeadTailProperties DEF QueueOK
<1>2. /\ Len(q) \in Nat /\ DOMAIN q = 1 .. Len(q)
      /\ DOMAIN Tail(q) = 1 .. Len(q) - 1
  BY <1>1, LenProperties
<1>3. 1 \in DOMAIN q /\ Head(q) = q[1]
  BY <1>1, <1>2, EmptySeq
<1>4. ASSUME NEW i \in DOMAIN Tail(q)
      PROVE  Tail(q)[i] \in Entries(q) \ {Head(q)}
  <2>1. i + 1 \in DOMAIN q /\ Tail(q)[i] = q[i + 1] /\ i + 1 # 1
    BY <1>1, <1>2
  <2> QED
    BY <1>3, <2>1, PlaceOf DEF Entries
<1>5. ASSUME NEW i \in DOMAIN q, q[i] # Head(q)
      PROVE  q[i] \in Entries(Tail(q))
  <2>1. i # 1
    BY <1>3, <1>5
  <2>2. i - 1 \in DOMAIN Tail(q) /\ Tail(q)[i - 1] = q[i]
    BY <1>1, <1>2, <2>1
  <2> QED
    BY <2>2 DEF Entries
<1> QED
  BY <1>3, <1>4, <1>5 DEF Entries

Pool == [p \in Priority |-> Entries(queue[p])]

LEMMA InitMaps == Init => Tx!Init
<1>1. Entries(<<>>) = {}
  BY EmptySeq DEF Entries
<1> QED
  BY <1>1 DEF Init, Tx!Init, Priority, Tx!Priority

\* Each step of Outgoing is a step of the pool, or none: enqueue accepts, cancel
\* withdraws, the regulator's pop commits and its send transmits.
LEMMA StepMaps == IInv /\ [Next]_vars => [Tx!Next]_(Tx!vars)
<1> SUFFICES ASSUME IInv, [Next]_vars
             PROVE  [Tx!Next]_(Tx!vars)
  OBVIOUS
<1>1. TypeOK /\ \A p \in Priority : QueueOK(queue[p])
  BY QueuesOK
<1>2. /\ queue \in [Priority -> Seq(Entry)]
      /\ Priority = {"High", "Normal"}
  BY <1>1 DEF TypeOK, Priority
\* Replacing one queue replaces the pool's set of that priority.
<1>3. ASSUME NEW p \in Priority, NEW r, queue' = [queue EXCEPT ![p] = r]
      PROVE  Pool' = [Pool EXCEPT ![p] = Entries(r)]
  BY <1>2, <1>3 DEF Pool
<1>4. \A p \in Priority : Pool[p] = Entries(queue[p])
  BY DEF Pool
<1>5. ASSUME NEW id \in MsgId, NEW frame \in Frame, NEW prio \in Priority,
             NEW policy \in Policy, Enqueue(id, frame, prio, policy)
      PROVE  Tx!Next
  <2> DEFINE q == queue[prio]
             e == [id |-> id, policy |-> policy, frame |-> frame]
             K == {i \in DOMAIN q : ~Outranks(policy, q[i].policy)}
             r == Purge(q, policy)
  <2>1. e \in Entry /\ e.id = id /\ e.policy = policy
    BY DEF Entry
  <2>2. Verdict(q, id, policy) = "Queue" /\ held' = held
        /\ queue' = [queue EXCEPT ![prio] = Append(r, e)]
    BY <1>5 DEF Enqueue, Push
  <2>3. ~IsFull(q) /\ ~IsDup(q, id) /\ ~IsPreempted(q, policy)
    BY <2>2 DEF Verdict
  <2>4. Cardinality(Entries(q)) < OutgoingQueueMax + 1
    <3>1. q \in Seq(Entry) /\ Len(q) \in Nat
      BY <1>1, LenProperties DEF QueueOK
    <3>2. Cardinality(Entries(q)) \in Nat /\ Cardinality(Entries(q)) <= Len(q)
      BY <3>1, EntriesSize
    <3> QED
      BY <2>3, <3>1, <3>2, OutgoingAssumption DEF IsFull
  <2>5. \A f \in Entries(q) : f.id # e.id /\ ~Tx!Supersedes(f, e)
    BY <2>1, <2>3 DEF IsDup, IsPreempted, Outranks, Tx!Supersedes
  <2>6. r \in Seq(Entry) /\ Entries(r) = {f \in Entries(q) : ~Tx!Supersedes(e, f)}
    <3>1. r = Retain(q, K)
      BY DEF Purge
    <3>2. QueueOK(r) /\ Entries(r) = {q[i] : i \in K}
      BY <1>1, <3>1, RetainOK
    <3>3. {q[i] : i \in K} = {f \in Entries(q) : ~Outranks(policy, f.policy)}
      BY DEF Entries
    <3> QED
      BY <2>1, <3>2, <3>3 DEF QueueOK, Outranks, Tx!Supersedes
  <2>7. Entries(Append(r, e)) = {f \in Entries(q) : ~Tx!Supersedes(e, f)} \cup {e}
    BY <2>1, <2>6, EntriesAppend
  <2>8. Pool' = [Pool EXCEPT ![prio] = {f \in @ : ~Tx!Supersedes(e, f)} \cup {e}]
    BY <1>3, <1>4, <2>2, <2>7
  <2>9. Tx!Accept(e, prio)
    <3>1. \A S : Tx!Cardinality(S) = Cardinality(S)
      BY DEF Tx!Cardinality, Cardinality, Tx!IsFiniteSet, IsFiniteSet
    <3> QED
      BY <1>4, <2>2, <2>4, <2>5, <2>8, <3>1 DEF Tx!Accept, Pool
  <2>10. e \in Tx!Entry /\ prio \in Tx!Priority
    BY <2>1 DEF Entry, Policy, Priority, Tx!Entry, Tx!Policy, Tx!Priority
  <2> HIDE DEF e
  <2> QED
    BY <2>9, <2>10 DEF Tx!Next
<1>6. ASSUME NEW id \in MsgId, NEW prio \in Priority, Cancel(id, prio)
      PROVE  Tx!Next
  <2> DEFINE q == queue[prio]
             K == {i \in DOMAIN q : q[i].id # id}
  <2>1. Entries(Without(q, id)) = {q[i] : i \in K}
    BY <1>1, RetainOK DEF Without
  <2>2. {q[i] : i \in K} = {f \in Entries(q) : f.id # id}
    BY DEF Entries
  <2>3. Pool' = [Pool EXCEPT ![prio] = {f \in @ : f.id # id}]
    BY <1>3, <1>4, <1>6, <2>1, <2>2 DEF Cancel
  <2>4. Tx!Withdraw(id, prio)
    BY <1>6, <2>3 DEF Cancel, Tx!Withdraw, Pool
  <2> QED
    BY <2>4 DEF Tx!Next, Priority, Tx!Priority
<1>7. CASE RegPop
  <2> DEFINE p == NextPriority
             q == queue[p]
  <2>1. p \in Priority /\ q # <<>> /\ (p = "Normal" => queue["High"] = <<>>)
    BY <1>2, <1>7 DEF RegPop, NextPriority, IsEmpty
  <2>2. /\ held' = {Head(q)}
        /\ queue' = [queue EXCEPT ![p] = Tail(q)]
        /\ held = {}
    BY <1>1, <1>7 DEF RegPop, TypeOK
  <2>3. Head(q) \in Entries(q) /\ Entries(Tail(q)) = Entries(q) \ {Head(q)}
    BY <1>1, <2>1, EntriesTail
  <2>4. p = "Normal" => Pool["High"] = {}
    BY <1>2, <1>4, <2>1, EmptySeq DEF Entries
  <2>5. Pool' = [Pool EXCEPT ![p] = @ \ {Head(q)}]
    BY <1>3, <1>4, <2>1, <2>2, <2>3
  <2>6. Head(q) \in Pool[p]
    BY <1>4, <2>1, <2>3
  <2> HIDE DEF p
  <2>7. Tx!Commit
    BY <2>1, <2>2, <2>4, <2>5, <2>6 DEF Tx!Commit, Pool, Priority, Tx!Priority
  <2> QED
    BY <2>7 DEF Tx!Next
<1>8. CASE RegSend
  <2>1. held # {} /\ held' = {} /\ queue' = queue
    BY <1>1, <1>8 DEF RegSend, TypeOK
  <2> QED
    BY <2>1 DEF Tx!Next, Tx!Transmit
<1>9. ASSUME queue' = queue, held' = held
      PROVE  UNCHANGED Tx!vars
  BY <1>9 DEF Tx!vars
<1> QED
  BY <1>5, <1>6, <1>7, <1>8, <1>9
  DEF Next, vars, Regulator, EnqueueRefused, StartRegulator, RegPark, RegWake, RegResume

\* The queues, the regulator and the wake channel implement the bounded priority
\* pool, for every cap and every set of messages (outgoing.rs:101-269).
THEOREM Implements == Spec => ImplementsTxQueue
<1>1. Spec => []IInv
  BY InitInv, NextInv, PTL DEF Spec
<1> QED
  BY <1>1, InitMaps, StepMaps, PTL DEF Spec, ImplementsTxQueue, Tx!SafeSpec

=============================================================================
