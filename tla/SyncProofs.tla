----------------------------- MODULE SyncProofs -----------------------------
(***************************************************************************)
(* The safety properties of Sync, for any number of notes, any thresholds  *)
(* in the order the code keeps them in, and a memory of any capacity.      *)
(***************************************************************************)
EXTENDS Sync, SequenceTheorems, TLAPS

-----------------------------------------------------------------------------
(* LruSet *)

LruType(S) == [set : SUBSET S, deque : Seq(S)]

\* What insert makes of a set that has not got the value: d members leave at the
\* front, one or none, and the value goes to the back.
Inserted(lru, r, value, d) ==
  LET len == Len(lru.deque)
  IN  /\ d = 1 => r.set = (lru.set \ {lru.deque[1]}) \cup {value}
      /\ d = 0 => r.set = lru.set \cup {value}
      /\ Len(r.deque) = len - d + 1
      /\ \A j \in 1 .. len - d : r.deque[j] = lru.deque[j + d]
      /\ r.deque[len - d + 1] = value

\* insert keeps hash set and deque in agreement, and its capacity.
LEMMA InsertOK ==
  ASSUME NEW S, NEW capacity \in Nat \ {0}, NEW value \in S,
         NEW lru \in LruType(S), Agrees(lru, capacity), value \notin lru.set
  PROVE  LET r == Insert(lru, value, capacity)
             d == IF Len(lru.deque) = capacity THEN 1 ELSE 0
         IN  /\ r \in LruType(S)
             /\ Agrees(r, capacity)
             /\ Inserted(lru, r, value, d)
<1> DEFINE r == Insert(lru, value, capacity)
           d == IF Len(lru.deque) = capacity THEN 1 ELSE 0
           q == lru.deque
           len == Len(q)
           base == IF len = capacity THEN Tail(q) ELSE q
<1>1. /\ q \in Seq(S) /\ len \in Nat /\ DOMAIN q = 1 .. len /\ len <= capacity
      /\ lru.set = {q[i] : i \in 1 .. len} /\ lru.set \subseteq S
      /\ \A i, j \in 1 .. len : q[i] = q[j] => i = j
  BY LenProperties DEF LruType, Agrees
<1>2. len = capacity => q # <<>>
  BY EmptySeq
<1>3. /\ base \in Seq(S)
      /\ Len(base) = len - d
      /\ DOMAIN base = 1 .. len - d
      /\ \A j \in 1 .. len - d : base[j] = q[j + d]
  <2>1. CASE len = capacity
    <3>1. /\ Tail(q) \in Seq(S) /\ Len(Tail(q)) = len - 1
          /\ \A i \in 1 .. Len(Tail(q)) : Tail(q)[i] = q[i + 1]
      BY <1>1, <1>2, <2>1, HeadTailProperties
    <3> QED
      BY <2>1, <3>1, LenProperties
  <2>2. CASE len # capacity
    BY <1>1, <2>2
  <2> QED
    BY <2>1, <2>2
<1>4. /\ r.deque = Append(base, value)
      /\ d = 1 => r.set = (lru.set \ {Head(q)}) \cup {value}
      /\ d = 0 => r.set = lru.set \cup {value}
      /\ r = [set |-> r.set, deque |-> r.deque]
      /\ d \in {0, 1}
  <2>1. CASE len = capacity
    BY <2>1 DEF Insert
  <2>2. CASE len # capacity
    BY <2>2 DEF Insert
  <2> QED
    BY <2>1, <2>2
<1>a. /\ len = capacity => d = 1
      /\ len # capacity => d = 0
  OBVIOUS
<1> HIDE DEF r, base, q, len, d
<1>5. d = 1 => len >= 1 /\ Head(q) = q[1]
  BY <1>1, <1>2, <1>a DEF q, len
<1>6. /\ r.deque \in Seq(S)
      /\ Len(r.deque) = len - d + 1
      /\ DOMAIN r.deque = 1 .. len - d + 1
      /\ \A j \in 1 .. len - d : r.deque[j] = q[j + d]
      /\ r.deque[len - d + 1] = value
  BY <1>1, <1>3, <1>4, <1>5
<1>7. Inserted(lru, r, value, d)
  BY <1>4, <1>5, <1>6 DEF Inserted, q, len, d
<1>8. r \in LruType(S)
  <2>1. r.set \subseteq S
    BY <1>1, <1>4
  <2> QED
    BY <1>4, <1>6, <2>1 DEF LruType
<1>9. Agrees(r, capacity)
  <2>1. Len(r.deque) <= capacity
    BY <1>1, <1>4, <1>6, <1>a DEF len, q
  <2>2. \A j \in 1 .. len - d + 1 : j \in 1 .. len - d \/ j = len - d + 1
    BY <1>1, <1>4
  <2>3. \A j \in 1 .. len - d : j + d \in 1 .. len /\ q[j + d] # value
    BY <1>1, <1>4 DEF q
  <2>4. \A i, j \in DOMAIN r.deque : r.deque[i] = r.deque[j] => i = j
    <3> SUFFICES ASSUME NEW i \in DOMAIN r.deque, NEW j \in DOMAIN r.deque,
                        r.deque[i] = r.deque[j]
                 PROVE  i = j
      OBVIOUS
    <3>1. CASE i \in 1 .. len - d /\ j \in 1 .. len - d
      <4>1. i + d = j + d
        BY <1>1, <1>6, <2>3, <3>1
      <4> QED
        BY <1>4, <3>1, <4>1
    <3>2. CASE i = len - d + 1 \/ j = len - d + 1
      BY <1>6, <2>2, <2>3, <3>2
    <3> QED
      BY <1>6, <2>2, <3>1, <3>2
  <2>5. r.set = {r.deque[i] : i \in DOMAIN r.deque}
    <3>1. ASSUME NEW x \in r.set
          PROVE  \E i \in DOMAIN r.deque : r.deque[i] = x
      <4>1. CASE x = value
        BY <1>1, <1>4, <1>5, <1>6, <4>1
      <4>2. CASE x # value
        <5>1. PICK i \in 1 .. len : q[i] = x
          BY <1>1, <1>4, <4>2
        <5>2. d = 1 => i # 1
          BY <1>4, <1>5, <4>2, <5>1
        <5>3. i - d \in 1 .. len - d
          BY <1>1, <1>4, <5>1, <5>2
        <5>4. (i - d) + d = i
          BY <1>1, <1>4, <5>1 DEF q, len
        <5>5. r.deque[i - d] = q[i]
          BY <1>6, <5>3, <5>4
        <5> QED
          BY <1>1, <1>4, <1>6, <5>1, <5>3, <5>5 DEF q, len
      <4> QED
        BY <4>1, <4>2
    <3>2. ASSUME NEW i \in DOMAIN r.deque
          PROVE  r.deque[i] \in r.set
      <4>1. CASE i \in 1 .. len - d
        <5>1. r.deque[i] = q[i + d] /\ i + d \in 1 .. len
          BY <1>6, <2>3, <4>1
        <5>2. d = 1 => q[i + d] # q[1]
          BY <1>1, <1>5, <4>1, <5>1
        <5> QED
          BY <1>1, <1>4, <1>5, <5>1, <5>2
      <4>2. CASE i = len - d + 1
        BY <1>4, <1>6, <4>2
      <4> QED
        BY <1>6, <2>2, <4>1, <4>2
    <3> QED
      BY <3>1, <3>2
  <2> QED
    BY <2>1, <2>4, <2>5 DEF Agrees
<1> QED
  BY <1>7, <1>8, <1>9 DEF r, q, len, d

-----------------------------------------------------------------------------
(* What every reachable state satisfies.  since counts the notes marked as *)
(* heard, and a member of recently_inserted ages with every newer member:  *)
(* so the one that leaves has aged by the capacity.                        *)

\* A note that is neither remembered nor being handled has aged out.
ForgottenIsOld ==
  \A n \in Note : n \notin recent.set /\ handling # n => since[n] = RecentCapacity

\* A remembered note is as old as the members behind it are many.
AgedByNewer ==
  \A i \in DOMAIN recent.deque :
    since[recent.deque[i]] >= Len(recent.deque) - i

IInv == TypeOK /\ recent \in LruType(Note) /\ ForgottenIsOld /\ AgedByNewer

memory == <<recent, handling, since>>

LEMMA InitInv == Init => IInv
<1> SUFFICES ASSUME Init
             PROVE  IInv
  OBVIOUS
<1> USE SyncAssumption DEF Init, NewLruSet
<1>1. /\ recent.deque = <<>> /\ recent.set = {}
      /\ <<>> \in Seq(Note) /\ Len(<<>>) = 0 /\ DOMAIN <<>> = {}
  OBVIOUS
<1>2. TypeOK
  <2>1. Agrees(recent, RecentCapacity) /\ recent.set \subseteq Note
    BY <1>1 DEF Agrees
  <2>2. /\ notices \in Seq(Note) /\ ingest \subseteq Note /\ db \subseteq Note
        /\ handling \in Note \cup {NoNote}
    BY <1>1
  <2>3. since \in [Note -> 0 .. RecentCapacity] /\ pingers \in 0 .. MaxPingers
    OBVIOUS
  <2>4. noteAge \in 0 .. NoteIdle /\ syncAge \in 0 .. ReconcileIdle
    OBVIOUS
  <2> QED
    BY <2>1, <2>2, <2>3, <2>4 DEF TypeOK
<1> QED
  <2>1. recent = [set |-> {}, deque |-> <<>>]
    OBVIOUS
  <2>2. recent \in LruType(Note)
    BY <1>1, <2>1 DEF LruType
  <2>3. ForgottenIsOld /\ AgedByNewer
    BY <1>1 DEF ForgottenIsOld, AgedByNewer
  <2> QED
    BY <1>2, <2>2, <2>3 DEF IInv

\* A step that leaves the memory alone keeps what is said of it.
LEMMA MemoryKept ==
  ASSUME IInv, UNCHANGED memory, TypeOK'
  PROVE  IInv'
BY DEF IInv, memory, ForgottenIsOld, AgedByNewer

LEMMA HandleNoteInv ==
  ASSUME IInv, NEW n \in Note, HandleNote(n)
  PROVE  IInv'
<1> USE SyncAssumption
<1>1. /\ Unlocked /\ handling' = n /\ recent' = recent
      /\ since' = IF n \in recent.set THEN since ELSE [since EXCEPT ![n] = 0]
  BY DEF HandleNote, Contains
<1>2. since \in [Note -> 0 .. RecentCapacity] /\ RecentCapacity \in Nat
  BY DEF IInv, TypeOK
<1>3. TypeOK'
  <2>1. since' \in [Note -> 0 .. RecentCapacity]
    BY <1>1, <1>2
  <2> QED
    BY <1>1, <2>1 DEF IInv, TypeOK, HandleNote, flags, delayed
<1>4. \A m \in Note : m # n \/ n \in recent.set => since'[m] = since[m]
  BY <1>1, <1>2
<1>5. ForgottenIsOld'
  BY <1>1, <1>4 DEF IInv, ForgottenIsOld, Unlocked
<1>6. AgedByNewer'
  <2>1. \A i \in DOMAIN recent.deque :
          recent.deque[i] \in recent.set /\ recent.deque[i] \in Note
    BY DEF IInv, TypeOK, Agrees
  <2> QED
    BY <1>1, <1>4, <2>1 DEF IInv, AgedByNewer
<1> QED
  BY <1>1, <1>3, <1>5, <1>6 DEF IInv

LEMMA MarkNoteInv ==
  ASSUME IInv, MarkNote
  PROVE  IInv'
<1> USE SyncAssumption
<1> DEFINE h == handling
           q == recent.deque
           len == Len(q)
           d == IF len = RecentCapacity THEN 1 ELSE 0
<1>1. /\ h \in Note /\ handling' = NoNote
      /\ recent' = Insert(recent, h, RecentCapacity)
      /\ \A m \in Note :
           since'[m] = IF h \in recent.set \/ m = h \/ since[m] = RecentCapacity
                         THEN since[m] ELSE since[m] + 1
      /\ DOMAIN since' = Note
      /\ since' = [m \in Note |-> since'[m]]
  BY DEF MarkNote, IInv, TypeOK, Unlocked, Contains
<1>2. \A m \in Note : since[m] \in 0 .. RecentCapacity
  BY DEF IInv, TypeOK
<1>3. \A m \in Note : since'[m] \in 0 .. RecentCapacity
  BY <1>1, <1>2
<1>4. since' \in [Note -> 0 .. RecentCapacity]
  BY <1>1, <1>3
<1>5. TypeOK' <=> Agrees(recent', RecentCapacity) /\ recent'.set \subseteq Note
  BY <1>1, <1>4 DEF MarkNote, IInv, TypeOK, flags, ages, delayed
<1>6. CASE h \in recent.set
  <2>1. recent' = recent /\ \A m \in Note : since'[m] = since[m]
    BY <1>1, <1>6 DEF Insert
  <2>2. TypeOK'
    BY <1>5, <2>1 DEF IInv, TypeOK
  <2>3. ForgottenIsOld'
    BY <1>1, <1>6, <2>1 DEF IInv, ForgottenIsOld
  <2>4. AgedByNewer'
    <3>1. \A i \in DOMAIN recent.deque : recent.deque[i] \in Note
      BY DEF IInv, TypeOK, Agrees
    <3> QED
      BY <2>1, <3>1 DEF IInv, AgedByNewer
  <2> QED
    BY <2>1, <2>2, <2>3, <2>4 DEF IInv
<1>7. CASE h \notin recent.set
  <2>1. Agrees(recent, RecentCapacity) /\ recent \in LruType(Note)
    BY DEF IInv, TypeOK
  <2>2. /\ recent' \in LruType(Note)
        /\ Agrees(recent', RecentCapacity)
        /\ Inserted(recent, recent', h, d)
    BY <1>1, <1>7, <2>1, InsertOK
  <2>3. TypeOK'
    BY <1>5, <2>2 DEF LruType
  <2>4. /\ len \in Nat /\ len <= RecentCapacity /\ DOMAIN q = 1 .. len
        /\ recent.set = {q[i] : i \in 1 .. len} /\ recent.set \subseteq Note
        /\ d \in {0, 1} /\ (d = 1 => len = RecentCapacity)
    BY <2>1, LenProperties DEF LruType, Agrees
  <2>5. \A i \in 1 .. len : since[q[i]] >= len - i
    BY <2>4 DEF IInv, AgedByNewer
  <2>6. /\ d = 1 => recent'.set = (recent.set \ {q[1]}) \cup {h}
        /\ d = 0 => recent'.set = recent.set \cup {h}
        /\ Len(recent'.deque) = len - d + 1
        /\ \A j \in 1 .. len - d : recent'.deque[j] = q[j + d]
        /\ recent'.deque[len - d + 1] = h
    BY <2>2 DEF Inserted
  <2> HIDE DEF d, q, len
  <2>7. ForgottenIsOld'
    <3> SUFFICES ASSUME NEW m \in Note, m \notin recent'.set
                 PROVE  since'[m] = RecentCapacity
      BY DEF ForgottenIsOld
    <3>1. m # h
      BY <2>4, <2>6
    <3>2. CASE m \notin recent.set
      BY <1>1, <3>1, <3>2 DEF IInv, ForgottenIsOld
    <3>3. CASE m \in recent.set
      <4>1. d = 1 /\ m = q[1] /\ len = RecentCapacity
        BY <2>4, <2>6, <3>3
      <4>2. since[m] >= RecentCapacity - 1
        BY <2>4, <2>5, <4>1
      <4> QED
        BY <1>1, <1>2, <1>7, <3>1, <4>2
    <3> QED
      BY <3>2, <3>3
  <2>8. AgedByNewer'
    <3>1. /\ DOMAIN recent'.deque = 1 .. len - d + 1
          /\ len - d + 1 <= RecentCapacity
      BY <2>2, <2>6, LenProperties DEF LruType, Agrees
    <3> SUFFICES ASSUME NEW i \in 1 .. len - d + 1
                 PROVE  since'[recent'.deque[i]] >= (len - d + 1) - i
      BY <2>6, <3>1 DEF AgedByNewer
    <3>2. CASE i \in 1 .. len - d
      <4>1. i + d \in 1 .. len /\ recent'.deque[i] = q[i + d]
        BY <2>4, <2>6, <3>2
      <4>2. q[i + d] \in Note /\ q[i + d] # h /\ since[q[i + d]] >= len - (i + d)
        BY <1>7, <2>4, <2>5, <4>1
      <4>3. since'[q[i + d]] = RecentCapacity \/ since'[q[i + d]] = since[q[i + d]] + 1
        BY <1>1, <1>7, <4>2
      <4>4. since[q[i + d]] \in Nat
        BY <1>2, <4>2
      <4> QED
        BY <2>4, <3>1, <4>1, <4>2, <4>3, <4>4
    <3>3. CASE i = len - d + 1
      <4>1. since'[h] \in Nat
        BY <1>1, <1>3
      <4> QED
        BY <2>4, <2>6, <3>3, <4>1
    <3> QED
      BY <2>4, <3>2, <3>3
  <2> QED
    BY <2>2, <2>3, <2>7, <2>8 DEF IInv
<1> QED
  BY <1>6, <1>7

LEMMA NextInv ==
  ASSUME IInv, [Next]_vars
  PROVE  IInv'
<1> USE SyncAssumption
<1>t. TypeOK
  BY DEF IInv
<1> USE DEF memory, heard, notes, flags, ages, delayed
<1>1. CASE LinkReady
  BY <1>1, <1>t, MemoryKept DEF LinkReady, TypeOK
<1>2. ASSUME NEW qlen \in Qlen, LinkInfo(qlen) PROVE IInv'
  BY <1>2, <1>t, MemoryKept DEF LinkInfo, ShouldPause, TypeOK
<1>3. CASE HandlePing
  BY <1>3, <1>t, MemoryKept DEF HandlePing, TypeOK
<1>4. CASE HandleGarbledNote
  BY <1>4, <1>t, MemoryKept DEF HandleGarbledNote, TypeOK
<1>5. ASSUME NEW n \in Note, HandleNote(n) PROVE IInv'
  BY <1>5, HandleNoteInv
<1>6. ASSUME NEW level \in NegLevel, NEW have \in SUBSET db, NEW next \in BOOLEAN,
             HandleNegentropy(level, have, next)
      PROVE  IInv'
  BY <1>6, <1>t, MemoryKept DEF HandleNegentropy, TypeOK
<1>7. CASE MarkNote
  BY <1>7, MarkNoteInv
<1>8. CASE SendPong
  BY <1>8, <1>t, MemoryKept DEF SendPong, TypeOK
<1>9. CASE StartPinging
  BY <1>9, <1>t, MemoryKept DEF StartPinging, TypeOK
<1>10. CASE StopPinging
  BY <1>10, <1>t, MemoryKept DEF StopPinging, TypeOK
<1>11. CASE SendPing
  BY <1>11, <1>t, MemoryKept DEF SendPing, TypeOK
<1>12. ASSUME NEW n \in Note, Publish(n) PROVE IInv'
  BY <1>12, <1>t, MemoryKept DEF Publish, TypeOK
<1>13. ASSUME NEW n \in Note, Ingest(n) PROVE IInv'
  <2>1. Append(notices, n) \in Seq(Note)
    BY <1>t, AppendProperties DEF TypeOK
  <2> QED
    BY <1>13, <1>t, <2>1, MemoryKept DEF Ingest, TypeOK
<1>14. CASE RelayNote
  <2>1. Tail(notices) \in Seq(Note)
    BY <1>14, <1>t, HeadTailProperties DEF RelayNote, TypeOK
  <2> QED
    BY <1>14, <1>t, <2>1, MemoryKept DEF RelayNote, TypeOK
<1>15. CASE Tick
  BY <1>15, <1>t, MemoryKept DEF Tick, TypeOK
<1>16. CASE UNCHANGED vars
  BY <1>16, <1>t, MemoryKept DEF vars, TypeOK
<1> QED
  BY <1>1, <1>2, <1>3, <1>4, <1>5, <1>6, <1>7, <1>8, <1>9, <1>10, <1>11, <1>12,
     <1>13, <1>14, <1>15, <1>16 DEF Next, Receive

LEMMA AlwaysInv == Spec => []IInv
BY InitInv, NextInv, PTL DEF Spec

-----------------------------------------------------------------------------

\* Every variable keeps its shape, and the hash set and the deque of
\* recently_inserted agree (lruset.rs:24-37).
THEOREM TypeCorrect == Spec => []TypeOK
<1>1. IInv => TypeOK
  BY DEF IInv
<1> QED
  BY <1>1, AlwaysInv, PTL

\* A step keeps the promise if it relays nothing, or relays what is forgotten.
LEMMA NoEchoStep ==
  ASSUME IInv, [Next]_vars
  PROVE  notices # <<>> /\ notices' = Tail(notices) /\ sent' # {}
           => since[Head(notices)] >= RecentCapacity
<1> USE SyncAssumption
<1> SUFFICES ASSUME notices # <<>>, notices' = Tail(notices), sent' # {}
             PROVE  since[Head(notices)] >= RecentCapacity
  OBVIOUS
<1>1. /\ notices \in Seq(Note) /\ Head(notices) \in Note
      /\ Len(Tail(notices)) = Len(notices) - 1 /\ Len(notices) \in Nat
  BY HeadTailProperties, LenProperties DEF IInv, TypeOK
<1>2. notices' # notices
  <2>1. Len(notices') = Len(notices) - 1
    BY <1>1
  <2>2. \A k \in Nat : k - 1 # k
    OBVIOUS
  <2>3. Len(notices) \in Nat
    BY <1>1
  <2> QED
    BY <2>1, <2>2, <2>3
<1>3. RelayNote
  <2>1. ASSUME NEW n \in Note, Ingest(n) PROVE FALSE
    <3>1. sent' = {}
      BY <2>1 DEF Ingest
    <3> QED
      BY <3>1
  <2> QED
    BY <1>2, <2>1 DEF Next, Receive, vars, heard, notes, LinkReady, LinkInfo,
       HandlePing, HandleGarbledNote, HandleNote, HandleNegentropy, MarkNote,
       SendPong, StartPinging, StopPinging, SendPing, Publish, Tick
<1>4. Head(notices) \notin recent.set /\ handling = NoNote
  BY <1>3 DEF RelayNote, Contains, Unlocked
<1> QED
  BY <1>1, <1>4 DEF IInv, ForgottenIsOld

\* A note heard from the mesh is not sent back to it by the local subscription
\* unless recently_inserted has been filled with newer ones since, whatever the
\* capacity and however the database and the handlers interleave
\* (sync.rs:220-232,246-252,357-400).
THEOREM HeardIsNotEchoed == Spec => NoEcho
<1>1. IInv /\ [Next]_vars
        => [notices # <<>> /\ notices' = Tail(notices) /\ sent' # {}
              => since[Head(notices)] >= RecentCapacity]_vars
  BY NoEchoStep
<1> QED
  BY <1>1, AlwaysInv, PTL DEF Spec, NoEcho

\* A paused node neither starts nor answers a negentropy exchange, with messages or
\* with notes: all it hands to the link are pings, pongs and the notes of its own
\* subscription, for all thresholds with the refill below the pause
\* (sync.rs:55-57,141-190,318-352).
THEOREM PausedSendsNothing == Spec => PausedIsSilent
<1> DEFINE Silent ==
             pauseSync' =>
               \A m \in sent' :
                 \/ m \in {Ping, Pong}
                 \/ notices # <<>> /\ notices' = Tail(notices) /\ m = EncNote(Head(notices))
<1>1. ASSUME [Next]_vars
      PROVE  [Silent]_vars
  <2> USE SyncAssumption
  <2>1. ASSUME NEW qlen \in Qlen, LinkInfo(qlen), pauseSync'
        PROVE  sent' = {}
    <3>1. qlen \in Nat /\ qlen >= PauseThresh
      BY <2>1 DEF LinkInfo, ShouldPause
    <3>2. ~MayInitiate(qlen)
      BY <3>1 DEF MayInitiate
    <3> QED
      BY <2>1, <3>2 DEF LinkInfo
  <2>2. ASSUME NEW level \in NegLevel, NEW have \in SUBSET db, NEW next \in BOOLEAN,
               HandleNegentropy(level, have, next), pauseSync'
        PROVE  sent' = {}
    BY <2>2 DEF HandleNegentropy, flags
  <2>3. ASSUME NEW n \in Note, Publish(n) \/ Ingest(n) \/ HandleNote(n)
        PROVE  sent' = {}
    BY <2>3 DEF Publish, Ingest, HandleNote
  <2>4. CASE \/ LinkReady \/ HandlePing \/ HandleGarbledNote \/ MarkNote
             \/ StartPinging \/ StopPinging \/ Tick
    <3>1. sent' = {}
      BY <2>4 DEF LinkReady, HandlePing, HandleGarbledNote, MarkNote, StartPinging,
         StopPinging, Tick
    <3> QED
      BY <3>1
  <2>5. CASE SendPong \/ SendPing
    <3>1. sent' \subseteq {Ping, Pong}
      BY <2>5 DEF SendPong, SendPing
    <3> QED
      BY <3>1
  <2>6. CASE RelayNote
    <3>1. /\ notices # <<>> /\ notices' = Tail(notices)
          /\ sent' \subseteq {EncNote(Head(notices))}
      BY <2>6 DEF RelayNote
    <3> QED
      BY <3>1
  <2>7. CASE UNCHANGED vars
    BY <2>7
  <2> QED
    BY <1>1, <2>1, <2>2, <2>3, <2>4, <2>5, <2>6, <2>7 DEF Next, Receive
<1>2. PausedIsSilent <=> [][Silent]_vars
  BY DEF PausedIsSilent
<1> QED
  BY <1>1, <1>2, PTL DEF Spec

=============================================================================
