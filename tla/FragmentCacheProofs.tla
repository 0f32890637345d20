------------------------ MODULE FragmentCacheProofs ------------------------
(***************************************************************************)
(* The safety properties of FragmentCache, for any number of messages and  *)
(* chunks, octets of any width, and all times that fit into one another as *)
(* the code's do.                                                          *)
(***************************************************************************)
EXTENDS FragmentCache, FragCacheProofs, SequenceTheorems

\* What a client may get, and what a node may put on the air.
LinkMsgs == {[msgid |-> m, data |-> Original(m)] : m \in Base}
HonestFrags == UNION {{FragOf(m, i, k) : i \in Indices(m), k \in Rot} : m \in Base}

\* Times run forward, and the need timer ticks next within its period.
TimesOK ==
  /\ clock \in 0 .. MaxClock
  /\ nextNeed \in Nat
  /\ clock <= nextNeed /\ nextNeed <= clock + NeedSecs
  /\ \A m \in DOMAIN cache :
       cache[m].created <= cache[m].lasttry /\ cache[m].lasttry <= clock

\* An upcall leaves its entry completed: the flag is what keeps a second one
\* from being made.
UpcallsOK ==
  /\ upcalls \in Seq(LinkMsgs)
  /\ \A n \in DOMAIN upcalls :
       /\ upcalls[n].msgid \in DOMAIN cache
       /\ cache[upcalls[n].msgid].completed

\* An entry that has not been asked for was not yet overdue at the last tick of
\* the need timer, so that it still will be at the next.
AskedInTime ==
  \A m \in DOMAIN cache :
    Missing(cache[m]) # {} /\ cache[m].lasttry = cache[m].created =>
      nextNeed < cache[m].created + Overdue + NeedSecs

IInv ==
  /\ CacheOK(cache)
  /\ TimesOK
  /\ UpcallsOK
  /\ UpcallOnce
  /\ reply \subseteq HonestFrags
  /\ OnlyInboundIncomplete
  /\ AskedInTime

\* What every step keeps, of entries in and past their window: NothingForgotten asks
\* it of the former, and the code, which purges nothing, gives it to all.
Kept ==
  \A m \in DOMAIN cache :
    /\ m \in DOMAIN cache'
    /\ Missing(cache'[m]) \subseteq Missing(cache[m])
    /\ cache[m].completed => cache'[m].completed

-----------------------------------------------------------------------------
(* The invariant implies what the runs check *)

LEMMA FragOfDecodes ==
  ASSUME NEW f \in HonestFrags
  PROVE  f.numfrag = NumFrag[f.msgid] /\ Unrotate(f.data, f.rotoff) = Chunk(f.msgid, f.fragndx)
<1>1. PICK m \in Base : \E i \in Indices(m), k \in Rot : f = FragOf(m, i, k)
  BY DEF HonestFrags
<1>2. PICK i \in Indices(m), k \in Rot : f = FragOf(m, i, k)
  BY <1>1
<1>3. i \in Nat
  BY IndicesType
<1> QED
  BY <1>2, <1>3, UnrotateRotate DEF FragOf

LEMMA InvImplies ==
  ASSUME IInv
  PROVE  /\ TypeOK /\ CachedIntact /\ DeliveredIntact /\ UpcallOnce
         /\ RepliesDecode /\ OnlyInboundIncomplete /\ AskedBeforeExpiry
<1> USE DEF IInv
<1>1. \A m \in DOMAIN cache : m \in Base /\ PartialOK(m, cache[m])
  BY DEF CacheOK
<1>2. TypeOK
  <2>1. ASSUME NEW m \in DOMAIN cache
        PROVE  LET p == cache[m]
               IN  /\ DOMAIN p = {"inbound", "created", "lasttry", "completed", "frags"}
                   /\ p.inbound \in BOOLEAN /\ p.completed \in BOOLEAN
                   /\ p.created \in 0 .. clock
                   /\ p.lasttry \in p.created .. clock
                   /\ DOMAIN p.frags = 0 .. NumFrag[m] - 1
                   /\ \A i \in DOMAIN p.frags : p.frags[i].rotoff \in 0 .. RotMod - 1
    <3>1. PartialOK(m, cache[m])
      BY <1>1
    <3>2. cache[m].created <= cache[m].lasttry /\ cache[m].lasttry <= clock /\ clock \in Int
      BY DEF TimesOK
    <3>3. /\ DOMAIN cache[m] = {"inbound", "created", "lasttry", "completed", "frags"}
          /\ cache[m].inbound \in BOOLEAN /\ cache[m].completed \in BOOLEAN
      BY <3>1 DEF PartialOK
    <3>4. /\ cache[m].created \in 0 .. clock
          /\ cache[m].lasttry \in cache[m].created .. clock
      BY <3>1, <3>2 DEF PartialOK
    <3>5. /\ DOMAIN cache[m].frags = 0 .. NumFrag[m] - 1
          /\ \A i \in DOMAIN cache[m].frags : cache[m].frags[i].rotoff \in 0 .. RotMod - 1
      BY <3>1 DEF PartialOK, Indices, Rot
    <3> QED
      BY <3>3, <3>4, <3>5
  <2> QED
    BY <1>1, <2>1 DEF TypeOK, TimesOK
<1>3. CachedIntact
  BY <1>1 DEF CachedIntact, PartialOK
<1>4. DeliveredIntact
  <2> SUFFICES ASSUME NEW n \in DOMAIN upcalls
               PROVE  upcalls[n].data = Original(upcalls[n].msgid)
    BY DEF DeliveredIntact
  <2>1. upcalls[n] \in LinkMsgs
    BY LenProperties, ElementOfSeq DEF UpcallsOK
  <2> QED
    BY <2>1 DEF LinkMsgs
<1>5. RepliesDecode
  BY FragOfDecodes DEF RepliesDecode
<1>6. AskedBeforeExpiry
  <2> SUFFICES ASSUME NEW m \in DOMAIN cache, Missing(cache[m]) # {},
                      Expired(cache[m], clock), ~(cache[m].lasttry > cache[m].created)
               PROVE  FALSE
    BY DEF AskedBeforeExpiry
  <2> DEFINE c == cache[m].created
             l == cache[m].lasttry
  <2>1. /\ c \in Nat /\ l \in Nat /\ clock \in Nat /\ nextNeed \in Nat
        /\ c <= l /\ clock <= nextNeed
    BY <1>1 DEF PartialOK, TimesOK
  <2>2. clock >= c + MaxAge /\ ~(l > c)
    BY DEF Expired
  <2> HIDE DEF c, l
  <2>3. l = c
    BY <2>1, <2>2
  <2>4. nextNeed < c + Overdue + NeedSecs
    BY <2>3 DEF AskedInTime, c, l
  <2> QED
    BY <2>1, <2>2, <2>4, FragCacheAssumption, FragmentCacheAssumption, WindowAssumption
<1> QED
  BY <1>2, <1>3, <1>4, <1>5, <1>6

-----------------------------------------------------------------------------

LEMMA InitInv == Init => IInv
<1> SUFFICES ASSUME Init PROVE IInv
  OBVIOUS
<1>1. DOMAIN cache = {}
  BY DEF Init
<1>2. TimesOK
  BY <1>1, FragmentCacheAssumption DEF Init, TimesOK
<1>3. upcalls \in Seq(LinkMsgs) /\ DOMAIN upcalls = {}
  BY EmptySeq DEF Init
<1> QED
  BY <1>1, <1>2, <1>3
  DEF Init, IInv, CacheOK, UpcallsOK, UpcallOnce, OnlyInboundIncomplete, AskedInTime

\* A fragment from the mesh.
LEMMA HandleFragmentInv ==
  ASSUME IInv, NEW m \in Base, NEW i \in 0 .. NumFrag[m], NEW k \in 0 .. RotMod - 1,
         HandleFragment(m, i, k)
  PROVE  IInv' /\ Kept
<1> DEFINE f == FragOf(m, i, k)
           p == Found(cache, m, TRUE, clock)
           up == Assembled(cache, f, TRUE, clock)
           msg == [msgid |-> m, data |-> Original(m)]
<1>1. /\ i \in Nat /\ k \in Rot /\ clock \in Nat /\ nextNeed \in Nat
      /\ CacheOK(cache) /\ clock <= nextNeed /\ nextNeed <= clock + NeedSecs
  BY IndicesType DEF IInv, TimesOK, Rot
<1>2. /\ cache' = AddFragment(cache, f, TRUE, clock)
      /\ upcalls' = upcalls \o SetToUpcalls(up)
      /\ reply' = {} /\ clock' = clock /\ nextNeed' = nextNeed
  BY DEF HandleFragment
<1>3. AddedTo(cache, AddFragment(cache, f, TRUE, clock), up, m, i, TRUE, clock)
  BY <1>1, AddFragmentOK
<1> HIDE DEF f, up
<1>4. /\ CacheOK(cache')
      /\ DOMAIN cache' = DOMAIN cache \cup {m}
      /\ \A b \in DOMAIN cache \ {m} : cache'[b] = cache[b]
      /\ m \in DOMAIN cache => p = cache[m]
      /\ m \notin DOMAIN cache =>
           p.inbound /\ p.created = clock /\ p.lasttry = clock /\ ~p.completed
      /\ Missing(cache'[m]) = Missing(p) \ {i}
      /\ cache'[m].inbound = p.inbound
      /\ cache'[m].created = p.created
      /\ cache'[m].lasttry = p.lasttry
      /\ p.completed => cache'[m].completed
      /\ up = IF ~p.completed /\ cache'[m].completed THEN {msg} ELSE {}
  BY <1>2, <1>3 DEF AddedTo, Found, NewPartial
<1> HIDE DEF p
<1>5. Kept
  BY <1>4 DEF Kept
<1>6. TimesOK'
  <2>1. ASSUME NEW b \in DOMAIN cache'
        PROVE  cache'[b].created <= cache'[b].lasttry /\ cache'[b].lasttry <= clock
    <3>1. CASE b \in DOMAIN cache
      BY <1>4, <3>1 DEF IInv, TimesOK
    <3>2. CASE b \notin DOMAIN cache
      BY <1>1, <1>4, <3>2
    <3> QED
      BY <3>1, <3>2
  <2> QED
    BY <1>2, <2>1 DEF IInv, TimesOK
<1>7. OnlyInboundIncomplete'
  BY <1>4 DEF IInv, OnlyInboundIncomplete
<1>8. AskedInTime'
  <2> SUFFICES ASSUME NEW b \in DOMAIN cache', Missing(cache'[b]) # {},
                      cache'[b].lasttry = cache'[b].created
               PROVE  nextNeed' < cache'[b].created + Overdue + NeedSecs
    BY DEF AskedInTime
  <2>1. CASE b \in DOMAIN cache
    <3>1. /\ Missing(cache[b]) # {}
          /\ cache[b].lasttry = cache[b].created
          /\ cache'[b].created = cache[b].created
      BY <1>4, <2>1
    <3> QED
      BY <1>2, <2>1, <3>1 DEF IInv, AskedInTime
  <2>2. CASE b \notin DOMAIN cache
    <3>1. b = m /\ cache'[b].created = clock
      BY <1>4, <2>2
    <3>2. nextNeed < clock + Overdue + NeedSecs
      BY <1>1, FragCacheAssumption, FragmentCacheAssumption
    <3> QED
      BY <1>2, <3>1, <3>2
  <2> QED
    BY <2>1, <2>2
<1>9. UpcallsOK' /\ UpcallOnce'
  <2>1. CASE up = {}
    <3>1. upcalls' = upcalls
      BY <1>2, <2>1, ConcatEmptySeq DEF SetToUpcalls, IInv, UpcallsOK
    <3> QED
      BY <1>5, <3>1 DEF IInv, UpcallsOK, UpcallOnce, Kept
  <2>2. CASE up # {}
    <3>1. up = {msg} /\ ~p.completed /\ cache'[m].completed
      BY <1>4, <2>2
    <3>2. upcalls' = upcalls \o <<msg>>
      BY <1>2, <3>1 DEF SetToUpcalls
    <3>3. \A n \in DOMAIN upcalls : upcalls[n].msgid # m
      BY <1>4, <3>1 DEF IInv, UpcallsOK
    <3>4. upcalls \in Seq(LinkMsgs) /\ msg \in LinkMsgs
      BY DEF IInv, UpcallsOK, LinkMsgs
    <3> HIDE DEF msg
    <3>5. /\ Len(upcalls) \in Nat /\ DOMAIN upcalls = 1 .. Len(upcalls)
          /\ upcalls' \in Seq(LinkMsgs)
          /\ DOMAIN upcalls' = 1 .. Len(upcalls) + 1
          /\ \A n \in DOMAIN upcalls : upcalls'[n] = upcalls[n]
          /\ upcalls'[Len(upcalls) + 1] = msg
      BY <3>2, <3>4
    <3>6. \A n \in DOMAIN upcalls' : n \in DOMAIN upcalls \/ n = Len(upcalls) + 1
      BY <3>5
    <3>7. msg.msgid = m
      BY DEF msg
    <3>8. UpcallsOK'
      BY <1>4, <1>5, <3>1, <3>5, <3>6, <3>7 DEF IInv, UpcallsOK, Kept
    <3>9. UpcallOnce'
      BY <3>3, <3>5, <3>6, <3>7 DEF IInv, UpcallOnce
    <3> QED
      BY <3>8, <3>9
  <2> QED
    BY <2>1, <2>2
<1> QED
  BY <1>2, <1>4, <1>5, <1>6, <1>7, <1>8, <1>9 DEF IInv

\* A message of the client.
LEMMA SendFragmentsInv ==
  ASSUME IInv, NEW m \in Base, SendFragments(m)
  PROVE  IInv' /\ Kept
<1>1. /\ clock \in Nat /\ nextNeed \in Nat /\ CacheOK(cache)
      /\ clock <= nextNeed
  BY DEF IInv, TimesOK
<1>2. /\ cache' = AddOwn(cache, m, clock)
      /\ reply' = {FragOf(m, i, 0) : i \in 0 .. NumFrag[m] - 1}
      /\ upcalls' = upcalls /\ clock' = clock /\ nextNeed' = nextNeed
  BY DEF SendFragments
<1>3. Owned(cache, cache', m, clock)
  BY <1>1, <1>2, AddOwnOK
<1>4. /\ CacheOK(cache')
      /\ DOMAIN cache' = DOMAIN cache \cup {m}
      /\ \A b \in DOMAIN cache \ {m} : cache'[b] = cache[b]
      /\ Missing(cache'[m]) = {}
      /\ m \in DOMAIN cache =>
           /\ cache'[m].inbound = cache[m].inbound
           /\ cache'[m].created = cache[m].created
           /\ cache'[m].lasttry = cache[m].lasttry
           /\ cache'[m].completed = cache[m].completed
      /\ m \notin DOMAIN cache =>
           ~cache'[m].inbound /\ cache'[m].created = clock /\ cache'[m].lasttry = clock
  BY <1>3 DEF Owned, Found, NewPartial
<1>5. Kept
  BY <1>4 DEF Kept
<1>6. TimesOK'
  <2>1. ASSUME NEW b \in DOMAIN cache'
        PROVE  cache'[b].created <= cache'[b].lasttry /\ cache'[b].lasttry <= clock
    <3>1. CASE b \in DOMAIN cache
      BY <1>4, <3>1 DEF IInv, TimesOK
    <3>2. CASE b \notin DOMAIN cache
      BY <1>1, <1>4, <3>2
    <3> QED
      BY <3>1, <3>2
  <2> QED
    BY <1>2, <2>1 DEF IInv, TimesOK
<1>7. UpcallsOK' /\ UpcallOnce'
  BY <1>2, <1>5 DEF IInv, UpcallsOK, UpcallOnce, Kept
<1>8. reply' \subseteq HonestFrags
  <2>1. 0 \in Rot
    BY FragCacheAssumption DEF Rot
  <2> QED
    BY <1>2, <2>1 DEF HonestFrags, Indices
<1>9. OnlyInboundIncomplete' /\ AskedInTime'
  BY <1>2, <1>4 DEF IInv, OnlyInboundIncomplete, AskedInTime
<1> QED
  BY <1>4, <1>5, <1>6, <1>7, <1>8, <1>9 DEF IInv

\* A request of another node.
LEMMA HandleNeedInv ==
  ASSUME IInv, NEW m \in Base, NEW ndxs, HandleNeed(m, ndxs)
  PROVE  IInv' /\ Kept
<1>1. CacheOK(cache)
  BY DEF IInv
<1>2. /\ cache' = Fulfilled(cache, m, ndxs)
      /\ reply' = Resends(cache, m, ndxs)
      /\ upcalls' = upcalls /\ clock' = clock /\ nextNeed' = nextNeed
  BY DEF HandleNeed
<1>3. /\ CacheOK(cache')
      /\ DOMAIN cache' = DOMAIN cache
      /\ \A b \in DOMAIN cache :
           /\ cache'[b].inbound = cache[b].inbound
           /\ cache'[b].created = cache[b].created
           /\ cache'[b].completed = cache[b].completed
           /\ cache'[b].lasttry = cache[b].lasttry
           /\ Missing(cache'[b]) = Missing(cache[b])
  BY <1>1, <1>2, FulfilledOK
<1>4. Kept
  BY <1>3 DEF Kept
<1>5. TimesOK' /\ OnlyInboundIncomplete' /\ AskedInTime'
  BY <1>2, <1>3 DEF IInv, TimesOK, OnlyInboundIncomplete, AskedInTime
<1>6. UpcallsOK' /\ UpcallOnce'
  BY <1>2, <1>4 DEF IInv, UpcallsOK, UpcallOnce, Kept
<1>7. reply' \subseteq HonestFrags
  <2> SUFFICES ASSUME NEW i \in Available(cache, m, ndxs)
               PROVE  Resend(cache, m, i) \in HonestFrags
    BY <1>2 DEF Resends
  <2>1. m \in DOMAIN cache
    BY DEF Available
  <2> QED
    BY <1>1, <2>1, ResendOK DEF HonestFrags
<1> QED
  BY <1>3, <1>4, <1>5, <1>6, <1>7 DEF IInv

\* A tick of the need timer: what is overdue is asked for, what is not yet
\* overdue still will be within the window at the next tick.
LEMMA SendFragmentRetriesInv ==
  ASSUME IInv, SendFragmentRetries
  PROVE  IInv' /\ Kept
<1>1. CacheOK(cache) /\ clock \in Nat /\ nextNeed = clock
  BY DEF IInv, TimesOK, SendFragmentRetries
<1>2. /\ cache' = Requested(cache, clock)
      /\ nextNeed' = nextNeed + NeedSecs
      /\ reply' = {} /\ upcalls' = upcalls /\ clock' = clock
  BY DEF SendFragmentRetries
<1>3. /\ CacheOK(cache')
      /\ DOMAIN cache' = DOMAIN cache
      /\ \A m \in DOMAIN cache :
           /\ cache'[m].inbound = cache[m].inbound
           /\ cache'[m].created = cache[m].created
           /\ cache'[m].completed = cache[m].completed
           /\ cache'[m].frags = cache[m].frags
           /\ cache'[m].lasttry = IF m \in ToRequest(cache, clock) THEN clock
                                  ELSE cache[m].lasttry
  BY <1>1, <1>2, RequestedOK
<1>4. \A m \in DOMAIN cache : Missing(cache'[m]) = Missing(cache[m])
  BY <1>3 DEF Missing
<1>5. Kept
  BY <1>3, <1>4 DEF Kept
<1>6. \A m \in DOMAIN cache :
        /\ cache[m].created \in Nat /\ cache[m].lasttry \in Nat
        /\ cache[m].created <= cache[m].lasttry /\ cache[m].lasttry <= clock
  BY <1>1 DEF CacheOK, PartialOK, IInv, TimesOK
<1>7. TimesOK'
  <2>1. nextNeed' \in Nat /\ clock <= nextNeed' /\ nextNeed' <= clock + NeedSecs
    BY <1>1, <1>2, FragmentCacheAssumption
  <2>2. \A m \in DOMAIN cache' :
          cache'[m].created <= cache'[m].lasttry /\ cache'[m].lasttry <= clock
    BY <1>1, <1>3, <1>6
  <2> QED
    BY <1>2, <2>1, <2>2 DEF IInv, TimesOK
<1>8. UpcallsOK' /\ UpcallOnce'
  BY <1>2, <1>5 DEF IInv, UpcallsOK, UpcallOnce, Kept
<1>9. OnlyInboundIncomplete'
  BY <1>3, <1>4 DEF IInv, OnlyInboundIncomplete
<1>10. AskedInTime'
  <2> SUFFICES ASSUME NEW m \in DOMAIN cache, Missing(cache[m]) # {},
                      cache'[m].lasttry = cache'[m].created
               PROVE  nextNeed' < cache[m].created + Overdue + NeedSecs
    BY <1>3, <1>4 DEF AskedInTime
  <2> DEFINE c == cache[m].created
             l == cache[m].lasttry
  <2>1. c \in Nat /\ l \in Nat /\ c <= l /\ l <= clock
    BY <1>6
  <2>2. cache'[m].created = c /\ cache'[m].lasttry = IF m \in ToRequest(cache, clock) THEN clock ELSE l
    BY <1>3
  <2>3. m \in ToRequest(cache, clock) <=> ~(clock >= c + MaxAge) /\ clock >= l + Overdue
    BY DEF ToRequest, Expired, IsOverdue
  <2>4. l = c => clock < c + Overdue + NeedSecs
    BY <1>1 DEF IInv, AskedInTime
  <2> HIDE DEF c, l
  <2>5. m \notin ToRequest(cache, clock)
    BY <1>1, <2>1, <2>2, <2>3, FragCacheAssumption
  <2>6. l = c
    BY <2>2, <2>5
  <2>7. clock < c + Overdue
    BY <1>1, <2>1, <2>3, <2>4, <2>5, <2>6, FragCacheAssumption, FragmentCacheAssumption,
       WindowAssumption
  <2> QED
    BY <1>1, <1>2, <2>1, <2>7, FragCacheAssumption, FragmentCacheAssumption DEF c
<1> QED
  BY <1>2, <1>3, <1>5, <1>7, <1>8, <1>9, <1>10 DEF IInv

\* Time passes up to the next tick of the timer and no further.
LEMMA TickInv ==
  ASSUME IInv, Tick
  PROVE  IInv' /\ Kept
<1>1. /\ cache' = cache /\ upcalls' = upcalls /\ nextNeed' = nextNeed
      /\ reply' = {} /\ clock' = clock + 1 /\ clock < MaxClock /\ clock < nextNeed
  BY DEF Tick
<1>2. \A m \in DOMAIN cache : cache[m].lasttry \in Nat
  BY DEF IInv, CacheOK, PartialOK
<1>3. TimesOK'
  BY <1>1, <1>2, FragmentCacheAssumption DEF IInv, TimesOK
<1>4. CacheOK(cache') /\ UpcallsOK' /\ UpcallOnce' /\ OnlyInboundIncomplete' /\ AskedInTime'
  BY <1>1 DEF IInv, UpcallsOK, UpcallOnce, OnlyInboundIncomplete, AskedInTime
<1>5. Kept
  BY <1>1 DEF Kept
<1> QED
  BY <1>1, <1>3, <1>4, <1>5 DEF IInv

\* One step of any caller keeps the invariant and forgets nothing.
LEMMA NextInv == IInv /\ [Next]_vars => IInv' /\ [Kept]_vars
<1> SUFFICES ASSUME IInv, [Next]_vars PROVE IInv' /\ [Kept]_vars
  OBVIOUS
<1>1. CASE Next
  BY <1>1, HandleFragmentInv, SendFragmentsInv, HandleNeedInv, SendFragmentRetriesInv,
     TickInv DEF Next
<1>2. CASE UNCHANGED vars
  BY <1>2 DEF vars, IInv, TimesOK, UpcallsOK, UpcallOnce, OnlyInboundIncomplete, AskedInTime
<1> QED
  BY <1>1, <1>2

LEMMA AlwaysInv == Spec => []IInv
BY InitInv, NextInv, PTL DEF Spec

-----------------------------------------------------------------------------

\* In every behaviour the cache keeps its shape, and no time in it is out of
\* order (fragcache.rs:45-62).
THEOREM TypeCorrect == Spec => []TypeOK
BY AlwaysInv, InvImplies, PTL

\* In every behaviour the cache holds the original octets of a chunk or none,
\* for every number of chunks and every width of an octet.
THEOREM CacheIsIntact == Spec => []CachedIntact
BY AlwaysInv, InvImplies, PTL

\* In every behaviour each message sent up is the one submitted at its origin.
THEOREM UpcallsAreIntact == Spec => []DeliveredIntact
BY AlwaysInv, InvImplies, PTL

\* In every behaviour a message is sent up at most once, however many fragments
\* are repeated and however late.
THEOREM UpcallsAreUnique == Spec => []UpcallOnce
BY AlwaysInv, InvImplies, PTL

\* In every behaviour whatever the cache resends decodes to the chunk it names.
THEOREM RepliesAreHonest == Spec => []RepliesDecode
BY AlwaysInv, InvImplies, PTL

\* In every behaviour only messages of other nodes are ever incomplete, so only
\* these are asked for.
THEOREM OwnIsWhole == Spec => []OnlyInboundIncomplete
BY AlwaysInv, InvImplies, PTL

\* If the overdue time and the timer's period fit in the retry window, then in
\* every behaviour an incomplete message has been asked for when it closes.
THEOREM AskedInWindow == Spec => []AskedBeforeExpiry
BY AlwaysInv, InvImplies, PTL

\* No step of any behaviour drops an entry within its retry window, a chunk cached
\* in it or the mark of a completed message.
THEOREM ForgetsNothing == Spec => NothingForgotten
<1> DEFINE Within == \A m \in DOMAIN cache : ~Expired(cache[m], clock) =>
                       /\ m \in DOMAIN cache'
                       /\ Missing(cache'[m]) \subseteq Missing(cache[m])
                       /\ cache[m].completed => cache'[m].completed
<1>1. [Kept]_vars => [Within]_vars
  BY DEF Kept
<1>2. NothingForgotten <=> [][Within]_vars
  BY DEF NothingForgotten
<1> QED
  BY <1>1, <1>2, InitInv, NextInv, PTL DEF Spec

=============================================================================
