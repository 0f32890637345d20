-------------------------- MODULE FragCacheProofs --------------------------
(***************************************************************************)
(* What the operations of the fragment cache keep and change, for messages *)
(* of any number of chunks and octets of any width.                        *)
(***************************************************************************)
EXTENDS FragCacheOps, FiniteSetTheorems, TLAPS

Indices(m) == 0 .. NumFrag[m] - 1
Rot == 0 .. RotMod - 1

\* A PartialMsg of message m whose chunks are the original ones, where it has
\* any.
PartialOK(m, p) ==
  /\ p \in [inbound : BOOLEAN, created : Nat, lasttry : Nat, completed : BOOLEAN,
            frags : [Indices(m) -> [rotoff : Rot, data : Octets \cup {NoData}]]]
  /\ \A i \in Indices(m) : p.frags[i].data \in {NoData, Chunk(m, i)}

CacheOK(cache) ==
  /\ DOMAIN cache \subseteq Base
  /\ \A m \in DOMAIN cache : PartialOK(m, cache[m])

-----------------------------------------------------------------------------
(* Octets *)

LEMMA ModProperties ==
  /\ \A k \in Int : k % RotMod \in Rot
  /\ \A k \in Rot : k % RotMod = k
BY FragCacheAssumption DEF Rot

LEMMA ChunkType ==
  ASSUME NEW m \in Base, NEW i \in Nat
  PROVE  Chunk(m, i) \in Octets /\ Chunk(m, i) # NoData
<1>1. 0 \in 0 .. RotMod - 1
  BY FragCacheAssumption
<1>2. Chunk(m, i) \in Octets
  BY <1>1 DEF Chunk, Octets
<1> QED
  BY <1>2, NoDataAssumption

LEMMA IndicesType ==
  ASSUME NEW m \in Base
  PROVE  /\ Indices(m) \subseteq Nat
         /\ NumFrag[m] \in Nat \ {0}
         /\ 0 \in Indices(m)
         /\ Cardinality(Indices(m)) = NumFrag[m]
<1>1. NumFrag[m] \in Nat \ {0}
  BY FragCacheAssumption
<1>2. Cardinality(0 .. NumFrag[m] - 1) = NumFrag[m]
  BY <1>1, FS_Interval
<1> QED
  BY <1>1, <1>2 DEF Indices

\* wrapping_sub undoes wrapping_add: whatever rotation a chunk travels with, the
\* receiver gets the octets of the sender.
LEMMA UnrotateRotate ==
  ASSUME NEW m \in Base, NEW i \in Nat, NEW k \in Rot
  PROVE  Unrotate(Rotate(Chunk(m, i), k), k) = Chunk(m, i)
<1>1. Rotate(Chunk(m, i), k) = [msg |-> m, ndx |-> i, rot |-> k]
  <2>1. 0 + k = k
    BY DEF Rot
  <2> QED
    BY <2>1, ModProperties DEF Rotate, Chunk
<1>2. (k - k) % RotMod = 0
  <2>1. k - k = 0 /\ 0 \in Rot
    BY FragCacheAssumption DEF Rot
  <2> QED
    BY <2>1, ModProperties
<1> QED
  BY <1>1, <1>2 DEF Unrotate, Chunk

-----------------------------------------------------------------------------
(* add_fragment *)

\* One entry, when chunk i of its message comes in, rotated by k.
LEMMA PartialAfterOK ==
  ASSUME NEW m \in Base, NEW i \in Nat, NEW k \in Rot, NEW inbound \in BOOLEAN,
         NEW p, PartialOK(m, p)
  PROVE  LET f == FragOf(m, i, k)
             r == PartialAfter(p, f, inbound)
         IN  /\ PartialOK(m, r)
             /\ Missing(r) = Missing(p) \ {i}
             /\ r.inbound = p.inbound
             /\ r.created = p.created
             /\ r.lasttry = p.lasttry
             /\ r.completed <=> p.completed \/ Completes(p, f, inbound)
             /\ Completes(p, f, inbound) <=>
                  inbound /\ ~p.completed /\ i \in Indices(m) /\ Missing(r) = {}
             /\ Completes(p, f, inbound) => Contents(Stored(p, f)) = Original(m)
<1> DEFINE f == FragOf(m, i, k)
           r == PartialAfter(p, f, inbound)
           s == Stored(p, f)
<1>1. /\ f.fragndx = i
      /\ Unrotate(f.data, f.rotoff) = Chunk(m, i)
  BY UnrotateRotate DEF FragOf
<1>2. s = [p EXCEPT !.frags[i].data = Chunk(m, i)]
  BY <1>1 DEF Stored
<1>3. InRange(p, f) <=> i \in Indices(m)
  BY <1>1 DEF InRange, PartialOK
<1>4. Chunk(m, i) \in Octets /\ Chunk(m, i) # NoData
  BY ChunkType
<1> HIDE DEF f
<1>5. CASE i \notin Indices(m)
  <2>1. r = p /\ ~Completes(p, f, inbound)
    BY <1>3, <1>5 DEF PartialAfter, Completes
  <2>2. i \notin Missing(p)
    BY <1>5 DEF Missing, PartialOK
  <2> QED
    BY <1>5, <2>1, <2>2 DEF f
<1>6. CASE i \in Indices(m)
  <2>1. /\ PartialOK(m, s)
        /\ s.inbound = p.inbound
        /\ s.created = p.created
        /\ s.lasttry = p.lasttry
        /\ s.completed = p.completed
        /\ \A j \in Indices(m) :
             s.frags[j].data = IF j = i THEN Chunk(m, i) ELSE p.frags[j].data
    BY <1>2, <1>4, <1>6 DEF PartialOK
  <2> HIDE DEF s
  <2>2. Missing(s) = Missing(p) \ {i}
    BY <1>4, <1>6, <2>1 DEF Missing, PartialOK
  <2>3. r = [s EXCEPT !.completed = @ \/ Completes(p, f, inbound)]
    BY <1>3, <1>6 DEF PartialAfter, s
  <2>4. Completes(p, f, inbound) \in BOOLEAN
    BY DEF Completes
  <2>5. /\ PartialOK(m, r)
        /\ r.inbound = s.inbound
        /\ r.created = s.created
        /\ r.lasttry = s.lasttry
        /\ r.frags = s.frags
        /\ r.completed <=> s.completed \/ Completes(p, f, inbound)
    BY <2>1, <2>3, <2>4 DEF PartialOK
  <2> HIDE DEF r
  <2>6. Missing(r) = Missing(s)
    BY <2>5 DEF Missing
  <2>7. Completes(p, f, inbound) <=> inbound /\ ~p.completed /\ Missing(r) = {}
    BY <1>3, <1>6, <2>6 DEF Completes, s
  <2>8. Missing(s) = {} => Contents(s) = Original(m)
    BY <2>1 DEF Missing, Contents, Original, PartialOK, Indices
  <2> QED
    BY <1>6, <2>1, <2>2, <2>5, <2>6, <2>7, <2>8 DEF r, s, f
<1> QED
  BY <1>5, <1>6

LEMMA NewPartialOK ==
  ASSUME NEW m \in Base, NEW inbound \in BOOLEAN, NEW now \in Nat
  PROVE  LET p == NewPartial(NumFrag[m], inbound, now)
         IN  /\ PartialOK(m, p)
             /\ Missing(p) = Indices(m)
             /\ p.inbound = inbound
             /\ p.created = now
             /\ p.lasttry = now
             /\ ~p.completed
<1>1. 0 \in Rot
  BY FragCacheAssumption DEF Rot
<1> QED
  BY <1>1 DEF NewPartial, PartialOK, Missing, Indices

\* The entry a fragment of m finds, or makes.
Found(cache, m, inbound, now) ==
  IF m \in DOMAIN cache THEN cache[m] ELSE NewPartial(NumFrag[m], inbound, now)

\* c and up are what add_fragment makes of a cache and returns, for chunk i of m:
\* the chunk is not missing any more, no other entry changes, and the message is
\* returned exactly when this completes it.
AddedTo(cache, c, up, m, i, inbound, now) ==
  LET p == Found(cache, m, inbound, now)
  IN  /\ CacheOK(c)
      /\ DOMAIN c = DOMAIN cache \cup {m}
      /\ \A b \in DOMAIN cache \ {m} : c[b] = cache[b]
      /\ Missing(c[m]) = Missing(p) \ {i}
      /\ c[m].inbound = p.inbound
      /\ c[m].created = p.created
      /\ c[m].lasttry = p.lasttry
      /\ p.completed => c[m].completed
      /\ up = IF ~p.completed /\ c[m].completed
                THEN {[msgid |-> m, data |-> Original(m)]} ELSE {}
      /\ ~p.completed /\ c[m].completed => Missing(c[m]) = {}
      /\ inbound /\ i \in Indices(m) /\ Missing(c[m]) = {} => c[m].completed

\* add_fragment on the whole cache.
LEMMA AddFragmentOK ==
  ASSUME NEW cache, CacheOK(cache), NEW m \in Base, NEW i \in Nat, NEW k \in Rot,
         NEW inbound \in BOOLEAN, NEW now \in Nat
  PROVE  AddedTo(cache, AddFragment(cache, FragOf(m, i, k), inbound, now),
                 Assembled(cache, FragOf(m, i, k), inbound, now), m, i, inbound, now)
<1> DEFINE f == FragOf(m, i, k)
           c == AddFragment(cache, f, inbound, now)
           p == Partial(cache, f, inbound, now)
           up == Assembled(cache, f, inbound, now)
           r == PartialAfter(p, f, inbound)
<1>1. f.msgid = m /\ f.numfrag = NumFrag[m]
  BY DEF FragOf
<1>2. p = Found(cache, m, inbound, now)
  BY <1>1 DEF Partial, Found
<1>3. PartialOK(m, p)
  BY <1>2, NewPartialOK DEF CacheOK, Found
<1>4. up = IF Completes(p, f, inbound)
             THEN {[msgid |-> m, data |-> Contents(Stored(p, f))]} ELSE {}
  BY <1>1 DEF Assembled
<1>5. c = Update(cache, m, r)
  BY <1>1 DEF AddFragment
<1> HIDE DEF p
<1>6. /\ PartialOK(m, r)
      /\ Missing(r) = Missing(p) \ {i}
      /\ r.inbound = p.inbound
      /\ r.created = p.created
      /\ r.lasttry = p.lasttry
      /\ r.completed <=> p.completed \/ Completes(p, f, inbound)
      /\ Completes(p, f, inbound) <=>
           inbound /\ ~p.completed /\ i \in Indices(m) /\ Missing(r) = {}
      /\ Completes(p, f, inbound) => Contents(Stored(p, f)) = Original(m)
  BY <1>3, PartialAfterOK
<1> HIDE DEF f, r, up, c
<1>7. /\ DOMAIN c = DOMAIN cache \cup {m}
      /\ c[m] = r
      /\ \A b \in DOMAIN cache \ {m} : c[b] = cache[b]
  BY <1>5 DEF Update
<1>8. CacheOK(c)
  BY <1>6, <1>7 DEF CacheOK
<1>9. up = IF ~p.completed /\ c[m].completed
             THEN {[msgid |-> m, data |-> Original(m)]} ELSE {}
  BY <1>4, <1>6, <1>7
<1> QED
  BY <1>2, <1>6, <1>7, <1>8, <1>9 DEF f, c, up, AddedTo

\* c is what send_fragments makes of a cache: m is whole in it.
Owned(cache, c, m, now) ==
  LET p == Found(cache, m, FALSE, now)
  IN  /\ CacheOK(c)
      /\ DOMAIN c = DOMAIN cache \cup {m}
      /\ \A b \in DOMAIN cache \ {m} : c[b] = cache[b]
      /\ Missing(c[m]) = {}
      /\ c[m].inbound = p.inbound
      /\ c[m].created = p.created
      /\ c[m].lasttry = p.lasttry
      /\ c[m].completed = p.completed

LEMMA AddOwnOK ==
  ASSUME NEW cache, CacheOK(cache), NEW m \in Base, NEW now \in Nat
  PROVE  Owned(cache, AddOwn(cache, m, now), m, now)
<1> DEFINE c == AddOwn(cache, m, now)
           p == Partial(cache, FragOf(m, 0, 0), FALSE, now)
           r == [p EXCEPT !.frags =
                   [i \in DOMAIN p.frags |-> [p.frags[i] EXCEPT !.data = Chunk(m, i)]]]
<1>1. p = Found(cache, m, FALSE, now)
  BY DEF Partial, FragOf, Found
<1>2. PartialOK(m, p)
  BY <1>1, NewPartialOK DEF CacheOK, Found
<1>3. c = Update(cache, m, r)
  BY DEF AddOwn
<1> HIDE DEF p
<1>4. \A i \in Indices(m) : Chunk(m, i) \in Octets /\ Chunk(m, i) # NoData
  BY IndicesType, ChunkType
<1>5. /\ PartialOK(m, r)
      /\ r.inbound = p.inbound
      /\ r.created = p.created
      /\ r.lasttry = p.lasttry
      /\ r.completed = p.completed
      /\ \A i \in Indices(m) : r.frags[i].data = Chunk(m, i)
  BY <1>2, <1>4 DEF PartialOK
<1>6. Missing(r) = {}
  BY <1>4, <1>5 DEF Missing, PartialOK
<1> HIDE DEF r, c
<1>7. /\ DOMAIN c = DOMAIN cache \cup {m}
      /\ c[m] = r
      /\ \A b \in DOMAIN cache \ {m} : c[b] = cache[b]
  BY <1>3 DEF Update
<1>8. CacheOK(c)
  BY <1>5, <1>7 DEF CacheOK
<1> QED
  BY <1>1, <1>5, <1>6, <1>7, <1>8 DEF c, Owned

-----------------------------------------------------------------------------
(* overdue_missing and fulfill_missing *)

\* A round of requests moves nothing but the time of the last try.
LEMMA RequestedOK ==
  ASSUME NEW cache, CacheOK(cache), NEW now \in Nat
  PROVE  LET c == Requested(cache, now)
         IN  /\ CacheOK(c)
             /\ DOMAIN c = DOMAIN cache
             /\ \A m \in DOMAIN cache :
                  /\ c[m].inbound = cache[m].inbound
                  /\ c[m].created = cache[m].created
                  /\ c[m].completed = cache[m].completed
                  /\ c[m].frags = cache[m].frags
                  /\ c[m].lasttry = IF m \in ToRequest(cache, now) THEN now
                                    ELSE cache[m].lasttry
<1> DEFINE c == Requested(cache, now)
<1>1. DOMAIN c = DOMAIN cache
  BY DEF Requested
<1>2. ASSUME NEW m \in DOMAIN cache
      PROVE  /\ PartialOK(m, c[m])
             /\ c[m].inbound = cache[m].inbound
             /\ c[m].created = cache[m].created
             /\ c[m].completed = cache[m].completed
             /\ c[m].frags = cache[m].frags
             /\ c[m].lasttry = IF m \in ToRequest(cache, now) THEN now
                               ELSE cache[m].lasttry
  <2>1. PartialOK(m, cache[m])
    BY DEF CacheOK
  <2>2. c[m] = IF m \in ToRequest(cache, now) THEN [cache[m] EXCEPT !.lasttry = now]
               ELSE cache[m]
    BY DEF Requested
  <2> QED
    BY <2>1, <2>2 DEF PartialOK
<1> HIDE DEF c
<1> QED
  BY <1>1, <1>2 DEF CacheOK, c

\* Answering a request moves nothing but rotations.
LEMMA FulfilledOK ==
  ASSUME NEW cache, CacheOK(cache), NEW b \in Base, NEW ndxs
  PROVE  LET c == Fulfilled(cache, b, ndxs)
         IN  /\ CacheOK(c)
             /\ DOMAIN c = DOMAIN cache
             /\ \A m \in DOMAIN cache :
                  /\ c[m].inbound = cache[m].inbound
                  /\ c[m].created = cache[m].created
                  /\ c[m].completed = cache[m].completed
                  /\ c[m].lasttry = cache[m].lasttry
                  /\ Missing(c[m]) = Missing(cache[m])
<1> DEFINE c == Fulfilled(cache, b, ndxs)
<1>1. CASE b \notin DOMAIN cache
  BY <1>1 DEF Fulfilled
<1>2. CASE b \in DOMAIN cache
  <2> DEFINE p == cache[b]
             fs == [i \in DOMAIN p.frags |->
                      IF i \in Available(cache, b, ndxs)
                        THEN RotatedOn(p.frags[i]) ELSE p.frags[i]]
             r == [p EXCEPT !.frags = fs]
  <2>1. /\ DOMAIN c = DOMAIN cache
        /\ c[b] = r
        /\ \A m \in DOMAIN cache \ {b} : c[m] = cache[m]
    BY <1>2 DEF Fulfilled
  <2>2. PartialOK(b, p)
    BY <1>2 DEF CacheOK
  <2> HIDE DEF p, c
  <2>3. \A i \in Indices(b) : (p.frags[i].rotoff + 1) % RotMod \in Rot
    BY <2>2, ModProperties DEF PartialOK, Rot
  <2>4. /\ fs \in [Indices(b) -> [rotoff : Rot, data : Octets \cup {NoData}]]
        /\ \A i \in Indices(b) : fs[i].data = p.frags[i].data
    BY <2>2, <2>3 DEF PartialOK, RotatedOn
  <2> HIDE DEF fs
  <2>5. /\ PartialOK(b, r)
        /\ r.inbound = p.inbound
        /\ r.created = p.created
        /\ r.completed = p.completed
        /\ r.lasttry = p.lasttry
        /\ r.frags = fs
    BY <2>2, <2>4 DEF PartialOK
  <2> HIDE DEF r
  <2>6. Missing(r) = Missing(p)
    BY <2>2, <2>4, <2>5 DEF Missing, PartialOK
  <2> QED
    BY <2>1, <2>5, <2>6 DEF CacheOK, p, c
<1> QED
  BY <1>1, <1>2

\* What is resent is what an honest node would put on the air.
LEMMA ResendOK ==
  ASSUME NEW cache, CacheOK(cache), NEW m \in DOMAIN cache, NEW ndxs,
         NEW i \in Available(cache, m, ndxs)
  PROVE  /\ i \in Indices(m)
         /\ cache[m].frags[i].rotoff \in Rot
         /\ Resend(cache, m, i) = FragOf(m, i, cache[m].frags[i].rotoff)
<1>1. m \in Base /\ PartialOK(m, cache[m])
  BY DEF CacheOK
<1>2. DOMAIN cache[m].frags = Indices(m) /\ i \in Indices(m)
  BY <1>1 DEF Available, PartialOK
<1>3. cache[m].frags[i].data = Chunk(m, i) /\ cache[m].frags[i].rotoff \in Rot
  BY <1>1, <1>2 DEF Available, PartialOK
<1>4. Cardinality(DOMAIN cache[m].frags) = NumFrag[m]
  BY <1>1, <1>2, IndicesType
<1> QED
  BY <1>2, <1>3, <1>4 DEF Resend, FragOf

=============================================================================
