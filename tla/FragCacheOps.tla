---------------------------- MODULE FragCacheOps ----------------------------
(***************************************************************************)
(* noshtastic-link/src/fragcache.rs as functions from a cache to a cache:  *)
(* what add_fragment, overdue_missing and fulfill_missing compute.  The    *)
(* modules that give a node, or several, a cache keep the state.           *)
(*                                                                         *)
(* The octets of a chunk are abstracted to which chunk they are and by how *)
(* much every octet has been rotated.                                      *)
(***************************************************************************)
EXTENDS Integers, FiniteSets

CONSTANTS
  Base,      \* message ids, without fragment index
  NumFrag,   \* how many chunks each message splits into
  RotMod,    \* values of an octet: 256
  NoData,    \* the empty octet vector
  MaxAge,    \* MAX_AGE_SECS
  Overdue    \* overdue_secs

ASSUME FragCacheAssumption ==
  /\ NumFrag \in [Base -> Nat \ {0}]
  /\ RotMod \in Nat \ {0}
  /\ MaxAge \in Nat
  /\ Overdue \in Nat \ {0}

Octets == [msg : Base, ndx : Nat, rot : 0 .. RotMod - 1]

ASSUME NoDataAssumption == NoData \notin Octets

Chunk(m, i) == [msg |-> m, ndx |-> i, rot |-> 0]
Original(m) == [i \in 0 .. NumFrag[m] - 1 |-> Chunk(m, i)]

\* byte.wrapping_add(rotoff) and byte.wrapping_sub(rotoff) on every octet.
Rotate(d, k) == [d EXCEPT !.rot = (@ + k) % RotMod]

\* Mutant: the cast to u8 and the subtraction are lost.
UnrotateNot(d, k) == d

Unrotate(d, k) == [d EXCEPT !.rot = (@ - k) % RotMod]

LinkFrag ==
  [msgid : Base, numfrag : Nat, fragndx : Nat, rotoff : Nat, data : Octets]

\* A fragment of m as some node would put it on the air, rotated by k.
FragOf(m, i, k) ==
  [msgid |-> m, numfrag |-> NumFrag[m], fragndx |-> i, rotoff |-> k,
   data |-> Rotate(Chunk(m, i), k)]

-----------------------------------------------------------------------------
(* add_fragment *)

NewPartial(numfrag, inbound, now) ==
  [inbound |-> inbound, created |-> now, lasttry |-> now, completed |-> FALSE,
   frags |-> [i \in 0 .. numfrag - 1 |-> [rotoff |-> 0, data |-> NoData]]]

\* Mutant: an entry of the other direction is replaced.
PartialPerDirection(cache, frag, inbound, now) ==
  IF frag.msgid \in DOMAIN cache /\ cache[frag.msgid].inbound = inbound
    THEN cache[frag.msgid]
    ELSE NewPartial(frag.numfrag, inbound, now)

\* partials.entry(..).or_insert_with(..): the first fragment heard sizes it.
Partial(cache, frag, inbound, now) ==
  IF frag.msgid \in DOMAIN cache
    THEN cache[frag.msgid]
    ELSE NewPartial(frag.numfrag, inbound, now)

InRange(p, frag) == frag.fragndx \in DOMAIN p.frags

\* Data is stored unrotated, whatever rotation it travelled with.
Stored(p, frag) ==
  [p EXCEPT !.frags[frag.fragndx].data = Unrotate(frag.data, frag.rotoff)]

Missing(p) == {i \in DOMAIN p.frags : p.frags[i].data = NoData}
Contents(p) == [i \in DOMAIN p.frags |-> p.frags[i].data]

\* Mutant: completed is not consulted.
CompletesAgain(p, frag, inbound) ==
  inbound /\ InRange(p, frag) /\ Missing(Stored(p, frag)) = {}

\* Mutant: the last fragment heard stands for all of them.
CompletesOnLast(p, frag, inbound) ==
  /\ inbound
  /\ ~p.completed
  /\ frag.fragndx = Cardinality(DOMAIN p.frags) - 1

\* This fragment is the one that makes the message whole for the first time.
Completes(p, frag, inbound) ==
  /\ inbound
  /\ ~p.completed
  /\ InRange(p, frag)
  /\ Missing(Stored(p, frag)) = {}

PartialAfter(p, frag, inbound) ==
  IF InRange(p, frag)
    THEN [Stored(p, frag) EXCEPT !.completed = @ \/ Completes(p, frag, inbound)]
    ELSE p

Update(cache, m, p) == [b \in DOMAIN cache \cup {m} |-> IF b = m THEN p ELSE cache[b]]

AddFragment(cache, frag, inbound, now) ==
  Update(cache, frag.msgid,
         PartialAfter(Partial(cache, frag, inbound, now), frag, inbound))

\* The LinkMsg add_fragment returns: at most one, as a set.
Assembled(cache, frag, inbound, now) ==
  LET p == Partial(cache, frag, inbound, now)
  IN  IF Completes(p, frag, inbound)
        THEN {[msgid |-> frag.msgid, data |-> Contents(Stored(p, frag))]}
        ELSE {}

\* send_fragments calls add_fragment once per chunk, under one link lock.
AddOwn(cache, m, now) ==
  LET p == Partial(cache, FragOf(m, 0, 0), FALSE, now)
  IN  Update(cache, m,
        [p EXCEPT !.frags =
           [i \in DOMAIN p.frags |-> [p.frags[i] EXCEPT !.data = Chunk(m, i)]]])

-----------------------------------------------------------------------------
(* overdue_missing *)

Expired(p, now) == now >= p.created + MaxAge

\* Mutant: the timer's three minutes taken for the overdue time of one.
IsOverdueLate(p, now) == now >= p.lasttry + Overdue + Overdue + Overdue

IsOverdue(p, now) == now >= p.lasttry + Overdue

ToRequest(cache, now) ==
  {m \in DOMAIN cache :
     /\ ~Expired(cache[m], now)
     /\ IsOverdue(cache[m], now)
     /\ Missing(cache[m]) # {}}

\* The LinkMissing list, and the cache with the time of this try.
Requests(cache, now) ==
  {[msgid |-> m, fragndx |-> Missing(cache[m])] : m \in ToRequest(cache, now)}

\* Mutant: the time of the next try is kept instead of the last.
RequestedNext(cache, now) ==
  [m \in DOMAIN cache |->
     IF m \in ToRequest(cache, now)
       THEN [cache[m] EXCEPT !.lasttry = now + Overdue]
       ELSE cache[m]]

Requested(cache, now) ==
  [m \in DOMAIN cache |->
     IF m \in ToRequest(cache, now)
       THEN [cache[m] EXCEPT !.lasttry = now]
       ELSE cache[m]]

-----------------------------------------------------------------------------
(* fulfill_missing *)

\* The requested fragments this cache can send.
Available(cache, m, ndxs) ==
  IF m \in DOMAIN cache
    THEN {i \in ndxs \cap DOMAIN cache[m].frags : cache[m].frags[i].data # NoData}
    ELSE {}

\* Mutant: the data leaves as it is stored, beside a rotated rotoff.
ResendUnrotated(cache, m, i) ==
  [msgid |-> m, numfrag |-> Cardinality(DOMAIN cache[m].frags), fragndx |-> i,
   rotoff |-> cache[m].frags[i].rotoff, data |-> cache[m].frags[i].data]

Resend(cache, m, i) ==
  LET f == cache[m].frags[i]
  IN  [msgid |-> m, numfrag |-> Cardinality(DOMAIN cache[m].frags), fragndx |-> i,
       rotoff |-> f.rotoff, data |-> Rotate(f.data, f.rotoff)]

Resends(cache, m, ndxs) == {Resend(cache, m, i) : i \in Available(cache, m, ndxs)}

\* wrapping_add(1) on the u8 that counts how often a fragment was resent.
RotatedOn(f) == [f EXCEPT !.rotoff = (@ + 1) % RotMod]

\* Each fragment sent moves its rotation on.
Fulfilled(cache, m, ndxs) ==
  IF m \notin DOMAIN cache THEN cache
  ELSE [cache EXCEPT ![m].frags =
          [i \in DOMAIN @ |->
             IF i \in Available(cache, m, ndxs) THEN RotatedOn(@[i]) ELSE @[i]]]

=============================================================================
