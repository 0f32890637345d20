---------------------------- MODULE FragmentCache ----------------------------
(***************************************************************************)
(* One node's fragment cache (noshtastic-link/src/fragcache.rs) with the   *)
(* callers that drive it from noshtastic-link/src/link.rs: fragments heard *)
(* from the mesh, messages the client submits, requests from other nodes,  *)
(* and the need timer.  Every caller holds the link lock, so each call is  *)
(* one action.  What other nodes put on the air is honest: a chunk of the  *)
(* message it names, rotated by what rotoff says.                          *)
(***************************************************************************)
EXTENDS FragCacheOps, Sequences

CONSTANTS
  NeedSecs,  \* LINK_SEND_NEED_SECS, the period of the need timer
  MaxClock   \* bound on the clock

ASSUME FragmentCacheAssumption ==
  /\ NeedSecs \in Nat \ {0}
  /\ MaxClock \in Nat

\* 60 s and 180 s in 300 s.  Only AskedBeforeExpiry rests on it.
ASSUME WindowAssumption == Overdue + NeedSecs <= MaxAge

VARIABLES
  cache,     \* FragmentCache::partials
  upcalls,   \* the LinkMsgs sent up to the client, oldest first
  reply,     \* the LinkFrags the last call queued for the mesh
  clock,     \* now
  nextNeed   \* when need_iv ticks next

vars == <<cache, upcalls, reply, clock, nextNeed>>

SetToUpcalls(S) == IF S = {} THEN <<>> ELSE <<CHOOSE u \in S : TRUE>>

\* handle_fragment, for chunk i of m rotated by k: the upcall follows the cache
\* under the same link lock.
HandleFragment(m, i, k) ==
  /\ cache' = AddFragment(cache, FragOf(m, i, k), TRUE, clock)
  /\ upcalls' = upcalls \o SetToUpcalls(Assembled(cache, FragOf(m, i, k), TRUE, clock))
  /\ reply' = {}
  /\ UNCHANGED <<clock, nextNeed>>

\* Mutant: the loop over the chunks stops before the last one.
SendFragmentsShort(m) ==
  /\ cache' = LET p == Partial(cache, FragOf(m, 0, 0), FALSE, clock)
              IN  Update(cache, m,
                    [p EXCEPT !.frags =
                       [i \in DOMAIN p.frags |->
                          IF i = NumFrag[m] - 1 THEN p.frags[i]
                          ELSE [p.frags[i] EXCEPT !.data = Chunk(m, i)]]])
  /\ reply' = {FragOf(m, i, 0) : i \in 0 .. NumFrag[m] - 1}
  /\ UNCHANGED <<upcalls, clock, nextNeed>>

\* send_fragments: every chunk is cached and queued with rotoff 0.
SendFragments(m) ==
  /\ cache' = AddOwn(cache, m, clock)
  /\ reply' = {FragOf(m, i, 0) : i \in 0 .. NumFrag[m] - 1}
  /\ UNCHANGED <<upcalls, clock, nextNeed>>

\* handle_need, for one LinkMissing.
HandleNeed(m, ndxs) ==
  /\ cache' = Fulfilled(cache, m, ndxs)
  /\ reply' = Resends(cache, m, ndxs)
  /\ UNCHANGED <<upcalls, clock, nextNeed>>

\* send_fragment_retries, at each tick of need_iv; the first is immediate.
SendFragmentRetries ==
  /\ clock = nextNeed
  /\ cache' = Requested(cache, clock)
  /\ nextNeed' = nextNeed + NeedSecs
  /\ reply' = {}
  /\ UNCHANGED <<upcalls, clock>>

\* Time passes; the need timer is served within the unit it is due.
Tick ==
  /\ clock < MaxClock
  /\ clock < nextNeed
  /\ clock' = clock + 1
  /\ reply' = {}
  /\ UNCHANGED <<cache, upcalls, nextNeed>>

Init ==
  /\ cache = [b \in {} |-> 0]
  /\ upcalls = <<>>
  /\ reply = {}
  /\ clock = 0
  /\ nextNeed = 0

Next ==
  \* one index past the end exercises the range test of add_fragment
  \/ \E m \in Base : \E i \in 0 .. NumFrag[m], k \in 0 .. RotMod - 1 :
       HandleFragment(m, i, k)
  \/ \E m \in Base : SendFragments(m)
  \/ \E m \in Base : \E ndxs \in SUBSET (0 .. NumFrag[m]) : HandleNeed(m, ndxs)
  \/ SendFragmentRetries
  \/ Tick

Spec == Init /\ [][Next]_vars

-----------------------------------------------------------------------------

\* Every variable keeps its shape; no entry is from the future and none was
\* last tried before it was created.
TypeOK ==
  /\ DOMAIN cache \subseteq Base
  /\ \A m \in DOMAIN cache :
       LET p == cache[m]
       IN  /\ DOMAIN p = {"inbound", "created", "lasttry", "completed", "frags"}
           /\ p.inbound \in BOOLEAN /\ p.completed \in BOOLEAN
           /\ p.created \in 0 .. clock
           /\ p.lasttry \in p.created .. clock
           /\ DOMAIN p.frags = 0 .. NumFrag[m] - 1
           /\ \A i \in DOMAIN p.frags : p.frags[i].rotoff \in 0 .. RotMod - 1
  /\ clock \in 0 .. MaxClock
  /\ nextNeed \in Nat

\* Whatever rotation a chunk travelled with and however often it was replaced,
\* the cache holds the original octets of that chunk or nothing
\* (fragcache.rs:37-41,95-98).
CachedIntact ==
  \A m \in DOMAIN cache : \A i \in DOMAIN cache[m].frags :
    cache[m].frags[i].data \in {NoData, Chunk(m, i)}

\* Every message sent up to the client is the message that was submitted at its
\* origin, with all its chunks in order (fragcache.rs:104-122).
DeliveredIntact ==
  \A n \in DOMAIN upcalls : upcalls[n].data = Original(upcalls[n].msgid)

\* The client gets a message once, however often its fragments are repeated,
\* also long after the retry window (fragcache.rs:51,104,116).
UpcallOnce ==
  \A a, b \in DOMAIN upcalls : upcalls[a].msgid = upcalls[b].msgid => a = b

\* A node is honest in turn: each fragment it resends decodes at the receiver
\* to the chunk it names, also after rotoff has wrapped
\* (fragcache.rs:25-35,200-208).
RepliesDecode ==
  \A f \in reply :
    /\ f.numfrag = NumFrag[f.msgid]
    /\ Unrotate(f.data, f.rotoff) = Chunk(f.msgid, f.fragndx)

\* The comment at fragcache.rs:129: only inbound messages are asked for.  The
\* code never reads PartialMsg::inbound; it holds because a message of our own
\* is whole in the cache from the start.
OnlyInboundIncomplete ==
  \A m \in DOMAIN cache : Missing(cache[m]) # {} => cache[m].inbound

\* A message still incomplete when its retry window closes has been asked for:
\* the period of the need timer and the overdue time fit inside MAX_AGE_SECS
\* whatever the phase of the timer (link.rs:36,164; fragcache.rs:132-151).
AskedBeforeExpiry ==
  \A m \in DOMAIN cache :
    Missing(cache[m]) # {} /\ Expired(cache[m], clock) =>
      cache[m].lasttry > cache[m].created

\* Within the retry window what a node holds it can give: no step drops such an
\* entry, empties a cached fragment of it or forgets that it was completed, whoever
\* the entry was created for (fragcache.rs:69-98,116,132-147).  After the window the
\* comment at fragcache.rs:130 wants it purged.
NothingForgotten ==
  [][\A m \in DOMAIN cache : ~Expired(cache[m], clock) =>
       /\ m \in DOMAIN cache'
       /\ Missing(cache'[m]) \subseteq Missing(cache[m])
       /\ cache[m].completed => cache'[m].completed]_vars

=============================================================================
