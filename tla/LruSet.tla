------------------------------- MODULE LruSet -------------------------------
(***************************************************************************)
(* noshtastic-sync/src/lruset.rs: a set that remembers its last capacity   *)
(* new members.  A member inserted again keeps its place: what leaves is   *)
(* the oldest insertion and not the least recent use.                      *)
(***************************************************************************)
EXTENDS Naturals, Sequences

NewLruSet == [set |-> {}, deque |-> <<>>]

\* Mutant: the evicted member stays in the hash set.
InsertKeepsEvicted(lru, value, capacity) ==
  IF value \in lru.set THEN lru
  ELSE [set |-> lru.set \cup {value},
        deque |-> Append(IF Len(lru.deque) = capacity THEN Tail(lru.deque)
                         ELSE lru.deque, value)]

\* pop_front of an empty deque panics: only a capacity of 0 reaches it.
Insert(lru, value, capacity) ==
  IF value \in lru.set THEN lru
  ELSE IF Len(lru.deque) = capacity
    THEN [set |-> (lru.set \ {Head(lru.deque)}) \cup {value},
          deque |-> Append(Tail(lru.deque), value)]
    ELSE [set |-> lru.set \cup {value}, deque |-> Append(lru.deque, value)]

Contains(lru, value) == value \in lru.set

\* The hash set and the deque hold the same members, each once, and no more
\* than the capacity (lruset.rs:24-37).
Agrees(lru, capacity) ==
  /\ Len(lru.deque) <= capacity
  /\ lru.set = {lru.deque[i] : i \in DOMAIN lru.deque}
  /\ \A i, j \in DOMAIN lru.deque : lru.deque[i] = lru.deque[j] => i = j

=============================================================================
