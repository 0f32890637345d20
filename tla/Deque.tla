------------------------------- MODULE Deque -------------------------------
(***************************************************************************)
(* The one VecDeque operation of the outgoing queues that is more than     *)
(* Append, Head or Tail: retain, which keeps the elements a predicate      *)
(* picks, in their order.  It is written by ranks and not by recursion, so *)
(* that theorems can be proved about it for deques of every length.        *)
(***************************************************************************)
EXTENDS Naturals, FiniteSets, Sequences

\* How many of the positions in K lie at or before position i.
Rank(K, i) == Cardinality({k \in K : k <= i})

\* The j-th smallest position of K.
Nth(K, j) == CHOOSE i \in K : Rank(K, i) = j

\* The deque left of q when only the positions in K are kept.
Retain(q, K) == [j \in 1 .. Cardinality(K) |-> q[Nth(K, j)]]

============================================================================
