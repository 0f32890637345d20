----------------------------- MODULE MCOutgoing -----------------------------
(***************************************************************************)
(* Small instances of Outgoing for TLC.                                    *)
(***************************************************************************)
EXTENDS Outgoing

CONSTANTS m1, m2, m3, f1, negentropy

\* Retain, written by ranks, is VecDeque::retain: on every short deque over
\* two values it agrees with SelectSeq.
ASSUME RetainIsSelectSeq ==
  LET short == UNION {[1 .. n -> 1 .. 3] : n \in 0 .. 4}
  IN  \A q \in short : \A kept \in SUBSET (1 .. 3) :
        LET Keep(x) == x \in kept
        IN  Retain(q, {i \in DOMAIN q : q[i] \in kept}) = SelectSeq(q, Keep)

=============================================================================
