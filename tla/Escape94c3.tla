---------------------------- MODULE Escape94c3 ----------------------------
(***************************************************************************)
(* escape94c3 and unescape94c3 of noshtastic-link/src/lib.rs: a buffer is  *)
(* rewritten so that the octets 94 C3, which upset the radio's serial      *)
(* framing, never follow one another, and back.                            *)
(***************************************************************************)
EXTENDS Naturals, Sequences

\* Any octet the code treats like every other one is "xx".
Octet == {"94", "C3", "EE", "00", "01", "xx"}

-----------------------------------------------------------------------------

\* Mutant: the last pair of a buffer is missed.
PairAtNotLast(d, i) == i + 1 < Len(d) /\ d[i] = "94" /\ d[i + 1] = "C3"

\* The 94 C3 that starts at position i.
PairAt(d, i) == i + 1 <= Len(d) /\ d[i] = "94" /\ d[i + 1] = "C3"

\* Mutant: the escape octet itself is not escaped.
EscapePairsOnly(d) ==
  LET from[i \in 1 .. Len(d) + 1] ==
        IF i > Len(d) THEN <<>>
        ELSE IF PairAt(d, i) THEN <<"EE", "01">> \o from[i + 2]
        ELSE <<d[i]>> \o from[i + 1]
  IN  from[1]

\* What the loop makes of d from each position on.
EscapedFrom(d) ==
  LET from[i \in 1 .. Len(d) + 1] ==
        IF i > Len(d) THEN <<>>
        ELSE IF PairAt(d, i) THEN <<"EE", "01">> \o from[i + 2]
        ELSE IF d[i] = "EE" THEN <<"EE", "00">> \o from[i + 1]
        ELSE <<d[i]>> \o from[i + 1]
  IN  from

Escape(d) == EscapedFrom(d)[1]

\* What the octet after EE stands for: nothing for an invalid code.
Meaning(code) ==
  CASE code = "00" -> {<<"EE">>}
    [] code = "01" -> {<<"94", "C3">>}
    [] OTHER -> {}

\* Mutant: an invalid code is taken as it stands.
UnescapeLenient(e) ==
  LET from[i \in 1 .. Len(e) + 1] ==
        IF i > Len(e) THEN {<<>>}
        ELSE IF e[i] # "EE" THEN {<<e[i]>> \o d : d \in from[i + 1]}
        ELSE IF i = Len(e) THEN {}
        ELSE {s \o d : s \in IF Meaning(e[i + 1]) = {} THEN {<<e[i], e[i + 1]>>}
                             ELSE Meaning(e[i + 1]),
                       d \in from[i + 2]}
  IN  from[1]

\* The results as sets: one buffer for Ok, none for Err.
UnescapedFrom(e) ==
  LET from[i \in 1 .. Len(e) + 1] ==
        IF i > Len(e) THEN {<<>>}
        ELSE IF e[i] # "EE" THEN {<<e[i]>> \o d : d \in from[i + 1]}
        ELSE IF i = Len(e) THEN {}
        ELSE {s \o d : s \in Meaning(e[i + 1]), d \in from[i + 2]}
  IN  from

Unescape(e) == UnescapedFrom(e)[1]

HasPair(d) == \E i \in DOMAIN d : i + 1 \in DOMAIN d /\ d[i] = "94" /\ d[i + 1] = "C3"

=============================================================================
