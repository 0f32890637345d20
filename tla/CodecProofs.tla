----------------------------- MODULE CodecProofs -----------------------------
(***************************************************************************)
(* The conversions of Codec, for buffers, events, tags and strings of any  *)
(* length.                                                                 *)
(*                                                                         *)
(* What the loops of Escape94c3 compute is shown by smallest and largest   *)
(* counterexamples: a set of positions at which something fails has, if it *)
(* is not empty, a last element, after which it does not fail.             *)
(***************************************************************************)
EXTENDS Codec, SequenceTheorems, WellFoundedInduction, TLAPS

-----------------------------------------------------------------------------
(* Induction *)

LEMMA Smallest ==
  ASSUME NEW T, T \subseteq Nat, T # {}
  PROVE  \E x \in T : \A y \in T : x <= y
<1> DEFINE R == OpToRel(<, Nat)
<1>1. \E x \in T : \A y \in T : ~(<<y, x>> \in R)
  <2>1. IsWellFoundedOn(R, Nat)
    BY NatLessThanWellFounded
  <2> HIDE DEF R
  <2> QED
    BY <2>1, WFMin
<1>2. \A x, y \in Nat : ~(<<y, x>> \in R) => x <= y
  BY DEF OpToRel
<1> QED
  BY <1>1, <1>2

LEMMA Largest ==
  ASSUME NEW n \in Nat, NEW T, T \subseteq 1 .. n, T # {}
  PROVE  \E x \in T : \A y \in T : y <= x
<1> DEFINE U == {n - x : x \in T}
<1>1. U \subseteq Nat /\ U # {}
  <2>1. \A x \in T : n - x \in Nat
    OBVIOUS
  <2>2. U # {}
    OBVIOUS
  <2> QED
    BY <2>1, <2>2
<1>2. PICK u \in U : \A v \in U : u <= v
  BY <1>1, Smallest
<1>3. PICK x \in T : u = n - x
  OBVIOUS
<1>4. ASSUME NEW y \in T
      PROVE  y <= x
  <2>1. u <= n - y
    BY <1>2
  <2> QED
    BY <1>3, <2>1
<1> QED
  BY <1>4

-----------------------------------------------------------------------------
(* Buffers *)

Buffer == Seq(Octet)

\* What is put in front of a buffer moves it along.
LEMMA Prepended ==
  ASSUME NEW S, NEW p \in Seq(S), NEW t \in Seq(S)
  PROVE  /\ p \o t \in Seq(S)
         /\ Len(p) \in Nat /\ Len(t) \in Nat
         /\ Len(p \o t) = Len(p) + Len(t)
         /\ DOMAIN (p \o t) = 1 .. Len(p) + Len(t)
         /\ \A i \in 1 .. Len(p) : (p \o t)[i] = p[i]
         /\ \A j \in 1 .. Len(t) : (p \o t)[Len(p) + j] = t[j]
<1>1. /\ p \o t \in Seq(S)
      /\ Len(p) \in Nat /\ Len(t) \in Nat
      /\ Len(p \o t) = Len(p) + Len(t)
      /\ \A i \in 1 .. Len(p) + Len(t) :
           (p \o t)[i] = IF i <= Len(p) THEN p[i] ELSE t[i - Len(p)]
  BY ConcatProperties, LenProperties
<1>2. DOMAIN (p \o t) = 1 .. Len(p) + Len(t)
  BY <1>1, LenProperties
<1>3. ASSUME NEW j \in 1 .. Len(t)
      PROVE  (p \o t)[Len(p) + j] = t[j]
  <2>1. Len(p) + j \in 1 .. Len(p) + Len(t) /\ ~(Len(p) + j <= Len(p))
    BY <1>1
  <2>2. (Len(p) + j) - Len(p) = j
    BY <1>1
  <2> QED
    BY <1>1, <2>1, <2>2
<1>4. ASSUME NEW i \in 1 .. Len(p)
      PROVE  (p \o t)[i] = p[i]
  BY <1>1
<1> QED
  BY <1>1, <1>2, <1>3, <1>4

\* One octet, or two, and the rest.
LEMMA OneMore ==
  ASSUME NEW x \in Octet, NEW t \in Buffer
  PROVE  /\ <<x>> \in Buffer /\ Len(<<x>>) = 1
         /\ <<x>> \o t \in Buffer
         /\ Len(t) \in Nat /\ Len(<<x>> \o t) = Len(t) + 1
         /\ DOMAIN (<<x>> \o t) = 1 .. Len(t) + 1
         /\ (<<x>> \o t)[1] = x
         /\ \A j \in 1 .. Len(t) : (<<x>> \o t)[j + 1] = t[j]
<1>1. <<x>> \in Seq(Octet) /\ Len(<<x>>) = 1 /\ <<x>>[1] = x
  OBVIOUS
<1> DEFINE p == <<x>>
           c == p \o t
<1> HIDE DEF p
<1>2. /\ c \in Seq(Octet) /\ Len(t) \in Nat /\ Len(c) = 1 + Len(t)
      /\ DOMAIN c = 1 .. 1 + Len(t)
      /\ \A i \in 1 .. 1 : c[i] = p[i]
      /\ \A j \in 1 .. Len(t) : c[1 + j] = t[j]
  BY <1>1, Prepended DEF Buffer, p
<1> HIDE DEF c
<1>3. c[1] = x /\ \A j \in 1 .. Len(t) : j + 1 = 1 + j
  BY <1>1, <1>2 DEF p
<1> QED
  BY <1>1, <1>2, <1>3 DEF Buffer, p, c

LEMMA TwoMore ==
  ASSUME NEW x \in Octet, NEW y \in Octet, NEW t \in Buffer
  PROVE  /\ <<x, y>> \in Buffer /\ Len(<<x, y>>) = 2
         /\ <<x, y>> \o t \in Buffer
         /\ Len(t) \in Nat /\ Len(<<x, y>> \o t) = Len(t) + 2
         /\ DOMAIN (<<x, y>> \o t) = 1 .. Len(t) + 2
         /\ (<<x, y>> \o t)[1] = x /\ (<<x, y>> \o t)[2] = y
         /\ \A j \in 1 .. Len(t) : (<<x, y>> \o t)[j + 2] = t[j]
<1>1. <<x, y>> \in Seq(Octet) /\ Len(<<x, y>>) = 2 /\ <<x, y>>[1] = x /\ <<x, y>>[2] = y
  OBVIOUS
<1> DEFINE p == <<x, y>>
           c == p \o t
<1> HIDE DEF p
<1>2. /\ c \in Seq(Octet) /\ Len(t) \in Nat /\ Len(c) = 2 + Len(t)
      /\ DOMAIN c = 1 .. 2 + Len(t)
      /\ \A i \in 1 .. 2 : c[i] = p[i]
      /\ \A j \in 1 .. Len(t) : c[2 + j] = t[j]
  BY <1>1, Prepended DEF Buffer, p
<1> HIDE DEF c
<1>3. c[1] = x /\ c[2] = y /\ \A j \in 1 .. Len(t) : j + 2 = 2 + j
  BY <1>1, <1>2 DEF p
<1> QED
  BY <1>1, <1>2, <1>3 DEF Buffer, p, c

-----------------------------------------------------------------------------
(* The two loops, one position at a time *)

EscStep(d, from, i) ==
  IF i > Len(d) THEN <<>>
  ELSE IF PairAt(d, i) THEN <<"EE", "01">> \o from[i + 2]
  ELSE IF d[i] = "EE" THEN <<"EE", "00">> \o from[i + 1]
  ELSE <<d[i]>> \o from[i + 1]

OctetBefore(x, U) == {<<x>> \o d : d \in U}
AnyBefore(S, U) == {s \o d : s \in S, d \in U}

UnescStep(e, from, i) ==
  IF i > Len(e) THEN {<<>>}
  ELSE IF e[i] # "EE" THEN OctetBefore(e[i], from[i + 1])
  ELSE IF i = Len(e) THEN {}
  ELSE AnyBefore(Meaning(e[i + 1]), from[i + 2])

LEMMA EscStepType ==
  ASSUME NEW d \in Buffer, NEW from, NEW i \in 1 .. Len(d) + 1,
         \A j \in 1 .. Len(d) + 1 : i < j => from[j] \in Buffer
  PROVE  EscStep(d, from, i) \in Buffer
<1>1. Len(d) \in Nat /\ \A j \in 1 .. Len(d) : d[j] \in Octet
  BY LenProperties, ElementOfSeq DEF Buffer
<1>2. <<>> \in Buffer
  BY EmptySeq DEF Buffer
<1>3. "EE" \in Octet /\ "01" \in Octet /\ "00" \in Octet
  BY DEF Octet
<1>4. CASE i > Len(d)
  BY <1>2, <1>4 DEF EscStep
<1>5. CASE ~(i > Len(d))
  <2>1. i \in 1 .. Len(d) /\ from[i + 1] \in Buffer /\ d[i] \in Octet
    BY <1>1, <1>5
  <2>2. PairAt(d, i) => from[i + 2] \in Buffer
    BY <1>1, <1>5 DEF PairAt
  <2>3. PairAt(d, i) => <<"EE", "01">> \o from[i + 2] \in Buffer
    BY <1>3, <2>2, TwoMore
  <2>4. <<"EE", "00">> \o from[i + 1] \in Buffer /\ <<d[i]>> \o from[i + 1] \in Buffer
    BY <1>3, <2>1, TwoMore, OneMore
  <2> QED
    BY <1>5, <2>3, <2>4 DEF EscStep
<1> QED
  BY <1>4, <1>5

\* Some function does at every position what the loop does there.
LEMMA EscapeExists ==
  ASSUME NEW d \in Buffer
  PROVE  \E f \in [1 .. Len(d) + 1 -> Buffer] :
           \A i \in 1 .. Len(d) + 1 : f[i] = EscStep(d, f, i)
<1> DEFINE n == Len(d) + 1
           F == [1 .. n -> Buffer]
           Solves(f, k) == \A i \in k .. n : f[i] = EscStep(d, f, i)
           T == {k \in 1 .. n : ~\E f \in F : Solves(f, k)}
<1>1. Len(d) \in Nat /\ n \in Nat /\ n >= 1
  BY LenProperties DEF Buffer
<1>2. ASSUME T # {}
      PROVE  FALSE
  <2>1. PICK k \in T : \A y \in T : y <= k
    BY <1>1, <1>2, Largest
  <2>2. PICK f \in F : Solves(f, k + 1)
    <3>1. CASE k = n
      <4>1. <<>> \in Buffer
        BY EmptySeq DEF Buffer
      <4>2. [i \in 1 .. n |-> <<>>] \in F
        BY <4>1
      <4>3. (k + 1) .. n = {}
        BY <1>1, <3>1
      <4> QED
        BY <4>2, <4>3
    <3>2. CASE k # n
      <4>1. k + 1 \in 1 .. n /\ ~(k + 1 <= k)
        BY <1>1, <3>2
      <4> QED
        BY <2>1, <4>1
    <3> QED
      BY <3>1, <3>2
  <2> DEFINE g == [f EXCEPT ![k] = EscStep(d, f, k)]
  <2>3. g \in F
    BY EscStepType
  <2>4. ASSUME NEW i \in k .. n
        PROVE  g[i] = EscStep(d, g, i)
    <3>1. i \in 1 .. n /\ k \in Nat
      BY <1>1
    <3>2. ~(i > Len(d)) => g[i + 1] = f[i + 1]
      BY <1>1, <3>1
    <3>3. ~(i > Len(d)) /\ PairAt(d, i) => g[i + 2] = f[i + 2]
      BY <1>1, <3>1 DEF PairAt
    <3>4. EscStep(d, g, i) = EscStep(d, f, i)
      BY <3>2, <3>3 DEF EscStep
    <3>5. g[i] = EscStep(d, f, i)
      <4>1. CASE i = k
        BY <4>1, <3>1
      <4>2. CASE i # k
        <5>1. i \in (k + 1) .. n
          BY <4>2, <3>1, <1>1
        <5> QED
          BY <2>2, <4>2, <5>1, <3>1
      <4> QED
        BY <4>1, <4>2
    <3> QED
      BY <3>4, <3>5
  <2> HIDE DEF g
  <2> QED
    BY <2>1, <2>3, <2>4
<1>3. 1 \in 1 .. n /\ 1 \notin T
  BY <1>1, <1>2
<1> QED
  BY <1>3

\* So the loop is what its definition says it is.
LEMMA EscapeUnfolds ==
  ASSUME NEW d \in Buffer
  PROVE  /\ EscapedFrom(d) \in [1 .. Len(d) + 1 -> Buffer]
         /\ \A i \in 1 .. Len(d) + 1 : EscapedFrom(d)[i] = EscStep(d, EscapedFrom(d), i)
<1> DEFINE Eq(f) == f = [i \in 1 .. Len(d) + 1 |-> EscStep(d, f, i)]
<1>1. EscapedFrom(d) = CHOOSE f : Eq(f)
  BY DEF EscapedFrom, EscStep
<1>2. PICK f \in [1 .. Len(d) + 1 -> Buffer] :
        \A i \in 1 .. Len(d) + 1 : f[i] = EscStep(d, f, i)
  BY EscapeExists
<1>3. Eq(f)
  BY <1>2
<1>4. Eq(EscapedFrom(d))
  <2> HIDE DEF Eq
  <2> QED
    BY <1>1, <1>3
<1> DEFINE e == EscapedFrom(d)
<1> HIDE DEF e
<1>5. e = [i \in 1 .. Len(d) + 1 |-> EscStep(d, e, i)]
  BY <1>4 DEF e
<1> DEFINE n == Len(d) + 1
           T == {i \in 1 .. n : e[i] \notin Buffer}
<1>6. n \in Nat
  BY LenProperties DEF Buffer
<1>7. ASSUME T # {}
      PROVE  FALSE
  <2>1. PICK k \in T : \A y \in T : y <= k
    BY <1>6, <1>7, Largest
  <2>2. \A j \in 1 .. n : k < j => e[j] \in Buffer
    BY <1>6, <2>1
  <2>3. EscStep(d, e, k) \in Buffer
    BY <2>2, EscStepType
  <2>4. e[k] = EscStep(d, e, k)
    BY <1>5
  <2> QED
    BY <2>3, <2>4
<1>8. DOMAIN e = 1 .. n /\ e = [i \in 1 .. n |-> e[i]]
  BY <1>5
<1>9. e \in [1 .. n -> Buffer]
  BY <1>7, <1>8
<1> QED
  BY <1>5, <1>9 DEF e

LEMMA OctetBeforeMembers ==
  ASSUME NEW o, NEW U, NEW x
  PROVE  x \in OctetBefore(o, U) <=> \E u \in U : x = <<o>> \o u
BY DEF OctetBefore

LEMMA AnyBeforeMembers ==
  ASSUME NEW S, NEW U, NEW x
  PROVE  x \in AnyBefore(S, U) <=> \E s \in S, u \in U : x = s \o u
<1>1. x \in AnyBefore(S, U) => \E s \in S, u \in U : x = s \o u
  BY DEF AnyBefore
<1>2. ASSUME NEW s \in S, NEW u \in U, x = s \o u
      PROVE  x \in AnyBefore(S, U)
  BY <1>2 DEF AnyBefore
<1> QED
  BY <1>1, <1>2

LEMMA OneBeforeOne ==
  ASSUME NEW s, NEW u
  PROVE  AnyBefore({s}, {u}) = {s \o u}
<1> DEFINE A == AnyBefore({s}, {u})
<1>1. ASSUME NEW x \in A
      PROVE  x = s \o u
  <2>1. \A S, U : x \in AnyBefore(S, U) => \E s1 \in S, u1 \in U : x = s1 \o u1
    BY AnyBeforeMembers
  <2> QED
    BY <2>1
<1>2. s \o u \in A
  <2>1. s \in {s} /\ u \in {u}
    OBVIOUS
  <2> QED
    BY <2>1, AnyBeforeMembers
<1> HIDE DEF A
<1>3. A = {s \o u}
  BY <1>1, <1>2
<1> QED
  BY <1>3 DEF A

LEMMA MeaningType ==
  ASSUME NEW c
  PROVE  \A s \in Meaning(c) : s = <<"EE">> \/ s = <<"94", "C3">>
BY DEF Meaning

LEMMA UnescStepType ==
  ASSUME NEW d \in Buffer, NEW from, NEW i \in 1 .. Len(d) + 1,
         \A j \in 1 .. Len(d) + 1 : i < j => from[j] \subseteq Buffer
  PROVE  UnescStep(d, from, i) \subseteq Buffer
<1>1. Len(d) \in Nat /\ \A j \in 1 .. Len(d) : d[j] \in Octet
  BY LenProperties, ElementOfSeq DEF Buffer
<1>2. {<<>>} \subseteq Buffer
  BY EmptySeq DEF Buffer
<1>3. CASE i > Len(d)
  BY <1>2, <1>3 DEF UnescStep
<1>4. CASE ~(i > Len(d)) /\ d[i] # "EE"
  <2>1. i \in 1 .. Len(d) /\ from[i + 1] \subseteq Buffer /\ d[i] \in Octet
    BY <1>1, <1>4
  <2>2. \A u \in from[i + 1] : <<d[i]>> \o u \in Buffer
    BY <2>1, OneMore
  <2>3. UnescStep(d, from, i) = OctetBefore(d[i], from[i + 1])
    BY <1>4 DEF UnescStep
  <2> QED
    BY <2>2, <2>3 DEF OctetBefore
<1>5. CASE ~(i > Len(d)) /\ d[i] = "EE" /\ i = Len(d)
  BY <1>5 DEF UnescStep
<1>6. CASE ~(i > Len(d)) /\ d[i] = "EE" /\ i # Len(d)
  <2>1. from[i + 2] \subseteq Buffer
    BY <1>1, <1>6
  <2>2. ASSUME NEW s \in Meaning(d[i + 1]), NEW u \in from[i + 2]
        PROVE  s \o u \in Buffer
    <3>1. u \in Buffer /\ "EE" \in Octet /\ "94" \in Octet /\ "C3" \in Octet
      BY <2>1 DEF Octet
    <3>2. <<"EE">> \o u \in Buffer /\ <<"94", "C3">> \o u \in Buffer
      BY <3>1, OneMore, TwoMore
    <3> QED
      BY <3>2, MeaningType
  <2>3. UnescStep(d, from, i) = AnyBefore(Meaning(d[i + 1]), from[i + 2])
    BY <1>6 DEF UnescStep
  <2>4. ASSUME NEW x \in AnyBefore(Meaning(d[i + 1]), from[i + 2])
        PROVE  x \in Buffer
    <3>1. PICK s \in Meaning(d[i + 1]), u \in from[i + 2] : x = s \o u
      BY AnyBeforeMembers
    <3> QED
      BY <2>2, <3>1
  <2> QED
    BY <2>3, <2>4
<1> QED
  BY <1>3, <1>4, <1>5, <1>6

\* The same of unescape94c3.
LEMMA UnescapeExists ==
  ASSUME NEW d \in Buffer
  PROVE  \E f \in [1 .. Len(d) + 1 -> SUBSET Buffer] :
           \A i \in 1 .. Len(d) + 1 : f[i] = UnescStep(d, f, i)
<1> DEFINE n == Len(d) + 1
           F == [1 .. n -> SUBSET Buffer]
           Solves(f, k) == \A i \in k .. n : f[i] = UnescStep(d, f, i)
           T == {k \in 1 .. n : ~\E f \in F : Solves(f, k)}
<1>1. Len(d) \in Nat /\ n \in Nat /\ n >= 1
  BY LenProperties DEF Buffer
<1>2. ASSUME T # {}
      PROVE  FALSE
  <2>1. PICK k \in T : \A y \in T : y <= k
    BY <1>1, <1>2, Largest
  <2>2. PICK f \in F : Solves(f, k + 1)
    <3>1. CASE k = n
      <4>1. {<<>>} \in SUBSET Buffer
        BY EmptySeq DEF Buffer
      <4>2. [i \in 1 .. n |-> {<<>>}] \in F
        BY <4>1
      <4>3. (k + 1) .. n = {}
        BY <1>1, <3>1
      <4> QED
        BY <4>2, <4>3
    <3>2. CASE k # n
      <4>1. k + 1 \in 1 .. n /\ ~(k + 1 <= k)
        BY <1>1, <3>2
      <4> QED
        BY <2>1, <4>1
    <3> QED
      BY <3>1, <3>2
  <2> DEFINE g == [f EXCEPT ![k] = UnescStep(d, f, k)]
  <2>3. g \in F
    BY UnescStepType
  <2>4. ASSUME NEW i \in k .. n
        PROVE  g[i] = UnescStep(d, g, i)
    <3>1. i \in 1 .. n /\ k \in Nat
      BY <1>1
    <3>2. ~(i > Len(d)) => g[i + 1] = f[i + 1]
      BY <1>1, <3>1
    <3>3. ~(i > Len(d)) /\ i # Len(d) => g[i + 2] = f[i + 2]
      BY <1>1, <3>1
    <3>4. UnescStep(d, g, i) = UnescStep(d, f, i)
      BY <3>2, <3>3 DEF UnescStep
    <3>5. g[i] = UnescStep(d, f, i)
      <4>1. CASE i = k
        BY <4>1, <3>1
      <4>2. CASE i # k
        <5>1. i \in (k + 1) .. n
          BY <4>2, <3>1, <1>1
        <5> QED
          BY <2>2, <4>2, <5>1, <3>1
      <4> QED
        BY <4>1, <4>2
    <3> QED
      BY <3>4, <3>5
  <2> HIDE DEF g
  <2> QED
    BY <2>1, <2>3, <2>4
<1>3. 1 \in 1 .. n /\ 1 \notin T
  BY <1>1, <1>2
<1> QED
  BY <1>3

LEMMA UnescapeUnfolds ==
  ASSUME NEW d \in Buffer
  PROVE  /\ UnescapedFrom(d) \in [1 .. Len(d) + 1 -> SUBSET Buffer]
         /\ \A i \in 1 .. Len(d) + 1 : UnescapedFrom(d)[i] = UnescStep(d, UnescapedFrom(d), i)
<1> DEFINE Eq(f) == f = [i \in 1 .. Len(d) + 1 |-> UnescStep(d, f, i)]
<1>1. UnescapedFrom(d) = CHOOSE f : Eq(f)
  BY DEF UnescapedFrom, UnescStep, OctetBefore, AnyBefore
<1>2. PICK f \in [1 .. Len(d) + 1 -> SUBSET Buffer] :
        \A i \in 1 .. Len(d) + 1 : f[i] = UnescStep(d, f, i)
  BY UnescapeExists
<1>3. Eq(f)
  BY <1>2
<1>4. Eq(UnescapedFrom(d))
  <2> HIDE DEF Eq
  <2> QED
    BY <1>1, <1>3
<1> DEFINE e == UnescapedFrom(d)
<1> HIDE DEF e
<1>5. e = [i \in 1 .. Len(d) + 1 |-> UnescStep(d, e, i)]
  BY <1>4 DEF e
<1> DEFINE n == Len(d) + 1
           T == {i \in 1 .. n : ~(e[i] \subseteq Buffer)}
<1>6. n \in Nat
  BY LenProperties DEF Buffer
<1>7. ASSUME T # {}
      PROVE  FALSE
  <2>1. PICK k \in T : \A y \in T : y <= k
    BY <1>6, <1>7, Largest
  <2>2. \A j \in 1 .. n : k < j => e[j] \subseteq Buffer
    BY <1>6, <2>1
  <2>3. UnescStep(d, e, k) \subseteq Buffer
    BY <2>2, UnescStepType
  <2>4. e[k] = UnescStep(d, e, k)
    BY <1>5
  <2> QED
    BY <2>3, <2>4
<1>8. DOMAIN e = 1 .. n /\ e = [i \in 1 .. n |-> e[i]]
  BY <1>5
<1>9. e \in [1 .. n -> SUBSET Buffer]
  BY <1>7, <1>8
<1> QED
  BY <1>5, <1>9 DEF e

-----------------------------------------------------------------------------
(* What a buffer becomes does not depend on what stands before it *)

LEMMA EscapeShifts ==
  ASSUME NEW p \in Buffer, NEW t \in Buffer
  PROVE  \A j \in 1 .. Len(t) + 1 : EscapedFrom(p \o t)[Len(p) + j] = EscapedFrom(t)[j]
<1> DEFINE c == p \o t
           n == Len(t) + 1
           T == {j \in 1 .. n : EscapedFrom(c)[Len(p) + j] # EscapedFrom(t)[j]}
<1>1. /\ c \in Buffer /\ Len(p) \in Nat /\ Len(t) \in Nat /\ n \in Nat
      /\ Len(c) = Len(p) + Len(t)
      /\ \A j \in 1 .. Len(t) : c[Len(p) + j] = t[j]
  BY Prepended DEF Buffer
<1> HIDE DEF c
<1>2. ASSUME T # {}
      PROVE  FALSE
  <2>1. PICK k \in T : \A y \in T : y <= k
    BY <1>1, <1>2, Largest
  <2> DEFINE i == Len(p) + k
  <2>2. k \in 1 .. n /\ i \in 1 .. Len(c) + 1 /\ (i > Len(c) <=> k > Len(t))
    BY <1>1, <2>1
  <2>3. /\ EscapedFrom(c)[i] = EscStep(c, EscapedFrom(c), i)
        /\ EscapedFrom(t)[k] = EscStep(t, EscapedFrom(t), k)
    BY <1>1, <2>2, EscapeUnfolds
  <2>4. ASSUME ~(k > Len(t))
        PROVE  /\ c[i] = t[k] /\ (PairAt(c, i) <=> PairAt(t, k))
               /\ EscapedFrom(c)[i + 1] = EscapedFrom(t)[k + 1]
               /\ PairAt(t, k) => EscapedFrom(c)[i + 2] = EscapedFrom(t)[k + 2]
    <3>1. k \in 1 .. Len(t) /\ k + 1 \in 1 .. n /\ ~(k + 1 <= k) /\ ~(k + 2 <= k)
      BY <1>1, <2>2, <2>4
    <3>2. Len(p) + (k + 1) = i + 1 /\ Len(p) + (k + 2) = i + 2
      BY <1>1, <2>2
    <3>3. c[i] = t[k]
      BY <1>1, <3>1
    <3>4. k + 1 <= Len(t) => c[i + 1] = t[k + 1] /\ k + 1 \in 1 .. Len(t) /\ k + 2 \in 1 .. n
      BY <1>1, <3>1, <3>2
    <3>5. i + 1 <= Len(c) <=> k + 1 <= Len(t)
      BY <1>1, <2>2
    <3>6. PairAt(c, i) <=> PairAt(t, k)
      BY <3>3, <3>4, <3>5 DEF PairAt
    <3>7. EscapedFrom(c)[i + 1] = EscapedFrom(t)[k + 1]
      BY <2>1, <3>1, <3>2
    <3>8. PairAt(t, k) => EscapedFrom(c)[i + 2] = EscapedFrom(t)[k + 2]
      BY <2>1, <3>1, <3>2, <3>4 DEF PairAt
    <3> QED
      BY <3>3, <3>6, <3>7, <3>8
  <2>5. EscStep(c, EscapedFrom(c), i) = EscStep(t, EscapedFrom(t), k)
    BY <2>2, <2>4 DEF EscStep
  <2> QED
    BY <2>1, <2>3, <2>5
<1> QED
  BY <1>2 DEF c

LEMMA UnescapeShifts ==
  ASSUME NEW p \in Buffer, NEW t \in Buffer
  PROVE  \A j \in 1 .. Len(t) + 1 : UnescapedFrom(p \o t)[Len(p) + j] = UnescapedFrom(t)[j]
<1> DEFINE c == p \o t
           n == Len(t) + 1
           T == {j \in 1 .. n : UnescapedFrom(c)[Len(p) + j] # UnescapedFrom(t)[j]}
<1>1. /\ c \in Buffer /\ Len(p) \in Nat /\ Len(t) \in Nat /\ n \in Nat
      /\ Len(c) = Len(p) + Len(t)
      /\ \A j \in 1 .. Len(t) : c[Len(p) + j] = t[j]
  BY Prepended DEF Buffer
<1> HIDE DEF c
<1>2. ASSUME T # {}
      PROVE  FALSE
  <2>1. PICK k \in T : \A y \in T : y <= k
    BY <1>1, <1>2, Largest
  <2> DEFINE i == Len(p) + k
  <2>2. /\ k \in 1 .. n /\ i \in 1 .. Len(c) + 1
        /\ i > Len(c) <=> k > Len(t)
        /\ i = Len(c) <=> k = Len(t)
    <3>1. k \in 1 .. n
      BY <2>1
    <3> QED
      BY <1>1, <3>1
  <2>3. /\ UnescapedFrom(c)[i] = UnescStep(c, UnescapedFrom(c), i)
        /\ UnescapedFrom(t)[k] = UnescStep(t, UnescapedFrom(t), k)
    BY <1>1, <2>2, UnescapeUnfolds
  <2>4. ASSUME ~(k > Len(t))
        PROVE  /\ c[i] = t[k]
               /\ UnescapedFrom(c)[i + 1] = UnescapedFrom(t)[k + 1]
               /\ k # Len(t) => /\ c[i + 1] = t[k + 1]
                                /\ UnescapedFrom(c)[i + 2] = UnescapedFrom(t)[k + 2]
    <3>1. k \in 1 .. Len(t) /\ k + 1 \in 1 .. n /\ ~(k + 1 <= k) /\ ~(k + 2 <= k)
      BY <1>1, <2>2, <2>4
    <3>2. Len(p) + (k + 1) = i + 1 /\ Len(p) + (k + 2) = i + 2
      BY <1>1, <2>2
    <3>3. c[i] = t[k]
      BY <1>1, <3>1
    <3>4. k # Len(t) => c[i + 1] = t[k + 1] /\ k + 1 \in 1 .. Len(t) /\ k + 2 \in 1 .. n
      BY <1>1, <3>1, <3>2
    <3>5. UnescapedFrom(c)[i + 1] = UnescapedFrom(t)[k + 1]
      BY <2>1, <3>1, <3>2
    <3>6. k # Len(t) => UnescapedFrom(c)[i + 2] = UnescapedFrom(t)[k + 2]
      BY <2>1, <3>1, <3>2, <3>4
    <3> QED
      BY <3>3, <3>4, <3>5, <3>6
  <2>5. UnescStep(c, UnescapedFrom(c), i) = UnescStep(t, UnescapedFrom(t), k)
    BY <2>2, <2>4 DEF UnescStep
  <2> QED
    BY <2>1, <2>3, <2>5
<1> QED
  BY <1>2 DEF c

-----------------------------------------------------------------------------
(* The two conversions, from the front *)

LEMMA EscapeType ==
  ASSUME NEW d \in Buffer
  PROVE  Escape(d) \in Buffer
<1>1. Len(d) \in Nat
  BY LenProperties DEF Buffer
<1> QED
  BY <1>1, EscapeUnfolds DEF Escape

LEMMA UnescapeType ==
  ASSUME NEW e \in Buffer
  PROVE  Unescape(e) \subseteq Buffer
<1>1. Len(e) \in Nat
  BY LenProperties DEF Buffer
<1> QED
  BY <1>1, UnescapeUnfolds DEF Unescape

LEMMA NothingIsItself ==
  /\ <<>> \in Buffer
  /\ Escape(<<>>) = <<>>
  /\ Unescape(<<>>) = {<<>>}
<1>1. <<>> \in Buffer /\ Len(<<>>) = 0
  BY EmptySeq DEF Buffer
<1> DEFINE z == <<>>
<1>2. z \in Buffer /\ 1 \in 1 .. Len(z) + 1 /\ 1 > Len(z)
  BY <1>1
<1>3. EscapedFrom(z)[1] = EscStep(z, EscapedFrom(z), 1)
  BY <1>2, EscapeUnfolds
<1>4. UnescapedFrom(z)[1] = UnescStep(z, UnescapedFrom(z), 1)
  BY <1>2, UnescapeUnfolds
<1> QED
  BY <1>1, <1>2, <1>3, <1>4 DEF EscStep, UnescStep, Escape, Unescape

\* An octet that does not open a pair.
LEMMA EscapeOctet ==
  ASSUME NEW x \in Octet, NEW t \in Buffer, ~(x = "94" /\ t # <<>> /\ t[1] = "C3")
  PROVE  Escape(<<x>> \o t) = IF x = "EE" THEN <<"EE", "00">> \o Escape(t)
                              ELSE <<x>> \o Escape(t)
<1> DEFINE p == <<x>>
           c == p \o t
<1>1. /\ p \in Buffer /\ Len(p) = 1 /\ c \in Buffer /\ Len(t) \in Nat
      /\ Len(c) = Len(t) + 1 /\ c[1] = x
      /\ \A j \in 1 .. Len(t) : c[j + 1] = t[j]
  BY OneMore
<1>2. \A j \in 1 .. Len(t) + 1 : EscapedFrom(c)[Len(p) + j] = EscapedFrom(t)[j]
  BY <1>1, EscapeShifts
<1> HIDE DEF c, p
<1>3. EscapedFrom(c)[1 + 1] = EscapedFrom(t)[1]
  BY <1>1, <1>2
<1>4. EscapedFrom(c)[1] = EscStep(c, EscapedFrom(c), 1)
  BY <1>1, EscapeUnfolds
<1>5. ~PairAt(c, 1)
  <2>1. 1 + 1 <= Len(c) => c[1 + 1] = t[1] /\ t # <<>>
    <3>1. ASSUME 1 + 1 <= Len(c)
          PROVE  c[1 + 1] = t[1] /\ t # <<>>
      <4>1. 1 \in 1 .. Len(t)
        BY <1>1, <3>1
      <4> QED
        BY <1>1, <4>1, EmptySeq
    <3> QED
      BY <3>1
  <2> QED
    BY <1>1, <2>1 DEF PairAt
<1>6. ~(1 > Len(c))
  BY <1>1
<1> QED
  BY <1>1, <1>3, <1>4, <1>5, <1>6 DEF EscStep, Escape, c, p

LEMMA EscapePair ==
  ASSUME NEW t \in Buffer
  PROVE  Escape(<<"94", "C3">> \o t) = <<"EE", "01">> \o Escape(t)
<1> DEFINE p == <<"94", "C3">>
           c == p \o t
<1>1. /\ p \in Buffer /\ Len(p) = 2 /\ c \in Buffer /\ Len(t) \in Nat
      /\ Len(c) = Len(t) + 2 /\ c[1] = "94" /\ c[2] = "C3"
  <2>1. "94" \in Octet /\ "C3" \in Octet
    BY DEF Octet
  <2> QED
    BY <2>1, TwoMore
<1>2. \A j \in 1 .. Len(t) + 1 : EscapedFrom(c)[Len(p) + j] = EscapedFrom(t)[j]
  BY <1>1, EscapeShifts
<1> HIDE DEF c, p
<1>3. EscapedFrom(c)[1 + 2] = EscapedFrom(t)[1]
  BY <1>1, <1>2
<1>4. EscapedFrom(c)[1] = EscStep(c, EscapedFrom(c), 1)
  BY <1>1, EscapeUnfolds
<1>5. PairAt(c, 1) /\ ~(1 > Len(c))
  BY <1>1 DEF PairAt
<1> QED
  BY <1>3, <1>4, <1>5 DEF EscStep, Escape, c, p

LEMMA UnescapeOctet ==
  ASSUME NEW x \in Octet, NEW t \in Buffer, x # "EE"
  PROVE  Unescape(<<x>> \o t) = OctetBefore(x, Unescape(t))
<1> DEFINE p == <<x>>
           c == p \o t
<1>1. /\ p \in Buffer /\ Len(p) = 1 /\ c \in Buffer /\ Len(t) \in Nat
      /\ Len(c) = Len(t) + 1 /\ c[1] = x
  BY OneMore
<1>2. \A j \in 1 .. Len(t) + 1 : UnescapedFrom(c)[Len(p) + j] = UnescapedFrom(t)[j]
  BY <1>1, UnescapeShifts
<1> HIDE DEF c, p
<1>3. UnescapedFrom(c)[1 + 1] = UnescapedFrom(t)[1]
  BY <1>1, <1>2
<1>4. UnescapedFrom(c)[1] = UnescStep(c, UnescapedFrom(c), 1)
  BY <1>1, UnescapeUnfolds
<1>5. ~(1 > Len(c))
  BY <1>1
<1> QED
  BY <1>1, <1>3, <1>4, <1>5 DEF UnescStep, Unescape, c, p

LEMMA UnescapeCode ==
  ASSUME NEW x \in Octet, NEW t \in Buffer
  PROVE  Unescape(<<"EE", x>> \o t) = AnyBefore(Meaning(x), Unescape(t))
<1> DEFINE p == <<"EE", x>>
           c == p \o t
<1>1. /\ p \in Buffer /\ Len(p) = 2 /\ c \in Buffer /\ Len(t) \in Nat
      /\ Len(c) = Len(t) + 2 /\ c[1] = "EE" /\ c[2] = x
  <2>1. "EE" \in Octet
    BY DEF Octet
  <2> QED
    BY <2>1, TwoMore
<1>2. \A j \in 1 .. Len(t) + 1 : UnescapedFrom(c)[Len(p) + j] = UnescapedFrom(t)[j]
  BY <1>1, UnescapeShifts
<1> HIDE DEF c, p
<1>3. UnescapedFrom(c)[1 + 2] = UnescapedFrom(t)[1]
  BY <1>1, <1>2
<1>4. UnescapedFrom(c)[1] = UnescStep(c, UnescapedFrom(c), 1)
  BY <1>1, UnescapeUnfolds
<1>5. ~(1 > Len(c)) /\ 1 # Len(c) /\ c[1 + 1] = x
  BY <1>1
<1> QED
  BY <1>1, <1>3, <1>4, <1>5 DEF UnescStep, Unescape, c, p

-----------------------------------------------------------------------------
(* What is left of a buffer at a position *)

Rest(d, i) == SubSeq(d, i, Len(d))

LEMMA TwoIsOneAndOne ==
  ASSUME NEW x \in Octet, NEW y \in Octet, NEW t \in Buffer
  PROVE  <<x, y>> \o t = <<x>> \o (<<y>> \o t)
<1> DEFINE r == <<y>> \o t
           c == <<x>> \o r
           e == <<x, y>> \o t
<1>1. /\ Len(t) \in Nat /\ r \in Buffer /\ Len(r) = Len(t) + 1 /\ r[1] = y
      /\ \A j \in 1 .. Len(t) : r[j + 1] = t[j]
  BY OneMore
<1>2. /\ e \in Buffer /\ Len(e) = Len(t) + 2 /\ e[1] = x /\ e[2] = y
      /\ \A j \in 1 .. Len(t) : e[j + 2] = t[j]
  BY TwoMore
<1> HIDE DEF r, e
<1>3. /\ c \in Buffer /\ Len(c) = Len(r) + 1 /\ c[1] = x
      /\ \A j \in 1 .. Len(r) : c[j + 1] = r[j]
  BY <1>1, OneMore
<1> HIDE DEF c
<1>4. ASSUME NEW i \in 1 .. Len(e)
      PROVE  e[i] = c[i]
  <2>1. CASE i = 1
    BY <1>2, <1>3, <2>1
  <2>2. CASE i = 2
    <3>1. 1 \in 1 .. Len(r) /\ 1 + 1 = 2
      BY <1>1
    <3> QED
      BY <1>1, <1>2, <1>3, <2>2, <3>1
  <2>3. CASE i # 1 /\ i # 2
    <3>1. /\ i - 2 \in 1 .. Len(t) /\ (i - 2) + 2 = i /\ (i - 2) + 1 = i - 1
          /\ i - 1 \in 1 .. Len(r) /\ (i - 1) + 1 = i
      BY <1>1, <1>2, <2>3
    <3>2. e[i] = t[i - 2] /\ r[i - 1] = t[i - 2] /\ c[i] = r[i - 1]
      BY <1>1, <1>2, <1>3, <3>1
    <3> QED
      BY <3>2
  <2> QED
    BY <2>1, <2>2, <2>3
<1>5. e = c
  BY <1>1, <1>2, <1>3, <1>4, SeqEqual DEF Buffer
<1> QED
  BY <1>5 DEF e, c, r

LEMMA RestProperties ==
  ASSUME NEW d \in Buffer
  PROVE  /\ Len(d) \in Nat
         /\ Rest(d, 1) = d
         /\ Rest(d, Len(d) + 1) = <<>>
         /\ \A i \in 1 .. Len(d) : d[i] \in Octet
         /\ \A i \in 1 .. Len(d) + 1 : Rest(d, i) \in Buffer
         /\ \A i \in 1 .. Len(d) : Rest(d, i) = <<d[i]>> \o Rest(d, i + 1)
         /\ \A i \in 1 .. Len(d) :
              i + 1 <= Len(d) => Rest(d, i) = <<d[i], d[i + 1]>> \o Rest(d, i + 2)
<1>1. Len(d) \in Nat /\ \A i \in 1 .. Len(d) : d[i] \in Octet
  BY LenProperties, ElementOfSeq DEF Buffer
<1>2. Rest(d, 1) = d
  BY SubSeqFull DEF Rest, Buffer
<1>3. Rest(d, Len(d) + 1) = <<>>
  BY <1>1, SubSeqEmpty DEF Rest
<1>4. ASSUME NEW i \in 1 .. Len(d) + 1
      PROVE  Rest(d, i) \in Buffer
  <2>1. i \in Int /\ Len(d) \in Int /\ \A j \in i .. Len(d) : d[j] \in Octet
    BY <1>1
  <2> QED
    BY <2>1, SubSeqProperties DEF Rest, Buffer
<1>5. ASSUME NEW i \in 1 .. Len(d)
      PROVE  Rest(d, i) = <<d[i]>> \o Rest(d, i + 1)
  <2>1. Len(d) \in i .. Len(d)
    BY <1>1
  <2> QED
    BY <2>1, SubSeqRecursiveFirst DEF Rest, Buffer
<1>6. ASSUME NEW i \in 1 .. Len(d), i + 1 <= Len(d)
      PROVE  Rest(d, i) = <<d[i], d[i + 1]>> \o Rest(d, i + 2)
  <2>1. i + 1 \in 1 .. Len(d) /\ i + 2 \in 1 .. Len(d) + 1 /\ (i + 1) + 1 = i + 2
    BY <1>1, <1>6
  <2>2. Rest(d, i + 1) = <<d[i + 1]>> \o Rest(d, i + 2)
    BY <1>5, <2>1
  <2>3. <<d[i], d[i + 1]>> \o Rest(d, i + 2) = <<d[i]>> \o (<<d[i + 1]>> \o Rest(d, i + 2))
    BY <1>1, <1>4, <2>1, TwoIsOneAndOne
  <2> QED
    BY <1>5, <2>2, <2>3
<1> QED
  BY <1>1, <1>2, <1>3, <1>4, <1>5, <1>6

\* What escape94c3 has done so far at each position, case by case.
LEMMA EscapeCases ==
  ASSUME NEW d \in Buffer, NEW i \in 1 .. Len(d)
  PROVE  \/ /\ i + 1 <= Len(d) /\ d[i] = "94" /\ d[i + 1] = "C3"
            /\ i + 2 \in 1 .. Len(d) + 1
            /\ EscapedFrom(d)[i] = <<"EE", "01">> \o EscapedFrom(d)[i + 2]
         \/ /\ d[i] = "EE"
            /\ EscapedFrom(d)[i] = <<"EE", "00">> \o EscapedFrom(d)[i + 1]
         \/ /\ d[i] # "EE" /\ ~(i + 1 <= Len(d) /\ d[i] = "94" /\ d[i + 1] = "C3")
            /\ EscapedFrom(d)[i] = <<d[i]>> \o EscapedFrom(d)[i + 1]
<1>1. Len(d) \in Nat /\ i \in 1 .. Len(d) + 1 /\ ~(i > Len(d))
  BY LenProperties DEF Buffer
<1>2. EscapedFrom(d)[i] = EscStep(d, EscapedFrom(d), i)
  BY <1>1, EscapeUnfolds
<1>3. CASE PairAt(d, i)
  <2>1. i + 2 \in 1 .. Len(d) + 1
    BY <1>1, <1>3 DEF PairAt
  <2> QED
    BY <1>1, <1>2, <1>3, <2>1 DEF EscStep, PairAt
<1>4. CASE ~PairAt(d, i) /\ d[i] = "EE"
  BY <1>1, <1>2, <1>4 DEF EscStep
<1>5. CASE ~PairAt(d, i) /\ d[i] # "EE"
  <2>1. EscapedFrom(d)[i] = <<d[i]>> \o EscapedFrom(d)[i + 1]
    BY <1>1, <1>2, <1>5 DEF EscStep
  <2>2. ~(i + 1 <= Len(d) /\ d[i] = "94" /\ d[i + 1] = "C3")
    BY <1>5 DEF PairAt
  <2> QED
    BY <1>5, <2>1, <2>2
<1> QED
  BY <1>3, <1>4, <1>5

-----------------------------------------------------------------------------
(* The properties of escape94c3 and unescape94c3 *)

\* Whatever the buffer, reading back what was escaped gives it again, and
\* nothing else (lib.rs:376-424).
THEOREM ReadsBack ==
  ASSUME NEW d \in Buffer
  PROVE  Unescape(Escape(d)) = {d}
<1> DEFINE n == Len(d) + 1
           E == EscapedFrom(d)
           T == {i \in 1 .. n : Unescape(E[i]) # {Rest(d, i)}}
<1>1. Len(d) \in Nat /\ n \in Nat /\ 1 \in 1 .. n
  BY LenProperties DEF Buffer
<1>2. \A i \in 1 .. n : E[i] \in Buffer
  BY EscapeUnfolds
<1>3. \A i \in 1 .. n : Rest(d, i) \in Buffer
  BY RestProperties
<1>4. "EE" \in Octet /\ "00" \in Octet /\ "01" \in Octet /\ "94" \in Octet /\ "C3" \in Octet
  BY DEF Octet
<1>5. Meaning("00") = {<<"EE">>} /\ Meaning("01") = {<<"94", "C3">>}
  BY DEF Meaning
<1>6. ASSUME T # {}
      PROVE  FALSE
  <2>1. PICK k \in T : \A y \in T : y <= k
    BY <1>1, <1>6, Largest
  <2>2. CASE k = n
    <3>1. E[k] = <<>>
      <4>1. k > Len(d)
        BY <1>1, <2>2
      <4>2. E[k] = EscStep(d, E, k)
        BY <2>1, EscapeUnfolds
      <4> QED
        BY <4>1, <4>2 DEF EscStep
    <3> QED
      BY <2>1, <2>2, <3>1, NothingIsItself, RestProperties
  <2>3. CASE k # n
    <3>1. k \in 1 .. Len(d) /\ k + 1 \in 1 .. n /\ ~(k + 1 <= k) /\ ~(k + 2 <= k)
      BY <1>1, <2>3
    <3>2. Unescape(E[k + 1]) = {Rest(d, k + 1)}
      BY <2>1, <3>1
    <3>3. CASE /\ k + 1 <= Len(d) /\ d[k] = "94" /\ d[k + 1] = "C3"
               /\ k + 2 \in 1 .. n
               /\ E[k] = <<"EE", "01">> \o E[k + 2]
      <4>1. Unescape(E[k + 2]) = {Rest(d, k + 2)}
        BY <2>1, <3>1, <3>3
      <4>2. Unescape(E[k]) = AnyBefore(Meaning("01"), Unescape(E[k + 2]))
        BY <1>2, <1>4, <3>3, UnescapeCode
      <4>3. Unescape(E[k]) = AnyBefore({<<"94", "C3">>}, {Rest(d, k + 2)})
        BY <1>5, <4>1, <4>2
      <4>4. AnyBefore({<<"94", "C3">>}, {Rest(d, k + 2)}) = {<<"94", "C3">> \o Rest(d, k + 2)}
        BY OneBeforeOne
      <4>5. Rest(d, k) = <<"94", "C3">> \o Rest(d, k + 2)
        BY <3>1, <3>3, RestProperties
      <4> QED
        BY <2>1, <4>3, <4>4, <4>5
    <3>4. CASE d[k] = "EE" /\ E[k] = <<"EE", "00">> \o E[k + 1]
      <4>1. Unescape(E[k]) = AnyBefore(Meaning("00"), Unescape(E[k + 1]))
        BY <1>2, <1>4, <3>1, <3>4, UnescapeCode
      <4>2. Unescape(E[k]) = AnyBefore({<<"EE">>}, {Rest(d, k + 1)})
        BY <1>5, <3>2, <4>1
      <4>3. AnyBefore({<<"EE">>}, {Rest(d, k + 1)}) = {<<"EE">> \o Rest(d, k + 1)}
        BY OneBeforeOne
      <4>4. Rest(d, k) = <<"EE">> \o Rest(d, k + 1)
        BY <3>1, <3>4, RestProperties
      <4> QED
        BY <2>1, <4>2, <4>3, <4>4
    <3>5. CASE d[k] # "EE" /\ E[k] = <<d[k]>> \o E[k + 1]
      <4>1. d[k] \in Octet /\ E[k + 1] \in Buffer
        BY <1>2, <3>1, RestProperties
      <4>2. Unescape(E[k]) = OctetBefore(d[k], Unescape(E[k + 1]))
        BY <3>5, <4>1, UnescapeOctet
      <4>3. Unescape(E[k]) = OctetBefore(d[k], {Rest(d, k + 1)})
        BY <3>2, <4>2
      <4>4. OctetBefore(d[k], {Rest(d, k + 1)}) = {<<d[k]>> \o Rest(d, k + 1)}
        BY OctetBeforeMembers
      <4>5. Rest(d, k) = <<d[k]>> \o Rest(d, k + 1)
        BY <3>1, RestProperties
      <4> QED
        BY <2>1, <4>3, <4>4, <4>5
    <3> QED
      BY <3>1, <3>3, <3>4, <3>5, EscapeCases
  <2> QED
    BY <2>2, <2>3
<1>7. Unescape(E[1]) = {Rest(d, 1)}
  BY <1>1, <1>6
<1> QED
  BY <1>7, RestProperties DEF Escape

\* A pair in <<x>> \o t lies in t, or x opens it.
LEMMA PairBehindOctet ==
  ASSUME NEW x \in Octet, NEW t \in Buffer,
         ~HasPair(t), x # "94" \/ t = <<>> \/ t[1] # "C3"
  PROVE  ~HasPair(<<x>> \o t) /\ <<x>> \o t # <<>> /\ (<<x>> \o t)[1] = x
<1> DEFINE c == <<x>> \o t
<1>1. /\ c \in Buffer /\ Len(t) \in Nat /\ Len(c) = Len(t) + 1 /\ c[1] = x
      /\ DOMAIN c = 1 .. Len(t) + 1
      /\ \A j \in 1 .. Len(t) : c[j + 1] = t[j]
  BY OneMore
<1>2. DOMAIN t = 1 .. Len(t) /\ (t = <<>> => Len(t) = 0)
  BY LenProperties, EmptySeq DEF Buffer
<1> HIDE DEF c
<1>3. ASSUME NEW i \in DOMAIN c, i + 1 \in DOMAIN c, c[i] = "94", c[i + 1] = "C3"
      PROVE  FALSE
  <2>1. i \in 1 .. Len(t) /\ c[i + 1] = t[i]
    BY <1>1, <1>3
  <2>2. CASE i = 1
    <3>1. t # <<>> /\ t[1] = "C3" /\ x = "94"
      BY <1>1, <1>2, <1>3, <2>1, <2>2
    <3> QED
      BY <3>1
  <2>3. CASE i # 1
    <3>1. i - 1 \in 1 .. Len(t) /\ (i - 1) + 1 = i
      BY <1>1, <2>1, <2>3
    <3>2. c[i] = t[i - 1]
      BY <1>1, <3>1
    <3>3. i - 1 \in DOMAIN t /\ (i - 1) + 1 \in DOMAIN t
      BY <1>2, <2>1, <3>1
    <3>4. t[i - 1] = "94" /\ t[(i - 1) + 1] = "C3"
      BY <1>3, <2>1, <3>1, <3>2
    <3> QED
      BY <3>3, <3>4 DEF HasPair
  <2> QED
    BY <2>2, <2>3
<1>4. c # <<>>
  BY <1>1, EmptySeq
<1>5. ~HasPair(c)
  BY <1>3 DEF HasPair
<1> QED
  BY <1>1, <1>4, <1>5 DEF c

\* Nor does an escape code open one.
LEMMA PairBehindCode ==
  ASSUME NEW x \in Octet, NEW t \in Buffer, ~HasPair(t), x # "94", x # "C3"
  PROVE  ~HasPair(<<"EE", x>> \o t) /\ (<<"EE", x>> \o t)[1] = "EE"
<1> DEFINE r == <<x>> \o t
<1>1. "EE" \in Octet /\ "EE" # "94"
  BY DEF Octet
<1>2. r \in Buffer /\ ~HasPair(r)
  BY OneMore, PairBehindOctet
<1>3. <<"EE", x>> \o t = <<"EE">> \o r
  BY <1>1, TwoIsOneAndOne
<1> HIDE DEF r
<1>4. ~HasPair(<<"EE">> \o r) /\ (<<"EE">> \o r)[1] = "EE"
  BY <1>1, <1>2, PairBehindOctet
<1> QED
  BY <1>3, <1>4

\* Whatever the buffer, what escape94c3 makes of it has no 94 C3: at every
\* position, what is written from there on has none, and starts with C3 only
\* where the buffer does (lib.rs:376-395).
THEOREM LeavesNoPair ==
  ASSUME NEW d \in Buffer
  PROVE  ~HasPair(Escape(d))
<1> DEFINE n == Len(d) + 1
           E == EscapedFrom(d)
           Fine(i) == /\ ~HasPair(E[i])
                      /\ E[i] # <<>> /\ E[i][1] = "C3" => i <= Len(d) /\ d[i] = "C3"
           T == {i \in 1 .. n : ~Fine(i)}
<1>1. Len(d) \in Nat /\ n \in Nat /\ 1 \in 1 .. n
  BY LenProperties DEF Buffer
<1>2. \A i \in 1 .. n : E[i] \in Buffer
  BY EscapeUnfolds
<1>3. "00" \in Octet /\ "01" \in Octet
  BY DEF Octet
<1>4. ASSUME T # {}
      PROVE  FALSE
  <2>1. PICK k \in T : \A y \in T : y <= k
    BY <1>1, <1>4, Largest
  <2>2. CASE k = n
    <3>1. k > Len(d)
      BY <1>1, <2>2
    <3>2. E[k] = EscStep(d, E, k)
      BY <2>1, EscapeUnfolds
    <3>3. E[k] = <<>>
      BY <3>1, <3>2 DEF EscStep
    <3>4. ~HasPair(<<>>)
      BY DEF HasPair
    <3> QED
      BY <2>1, <3>3, <3>4
  <2>3. CASE k # n
    <3>1. k \in 1 .. Len(d) /\ k + 1 \in 1 .. n /\ ~(k + 1 <= k) /\ ~(k + 2 <= k)
      BY <1>1, <2>3
    <3>2. Fine(k + 1) /\ E[k + 1] \in Buffer
      BY <1>2, <2>1, <3>1
    <3>3. CASE k + 2 \in 1 .. n /\ E[k] = <<"EE", "01">> \o E[k + 2]
      <4>1. ~HasPair(E[k + 2]) /\ E[k + 2] \in Buffer
        BY <1>2, <2>1, <3>1, <3>3
      <4>2. ~HasPair(E[k]) /\ E[k][1] = "EE"
        BY <1>3, <3>3, <4>1, PairBehindCode
      <4> QED
        BY <2>1, <4>2
    <3>4. CASE E[k] = <<"EE", "00">> \o E[k + 1]
      <4>1. ~HasPair(E[k]) /\ E[k][1] = "EE"
        BY <1>3, <3>2, <3>4, PairBehindCode
      <4> QED
        BY <2>1, <4>1
    <3>5. CASE /\ ~(k + 1 <= Len(d) /\ d[k] = "94" /\ d[k + 1] = "C3")
               /\ E[k] = <<d[k]>> \o E[k + 1]
      <4>1. d[k] \in Octet
        BY <3>1, RestProperties
      <4>2. d[k] # "94" \/ E[k + 1] = <<>> \/ E[k + 1][1] # "C3"
        BY <3>2, <3>5
      <4>3. ~HasPair(E[k]) /\ E[k][1] = d[k]
        BY <3>2, <3>5, <4>1, <4>2, PairBehindOctet
      <4> QED
        BY <1>1, <2>1, <3>1, <4>3
    <3> QED
      BY <3>1, <3>3, <3>4, <3>5, EscapeCases
  <2> QED
    BY <2>2, <2>3
<1> QED
  BY <1>1, <1>4 DEF Escape

\* A buffer that starts with C3 still does when it is escaped.
LEMMA C3StaysFirst ==
  ASSUME NEW v \in Buffer, v # <<>>, v[1] = "C3"
  PROVE  Escape(v) # <<>> /\ Escape(v)[1] = "C3"
<1>1. Len(v) \in Nat /\ 1 \in 1 .. Len(v) /\ 1 \in 1 .. Len(v) + 1
  BY LenProperties, EmptySeq DEF Buffer
<1> DEFINE r == EscapedFrom(v)[1 + 1]
<1>2. EscapedFrom(v)[1] = <<v[1]>> \o r
  BY <1>1, EscapeCases
<1>3. r \in Buffer /\ "C3" \in Octet
  <2>1. 1 + 1 \in 1 .. Len(v) + 1
    BY <1>1
  <2> QED
    BY <2>1, EscapeUnfolds DEF Octet
<1> HIDE DEF r
<1>4. (<<"C3">> \o r)[1] = "C3" /\ Len(<<"C3">> \o r) = Len(r) + 1 /\ Len(r) \in Nat
  BY <1>3, OneMore
<1>5. <<"C3">> \o r # <<>>
  BY <1>4, EmptySeq
<1> QED
  BY <1>2, <1>4, <1>5 DEF Escape

\* The two are inverse the other way round on buffers without the pair: what is
\* read escapes to what was received (lib.rs:398-424).
THEOREM ReadsOnlyEscapes ==
  ASSUME NEW e \in Buffer, ~HasPair(e)
  PROVE  \A u \in Unescape(e) : Escape(u) = e
<1> DEFINE n == Len(e) + 1
           U == UnescapedFrom(e)
           T == {i \in 1 .. n : ~\A u \in U[i] : Escape(u) = Rest(e, i)}
<1>1. Len(e) \in Nat /\ n \in Nat /\ 1 \in 1 .. n /\ DOMAIN e = 1 .. Len(e)
  BY LenProperties DEF Buffer
<1>2. \A i \in 1 .. n : U[i] \subseteq Buffer
  BY UnescapeUnfolds
<1>3. "EE" \in Octet /\ "00" \in Octet /\ "01" \in Octet /\ "94" \in Octet /\ "C3" \in Octet
  BY DEF Octet
<1>4. ASSUME T # {}
      PROVE  FALSE
  <2>1. PICK k \in T : \A y \in T : y <= k
    BY <1>1, <1>4, Largest
  <2>2. PICK u \in U[k] : Escape(u) # Rest(e, k)
    BY <2>1
  <2>3. U[k] = UnescStep(e, U, k) /\ k \in 1 .. n
    BY <2>1, UnescapeUnfolds
  <2>4. CASE k > Len(e)
    <3>1. u = <<>>
      BY <2>2, <2>3, <2>4 DEF UnescStep
    <3>2. k = Len(e) + 1
      BY <1>1, <2>3, <2>4
    <3> QED
      BY <2>2, <3>1, <3>2, NothingIsItself, RestProperties
  <2>5. CASE ~(k > Len(e)) /\ e[k] # "EE"
    <3>1. k \in 1 .. Len(e) /\ k + 1 \in 1 .. n /\ ~(k + 1 <= k)
      BY <1>1, <2>3, <2>5
    <3>2. U[k] = OctetBefore(e[k], U[k + 1])
      BY <2>3, <2>5 DEF UnescStep
    <3>3. PICK v \in U[k + 1] : u = <<e[k]>> \o v
      <4>1. \A o, S : u \in OctetBefore(o, S) => \E v \in S : u = <<o>> \o v
        BY OctetBeforeMembers
      <4> QED
        BY <2>2, <3>2, <4>1
    <3>4. Escape(v) = Rest(e, k + 1) /\ v \in Buffer /\ e[k] \in Octet
      BY <1>2, <2>1, <3>1, RestProperties
    <3>5. ~(e[k] = "94" /\ v # <<>> /\ v[1] = "C3")
      <4>1. ASSUME e[k] = "94", v # <<>>, v[1] = "C3"
            PROVE  FALSE
        <5>1. Rest(e, k + 1) # <<>> /\ Rest(e, k + 1)[1] = "C3"
          BY <3>4, <4>1, C3StaysFirst
        <5>2. k + 1 \in 1 .. Len(e)
          BY <1>1, <3>1, <5>1, RestProperties
        <5>3. /\ Rest(e, k + 1) = <<e[k + 1]>> \o Rest(e, (k + 1) + 1)
              /\ e[k + 1] \in Octet /\ Rest(e, (k + 1) + 1) \in Buffer
          <6>1. (k + 1) + 1 \in 1 .. Len(e) + 1
            BY <1>1, <5>2
          <6> QED
            BY <5>2, <6>1, RestProperties
        <5>4. e[k + 1] = "C3"
          BY <5>1, <5>3, OneMore
        <5> QED
          BY <1>1, <3>1, <4>1, <5>2, <5>4 DEF HasPair
      <4> QED
        BY <4>1
    <3>6. Escape(u) = <<e[k]>> \o Escape(v)
      BY <2>5, <3>3, <3>4, <3>5, EscapeOctet
    <3>7. Rest(e, k) = <<e[k]>> \o Rest(e, k + 1)
      BY <3>1, RestProperties
    <3> QED
      BY <2>2, <3>4, <3>6, <3>7
  <2>6. CASE ~(k > Len(e)) /\ e[k] = "EE"
    <3>1. k # Len(e)
      BY <2>2, <2>3, <2>6 DEF UnescStep
    <3>2. /\ k \in 1 .. Len(e) /\ k + 1 <= Len(e)
          /\ k + 2 \in 1 .. Len(e) + 1 /\ ~(k + 2 <= k)
      <4>1. Len(e) \in Nat /\ k \in 1 .. Len(e) + 1 /\ ~(k > Len(e))
        BY <1>1, <2>1, <2>6
      <4> QED
        BY <3>1, <4>1
    <3>3. U[k] = AnyBefore(Meaning(e[k + 1]), U[k + 2])
      BY <2>3, <2>6, <3>1 DEF UnescStep
    <3>4. PICK s \in Meaning(e[k + 1]), v \in U[k + 2] : u = s \o v
      <4>1. \A M, S : u \in AnyBefore(M, S) => \E s \in M, v \in S : u = s \o v
        BY AnyBeforeMembers
      <4> QED
        BY <2>2, <3>3, <4>1
    <3>5. Escape(v) = Rest(e, k + 2) /\ v \in Buffer
      BY <1>2, <2>1, <3>2
    <3>6. Rest(e, k) = <<"EE", e[k + 1]>> \o Rest(e, k + 2)
      BY <2>6, <3>2, RestProperties
    <3>7. CASE e[k + 1] = "00" /\ s = <<"EE">>
      <4>1. Escape(u) = <<"EE", "00">> \o Escape(v)
        BY <1>3, <3>4, <3>5, <3>7, EscapeOctet
      <4> QED
        BY <2>2, <3>5, <3>6, <3>7, <4>1
    <3>8. CASE e[k + 1] = "01" /\ s = <<"94", "C3">>
      <4>1. Escape(u) = <<"EE", "01">> \o Escape(v)
        BY <3>4, <3>5, <3>8, EscapePair
      <4> QED
        BY <2>2, <3>5, <3>6, <3>8, <4>1
    <3> QED
      BY <3>4, <3>7, <3>8 DEF Meaning
  <2> QED
    BY <2>4, <2>5, <2>6
<1>5. \A u \in U[1] : Escape(u) = Rest(e, 1)
  BY <1>1, <1>4
<1> QED
  BY <1>5, RestProperties DEF Unescape

-----------------------------------------------------------------------------
(* Strings, tags and notes *)

String == Seq(Char)
Tag == Seq(String) \ {<<>>}
Event == [kind : {1, 65535}, tags : Seq(Tag), content : String]

LEMMA HexIsLossless ==
  ASSUME NEW s \in String, IsHexLowercase(s)
  PROVE  HexEncode(HexDecode(s)) = s
<1> DEFINE h == Len(s) \div 2
           o == HexDecode(s)
           e == HexEncode(o)
<1>1. Len(s) \in Nat /\ DOMAIN s = 1 .. Len(s) /\ s \in [1 .. Len(s) -> Char]
  BY LenProperties DEF String
<1>2. h \in Nat /\ 2 * h = Len(s)
  <2> DEFINE l == Len(s)
  <2>1. l \in Nat /\ l % 2 = 0
    BY <1>1 DEF IsHexLowercase
  <2> HIDE DEF l
  <2>2. l \div 2 \in Nat /\ 2 * (l \div 2) = l
    BY <2>1
  <2> QED
    BY <2>2 DEF l
<1>3. o = [i \in 1 .. h |-> <<Nibble(s[2 * i - 1]), Nibble(s[2 * i])>>]
  BY DEF HexDecode
<1> HIDE DEF h, o
<1>4. Len(o) = h
  BY <1>2, <1>3
<1>5. e = [i \in 1 .. 2 * h |-> HexDigit(o[(i + 1) \div 2][2 - (i % 2)])]
  BY <1>4 DEF HexEncode
<1> HIDE DEF e
<1>6. \A c \in {"0", "a"} : HexDigit(Nibble(c)) = c
  BY DEF HexDigit, Nibble
<1>7. ASSUME NEW i \in 1 .. Len(s)
      PROVE  e[i] = s[i]
  <2> DEFINE k == (i + 1) \div 2
  <2>1. s[i] \in {"0", "a"}
    BY <1>1 DEF IsHexLowercase
  <2>2. e[i] = HexDigit(o[k][2 - (i % 2)])
    BY <1>2, <1>5
  <2>3. k \in 1 .. h /\ (i % 2 = 1 => i = 2 * k - 1) /\ (i % 2 = 0 => i = 2 * k)
    BY <1>1, <1>2
  <2>4. i % 2 = 0 \/ i % 2 = 1
    BY <1>1
  <2> HIDE DEF k
  <2>5. o[k] = <<Nibble(s[2 * k - 1]), Nibble(s[2 * k])>>
    BY <1>3, <2>3
  <2>6. CASE i % 2 = 1
    <3>1. o[k][1] = Nibble(s[i])
      BY <2>3, <2>5, <2>6
    <3> QED
      BY <1>6, <2>1, <2>2, <2>6, <3>1
  <2>7. CASE i % 2 = 0
    <3>1. o[k][2] = Nibble(s[i])
      BY <2>3, <2>5, <2>7
    <3> QED
      BY <1>6, <2>1, <2>2, <2>7, <3>1
  <2> QED
    BY <2>4, <2>6, <2>7
<1>8. e = [i \in 1 .. Len(s) |-> s[i]]
  <2>1. DOMAIN e = 1 .. Len(s) /\ e = [i \in DOMAIN e |-> e[i]]
    BY <1>2, <1>5
  <2> QED
    BY <1>7, <2>1
<1> QED
  BY <1>1, <1>8 DEF e, o

\* Whatever the string, decoding what it was encoded as gives it again
\* (encoded_note.rs:91-155).
THEOREM StringsReadBack ==
  ASSUME NEW s \in String
  PROVE  DecodeString(EncodeString(s)) = s
<1>1. CASE IsHexLowercase(s)
  <2>1. EncodeString(s) = [type |-> "HexEncoded", val |-> HexDecode(s)]
    BY <1>1 DEF EncodeString
  <2>2. DecodeString(EncodeString(s)) = HexEncode(HexDecode(s))
    BY <2>1 DEF DecodeString
  <2> QED
    BY <1>1, <2>2, HexIsLossless
<1>2. CASE ~IsHexLowercase(s)
  <2>1. CASE Len(s) > CompressOver
    <3>1. EncodeString(s) = [type |-> "Compressed", val |-> Compress(s)]
      BY <1>2, <2>1 DEF EncodeString
    <3> QED
      BY <3>1 DEF DecodeString, Decompress, Compress
  <2>2. CASE ~(Len(s) > CompressOver)
    <3>1. EncodeString(s) = [type |-> "Utf8String", val |-> s]
      BY <1>2, <2>2 DEF EncodeString
    <3> QED
      BY <3>1 DEF DecodeString
  <2> QED
    BY <2>1, <2>2
<1> QED
  BY <1>1, <1>2

LEMMA TagsReadBack ==
  ASSUME NEW tag \in Tag
  PROVE  DecodeTag(EncodeTag(tag)) = {tag}
<1> DEFINE enc == EncodeTag(tag)
           dec == [i \in DOMAIN enc |-> DecodeString(enc[i])]
<1>1. tag \in Seq(String) /\ tag # <<>>
  BY DEF Tag
<1>2. DOMAIN tag = 1 .. Len(tag) /\ tag = [i \in DOMAIN tag |-> tag[i]]
      /\ \A i \in DOMAIN tag : tag[i] \in String
  BY <1>1, LenProperties
<1>3. enc = [i \in DOMAIN tag |-> EncodeString(tag[i])]
  BY DEF EncodeTag, EncodeStrings
<1> HIDE DEF enc
<1>4. \A i \in DOMAIN tag : DecodeString(enc[i]) = tag[i]
  BY <1>2, <1>3, StringsReadBack
<1>5. dec = tag
  BY <1>2, <1>3, <1>4
<1>6. DecodeTag(enc) = ParseTag(dec)
  BY DEF DecodeTag
<1> HIDE DEF dec
<1> QED
  BY <1>1, <1>5, <1>6 DEF ParseTag, enc

\* Whatever the event, its note converts at the peer, and to that event
\* (encoded_note.rs:13-89).
THEOREM NotesReadBack ==
  ASSUME NEW ev \in Event
  PROVE  DecodeNote(EncodeNote(ev)) = {ev}
<1> DEFINE note == EncodeNote(ev)
           D == DOMAIN note.tags
           F == [D -> UNION {DecodeTag(note.tags[i]) : i \in D}]
           Good(ts) == \A i \in D : ts[i] \in DecodeTag(note.tags[i])
           content == IF note.content = {} THEN <<>>
                      ELSE DecodeString(CHOOSE c \in note.content : TRUE)
<1>1. ev.kind \in {1, 65535} /\ ev.tags \in Seq(Tag) /\ ev.content \in String
      /\ ev = [kind |-> ev.kind, tags |-> ev.tags, content |-> ev.content]
  BY DEF Event
<1>2. /\ note.kind = ev.kind
      /\ note.tags = [i \in DOMAIN ev.tags |-> EncodeTag(ev.tags[i])]
      /\ note.content = {EncodeString(ev.content)}
  BY DEF EncodeNote
<1>3. DecodeNote(note) =
        {[kind |-> note.kind % 65536, tags |-> tags, content |-> content] :
           tags \in {ts \in F : \A i \in DOMAIN ts : ts[i] \in DecodeTag(note.tags[i])}}
  BY DEF DecodeNote
<1> HIDE DEF note
<1>4. ev.kind % 65536 = ev.kind
  BY <1>1
<1>5. content = ev.content
  BY <1>1, <1>2, StringsReadBack
<1>6. D = DOMAIN ev.tags /\ DOMAIN ev.tags = 1 .. Len(ev.tags)
      /\ ev.tags = [i \in D |-> ev.tags[i]] /\ \A i \in D : ev.tags[i] \in Tag
  BY <1>1, <1>2, LenProperties
<1>7. \A i \in D : DecodeTag(note.tags[i]) = {ev.tags[i]}
  BY <1>2, <1>6, TagsReadBack
<1>8. {ts \in F : \A i \in DOMAIN ts : ts[i] \in DecodeTag(note.tags[i])} = {ev.tags}
  <2>1. ev.tags \in F /\ \A i \in DOMAIN ev.tags : ev.tags[i] \in DecodeTag(note.tags[i])
    BY <1>6, <1>7
  <2>2. ASSUME NEW ts \in F, \A i \in DOMAIN ts : ts[i] \in DecodeTag(note.tags[i])
        PROVE  ts = ev.tags
    BY <1>6, <1>7, <2>2
  <2> QED
    BY <2>1, <2>2
<1> HIDE DEF F, content
<1>9. DecodeNote(note) = {[kind |-> ev.kind, tags |-> ev.tags, content |-> ev.content]}
  BY <1>2, <1>3, <1>4, <1>5, <1>8
<1> QED
  BY <1>1, <1>9 DEF note

-----------------------------------------------------------------------------
(* The specification *)

TypeInv == data \in Buffer /\ event \in Event

LEMMA MakesEvent ==
  ASSUME NEW k \in {1, 65535}, NEW t \in Seq(Tag), NEW c \in String
  PROVE  [kind |-> k, tags |-> t, content |-> c] \in Event
BY DEF Event

LEMMA StepKeepsTypeInv ==
  ASSUME TypeInv, [Next]_vars
  PROVE  TypeInv'
<1>1. CASE GrowBuffer
  <2>1. PICK o \in Octet : data' = Append(data, o)
    BY <1>1 DEF GrowBuffer
  <2>2. data' \in Buffer
    BY <2>1, AppendProperties DEF TypeInv, Buffer
  <2> QED
    BY <1>1, <2>2 DEF GrowBuffer, TypeInv
<1>2. CASE GrowEvent
  <2> DEFINE tags == event.tags
             last == tags[Len(tags)]
  <2>1. /\ event.kind \in {1, 65535} /\ tags \in Seq(Tag) /\ event.content \in String
        /\ event = [kind |-> event.kind, tags |-> tags, content |-> event.content]
    BY DEF TypeInv, Event
  <2>2. <<>> \in String
    BY EmptySeq DEF String
  <2>3. << <<>> >> \in Tag
    <3>1. << <<>> >> # <<>>
      OBVIOUS
    <3> QED
      BY <2>2, <3>1 DEF Tag
  <2>4. tags # <<>> => Len(tags) \in 1 .. Len(tags) /\ last \in Tag
    BY <2>1, EmptySeq, LenProperties, ElementOfSeq
  <2>5. ASSUME NEW c \in Char, event' = [event EXCEPT !.content = Append(@, c)]
        PROVE  event' \in Event
    <3> DEFINE more == Append(event.content, c)
    <3>1. more \in String
      BY <2>1, AppendProperties DEF String
    <3>2. event' = [event EXCEPT !.content = more]
      BY <2>5
    <3> HIDE DEF more
    <3>3. event' = [kind |-> event.kind, tags |-> tags, content |-> more]
      BY <2>1, <3>2
    <3> QED
      BY <2>1, <3>1, <3>3, MakesEvent
  <2>6. ASSUME event' = [event EXCEPT !.tags = Append(@, << <<>> >>)]
        PROVE  event' \in Event
    <3> DEFINE more == Append(tags, << <<>> >>)
    <3>1. more \in Seq(Tag)
      BY <2>1, <2>3, AppendProperties
    <3>2. event' = [event EXCEPT !.tags = more]
      BY <2>6
    <3> HIDE DEF more
    <3>3. event' = [kind |-> event.kind, tags |-> more, content |-> event.content]
      BY <2>1, <3>2
    <3> QED
      BY <2>1, <3>1, <3>3, MakesEvent
  <2>7. ASSUME tags # <<>>, event' = [event EXCEPT !.tags[Len(Tags)] = Append(@, <<>>)]
        PROVE  event' \in Event
    <3>1. Append(last, <<>>) \in Tag
      BY <2>2, <2>4, <2>7, AppendProperties DEF Tag
    <3> DEFINE more == [tags EXCEPT ![Len(tags)] = Append(last, <<>>)]
    <3>2. more \in Seq(Tag)
      BY <2>1, <2>4, <2>7, <3>1, ExceptSeq
    <3>3. event' = [event EXCEPT !.tags = more]
      BY <2>7 DEF Tags
    <3> HIDE DEF more
    <3>4. event' = [kind |-> event.kind, tags |-> more, content |-> event.content]
      BY <2>1, <3>3
    <3> QED
      BY <2>1, <3>2, <3>4, MakesEvent
  <2>8. ASSUME tags # <<>>, NEW c \in Char,
               event' = [event EXCEPT !.tags[Len(Tags)][Len(Last(Tags))] = Append(@, c)]
        PROVE  event' \in Event
    <3> DEFINE text == last[Len(last)]
               newLast == [last EXCEPT ![Len(last)] = Append(text, c)]
    <3>1. last \in Seq(String) /\ last # <<>>
      BY <2>4, <2>8 DEF Tag
    <3>2. Len(last) \in 1 .. Len(last) /\ text \in String
      BY <3>1, EmptySeq, LenProperties, ElementOfSeq
    <3>3. Append(text, c) \in String
      BY <3>2, AppendProperties DEF String
    <3>4. newLast \in Seq(String) /\ Len(newLast) = Len(last)
      BY <3>1, <3>2, <3>3, ExceptSeq
    <3>5. newLast # <<>>
      <4>1. Len(newLast) # 0
        BY <3>2, <3>4
      <4> QED
        BY <4>1, EmptySeq
    <3>6. newLast \in Tag
      BY <3>4, <3>5 DEF Tag
    <3> HIDE DEF newLast
    <3> DEFINE more == [tags EXCEPT ![Len(tags)] = newLast]
    <3>7. more \in Seq(Tag)
      BY <2>1, <2>4, <2>8, <3>6, ExceptSeq
    <3>8. event' = [event EXCEPT !.tags = more]
      BY <2>8 DEF Tags, Last, newLast
    <3> HIDE DEF more
    <3>9. event' = [kind |-> event.kind, tags |-> more, content |-> event.content]
      BY <2>1, <3>8
    <3> QED
      BY <2>1, <3>7, <3>9, MakesEvent
  <2>9. event' \in Event
    BY <1>2, <2>5, <2>6, <2>7, <2>8 DEF GrowEvent, Tags
  <2> QED
    BY <1>2, <2>9 DEF GrowEvent, TypeInv
<1>3. CASE UNCHANGED vars
  BY <1>3 DEF vars, TypeInv
<1> QED
  BY <1>1, <1>2, <1>3 DEF Next

LEMMA InputsAreTyped == Spec => []TypeInv
<1>1. Init => TypeInv
  <2> SUFFICES ASSUME Init PROVE TypeInv
    OBVIOUS
  <2>1. <<>> \in Buffer /\ <<>> \in String /\ <<>> \in Seq(Tag)
    BY EmptySeq DEF Buffer, String
  <2>2. event \in Event
    <3>1. /\ event.kind \in {1, 65535} /\ event.tags = <<>> /\ event.content = <<>>
          /\ event = [kind |-> event.kind, tags |-> event.tags, content |-> event.content]
      BY DEF Init
    <3>2. event.tags \in Seq(Tag) /\ event.content \in String
      BY <2>1, <3>1
    <3>3. event.kind \in {1, 65535}
      BY <3>1
    <3>4. [kind |-> event.kind, tags |-> event.tags, content |-> event.content] \in Event
      BY <3>2, <3>3, MakesEvent
    <3>5. event = [kind |-> event.kind, tags |-> event.tags, content |-> event.content]
      BY <3>1
    <3> QED
      BY <3>4, <3>5
  <2> QED
    BY <2>1, <2>2 DEF Init, TypeInv
<1>2. TypeInv /\ [Next]_vars => TypeInv'
  BY StepKeepsTypeInv
<1> QED
  BY <1>1, <1>2, PTL DEF Spec

\* Every frame is read back as it was sent: what the mesh listener expects
\* (link.rs:279).
THEOREM FramesReadBack == Spec => []RoundTrip
<1>1. TypeInv => RoundTrip
  BY ReadsBack DEF TypeInv, RoundTrip
<1> QED
  BY <1>1, InputsAreTyped, PTL

\* The pair never goes on air (outgoing.rs:208-209).
THEOREM PairStaysOffAir == Spec => []NeverOnAir
<1>1. TypeInv => NeverOnAir
  BY LeavesNoPair DEF TypeInv, NeverOnAir
<1> QED
  BY <1>1, InputsAreTyped, PTL

\* What is accepted without the pair is the one encoding of what it says
\* (lib.rs:398-424).
THEOREM EncodingIsUnique == Spec => []Canonical
<1>1. TypeInv => Canonical
  BY ReadsOnlyEscapes DEF TypeInv, Canonical
<1> QED
  BY <1>1, InputsAreTyped, PTL

\* The signature of an event still fits its content (encoded_note.rs:91-155).
THEOREM StringsSurvive == Spec => []StringRoundTrip
<1>1. TypeInv => StringRoundTrip
  BY StringsReadBack DEF TypeInv, Event, StringRoundTrip
<1> QED
  BY <1>1, InputsAreTyped, PTL

\* No note a node sends makes the peer's unwrap fail (sync.rs:382).
THEOREM PeersConvert == Spec => []PeerDecodes
<1>1. TypeInv => PeerDecodes
  BY NotesReadBack DEF TypeInv, PeerDecodes
<1> QED
  BY <1>1, InputsAreTyped, PTL

=============================================================================
