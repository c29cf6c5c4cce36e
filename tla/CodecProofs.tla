---------------------------- MODULE CodecProofs ----------------------------
(***************************************************************************)
(* Theorems about the packets of SnmpCodec, for any texts, names and       *)
(* numbers: every packet consists of octets, and what one end writes the   *)
(* other reads, the characters of a text as well, which a packet carries   *)
(* as UTF-8.  What a recursive definition yields is proved of the set of   *)
(* numbers up to which it does so.                                         *)
(***************************************************************************)
EXTENDS SnmpCodec, SequenceTheorems, WellFoundedInduction, TLAPS

-----------------------------------------------------------------------------
(* Recursion over the natural numbers                                       *)

\* What holds of every set that has 0 and the successor of each of its numbers.
LEMMA Induct ==
  ASSUME NEW S, 0 \in S, \A n \in Nat : n \in S => n + 1 \in S
  PROVE  \A n \in Nat : n \in S
<1> DEFINE Missing == {n \in Nat : n \notin S}
<1>1. SUFFICES ASSUME Missing # {} PROVE FALSE
  OBVIOUS
<1>2. PICK m \in Missing : \A n \in Missing : ~(<<n, m>> \in OpToRel(<, Nat))
  <2>1. Missing \subseteq Nat
    OBVIOUS
  <2>2. QED
    BY <1>1, <2>1, WFMin, NatLessThanWellFounded, Zenon
<1>3. m \in Nat /\ m \notin S
  OBVIOUS
<1>4. m # 0 /\ m - 1 \in Nat /\ m - 1 < m /\ (m - 1) + 1 = m
  BY <1>3
<1>5. m - 1 \in S
  <2>1. <<m - 1, m>> \in OpToRel(<, Nat)
    BY <1>3, <1>4, Zenon DEF OpToRel
  <2>2. m - 1 \notin Missing
    BY <1>2, <2>1, Zenon
  <2>3. QED
    BY <1>4, <2>2
<1>6. QED
  BY <1>3, <1>4, <1>5

\* The same with all the numbers below for the one before.
LEMMA InductBelow ==
  ASSUME NEW S, \A n \in Nat : (\A m \in 0..(n - 1) : m \in S) => n \in S
  PROVE  \A n \in Nat : n \in S
<1> DEFINE Upto == {n \in Nat : \A m \in 0..(n - 1) : m \in S}
<1>1. 0 \in Upto
  OBVIOUS
<1>2. ASSUME NEW n \in Nat, n \in Upto PROVE n + 1 \in Upto
  <2>1. n \in S
    BY <1>2
  <2>2. \A m \in 0..((n + 1) - 1) : m = n \/ m \in 0..(n - 1)
    OBVIOUS
  <2>3. QED
    BY <1>2, <2>1, <2>2
<1>3. \A n \in Nat : n \in Upto
  <2> HIDE DEF Upto
  <2>1. QED
    BY <1>1, <1>2, Induct
<1>4. QED
  BY <1>3

\* A step that looks only at the values below defines a function.
Looks(step, S) ==
    \A f, g \in [Nat -> S], n \in Nat :
        (\A m \in 0..(n - 1) : f[m] = g[m]) => step[n][f] = step[n][g]

Steps(step, S) == step \in [Nat -> [[Nat -> S] -> S]]

Solved(step, S) == \E f \in [Nat -> S] : \A n \in Nat : f[n] = step[n][f]

Upto(f, step, n) == \A m \in 0..n : f[m] = step[m][f]

\* Two functions that such a step defines are alike where both are defined.
LEMMA UptoAgree ==
  ASSUME NEW S, NEW step, Looks(step, S), NEW f \in [Nat -> S], NEW g \in [Nat -> S],
         NEW n \in Nat, Upto(f, step, n), NEW k \in Nat, Upto(g, step, k), n <= k
  PROVE  \A m \in 0..n : f[m] = g[m]
<1> DEFINE Same == {m \in Nat : m <= n => f[m] = g[m]}
<1>1. ASSUME NEW m \in Nat, \A i \in 0..(m - 1) : i \in Same PROVE m \in Same
  <2> SUFFICES ASSUME m <= n PROVE f[m] = g[m]
    OBVIOUS
  <2>1. \A i \in 0..(m - 1) : f[i] = g[i]
    BY <1>1
  <2>2. step[m][f] = step[m][g]
    BY <2>1 DEF Looks
  <2>3. m \in 0..n /\ m \in 0..k
    OBVIOUS
  <2>4. f[m] = step[m][f] /\ g[m] = step[m][g]
    BY <2>3 DEF Upto
  <2>5. QED
    BY <2>2, <2>4
<1> HIDE DEF Same
<1>2. \A m \in Nat : m \in Same
  BY <1>1, InductBelow
<1>3. QED
  BY <1>2 DEF Same

\* A step that looks only at values below has a function it defines on all numbers.
LEMMA Recursion ==
  ASSUME NEW S, S # {}, NEW step, Steps(step, S), Looks(step, S)
  PROVE  Solved(step, S)
<1>0. step \in [Nat -> [[Nat -> S] -> S]]
  BY DEF Steps
<1> DEFINE Reached == {n \in Nat : \E f \in [Nat -> S] : Upto(f, step, n)}
<1>1. ASSUME NEW f \in [Nat -> S], NEW n \in Nat, \A m \in 0..(n - 1) : f[m] = step[m][f]
      PROVE  \E g \in [Nat -> S] : Upto(g, step, n)
  <2> DEFINE v == step[n][f]
             g == [m \in Nat |-> IF m = n THEN v ELSE f[m]]
  <2>1. v \in S
    BY <1>0
  <2> HIDE DEF v
  <2>2. g \in [Nat -> S]
    BY <2>1
  <2>3. g[n] = v /\ \A m \in 0..(n - 1) : g[m] = f[m]
    OBVIOUS
  <2> HIDE DEF g
  <2>4. ASSUME NEW m \in 0..n PROVE g[m] = step[m][g]
    <3>1. m \in Nat /\ \A i \in 0..(m - 1) : f[i] = g[i]
      BY <2>3
    <3>2. step[m][f] = step[m][g]
      BY <2>2, <3>1, Zenon DEF Looks
    <3>3. m = n \/ m \in 0..(n - 1)
      OBVIOUS
    <3>4. QED
      BY <1>1, <2>3, <3>2, <3>3 DEF v
  <2>5. QED
    BY <2>2, <2>4 DEF Upto
<1>2. 0 \in Reached
  <2>1. PICK s : s \in S
    OBVIOUS
  <2> DEFINE c == [m \in Nat |-> s]
  <2>2. c \in [Nat -> S]
    BY <2>1
  <2> HIDE DEF c
  <2>3. \A m \in 0..(0 - 1) : c[m] = step[m][c]
    OBVIOUS
  <2>4. \E g \in [Nat -> S] : Upto(g, step, 0)
    BY <1>1, <2>2, <2>3
  <2>5. QED
    BY <2>4
<1>3. ASSUME NEW n \in Nat, n \in Reached PROVE n + 1 \in Reached
  <2>1. PICK f \in [Nat -> S] : Upto(f, step, n)
    BY <1>3
  <2>2. \A m \in 0..((n + 1) - 1) : f[m] = step[m][f]
    BY <2>1 DEF Upto
  <2>3. QED
    BY <1>1, <2>2
<1> HIDE DEF Reached
<1>4. \A n \in Nat : n \in Reached
  BY <1>2, <1>3, Induct
<1> DEFINE Part(n) == CHOOSE f \in [Nat -> S] : Upto(f, step, n)
           h == [n \in Nat |-> Part(n)[n]]
<1>5. \A n \in Nat : Part(n) \in [Nat -> S] /\ Upto(Part(n), step, n)
  BY <1>4 DEF Reached
<1> HIDE DEF Part
<1>6. h \in [Nat -> S]
  BY <1>5
<1>7. ASSUME NEW n \in Nat PROVE h[n] = step[n][h]
  <2>1. ASSUME NEW m \in 0..(n - 1) PROVE h[m] = Part(n)[m]
    <3>1. m \in Nat /\ m <= n /\ m \in 0..m
      OBVIOUS
    <3>2. Part(m)[m] = Part(n)[m]
      BY <1>5, <3>1, UptoAgree
    <3>3. QED
      BY <3>1, <3>2
  <2>2. step[n][h] = step[n][Part(n)]
    BY <1>5, <1>6, <2>1, Zenon DEF Looks
  <2>3. n \in 0..n /\ Upto(Part(n), step, n)
    BY <1>5
  <2>4. Part(n)[n] = step[n][Part(n)]
    BY <2>3, Zenon DEF Upto
  <2>5. QED
    BY <2>2, <2>4
<1>8. QED
  BY <1>6, <1>7 DEF Solved

-----------------------------------------------------------------------------
(* Numbers                                                                  *)

\* A quotient is below the number, and a remainder below the base.
LEMMA DivFacts ==
  ASSUME NEW base \in Nat, base \in {128, 256}, NEW n \in Nat
  PROVE  /\ n \div base \in Nat /\ n % base \in 0..(base - 1)
         /\ n = (n \div base) * base + (n % base)
         /\ n >= base => n \div base < n /\ n \div base # 0
<1>1. CASE base = 128
  <2>1. n \div 128 \in Nat /\ n % 128 \in 0..127 /\ n = (n \div 128) * 128 + (n % 128)
    OBVIOUS
  <2>2. n >= 128 => n \div 128 < n /\ n \div 128 # 0
    BY <2>1
  <2>3. QED
    BY <1>1, <2>1, <2>2
<1>2. CASE base = 256
  <2>1. n \div 256 \in Nat /\ n % 256 \in 0..255 /\ n = (n \div 256) * 256 + (n % 256)
    OBVIOUS
  <2>2. n >= 256 => n \div 256 < n /\ n \div 256 # 0
    BY <2>1
  <2>3. QED
    BY <1>2, <2>1, <2>2
<1>3. QED
  BY <1>1, <1>2

\* The digits of a number are those of its quotient and the remainder.
LEMMA DigitsIs ==
  ASSUME NEW base \in Nat, base \in {128, 256}, NEW n \in Nat
  PROVE  /\ Digits(n, base) \in Seq(Nat)
         /\ Digits(n, base) = IF n < base THEN <<n>>
                              ELSE Append(Digits(n \div base, base), n % base)
<1> DEFINE S == Seq(Nat)
           Step(f, m) == IF m < base THEN <<m>> ELSE Append(f[m \div base], m % base)
           step == [m \in Nat |-> [f \in [Nat -> S] |-> Step(f, m)]]
           Is(f) == f = [m \in Nat |-> Step(f, m)]
<1>1. base \in Nat
  OBVIOUS
<1>2. ASSUME NEW f \in [Nat -> S], NEW m \in Nat PROVE Step(f, m) \in S
  <2>1. m \div base \in Nat /\ m % base \in Nat
    BY DivFacts
  <2>2. f[m \div base] \in Seq(Nat)
    BY <2>1
  <2>3. Append(f[m \div base], m % base) \in Seq(Nat)
    BY <2>1, <2>2, AppendProperties
  <2>4. QED
    BY <2>3
<1>3. ASSUME NEW f \in [Nat -> S], NEW g \in [Nat -> S], NEW m \in Nat,
             \A i \in 0..(m - 1) : f[i] = g[i]
      PROVE  Step(f, m) = Step(g, m)
  <2>1. CASE m < base
    BY <2>1
  <2>2. CASE ~(m < base)
    <3>1. m \div base \in 0..(m - 1)
      BY <1>1, <2>2, DivFacts
    <3>2. QED
      BY <1>3, <3>1
  <2>3. QED
    BY <2>1, <2>2
<1> HIDE DEF Step
<1>4. Steps(step, S)
  BY <1>2 DEF Steps
<1>5. \A f \in [Nat -> S], m \in Nat : step[m][f] = Step(f, m)
  OBVIOUS
<1>7. << >> \in S
  BY EmptySeq
<1> HIDE DEF step, S
<1>6. Looks(step, S)
  <2> SUFFICES ASSUME NEW f \in [Nat -> S], NEW g \in [Nat -> S], NEW m \in Nat,
                      \A i \in 0..(m - 1) : f[i] = g[i]
               PROVE  step[m][f] = step[m][g]
    BY DEF Looks
  <2>1. Step(f, m) = Step(g, m)
    BY <1>3
  <2>2. step[m][f] = Step(f, m) /\ step[m][g] = Step(g, m)
    BY <1>5
  <2>3. QED
    BY <2>1, <2>2
<1>7a. \E f \in [Nat -> S] : \A m \in Nat : f[m] = step[m][f]
  <2>1. S # {}
    BY <1>7
  <2>2. Solved(step, S)
    BY <1>4, <1>6, <2>1, Recursion, Zenon
  <2>3. QED
    BY <2>2 DEF Solved
<1>8. \E f : Is(f)
  <2>3. PICK f \in [Nat -> S] : \A m \in Nat : f[m] = step[m][f]
    BY <1>7a
  <2>4. \A m \in Nat : f[m] = Step(f, m)
    BY <1>5, <2>3
  <2>5. f = [m \in Nat |-> f[m]]
    BY <2>3
  <2>6. Is(f)
    BY <2>4, <2>5
  <2>7. QED
    BY <2>6
<1> DEFINE d == CHOOSE g : Is(g)
<1>9. Is(d)
  <2> HIDE DEF Is
  <2>1. QED
    BY <1>8
<1>10. \A m \in Nat : Digits(m, base) = d[m]
  BY DEF Digits, Step
<1> HIDE DEF d
<1>11. \A m \in Nat : d[m] = Step(d, m)
  BY <1>9
<1>12. \A m \in Nat : d[m] \in S
  <2> DEFINE Typed == {m \in Nat : d[m] \in S}
  <2>1. ASSUME NEW m \in Nat, \A i \in 0..(m - 1) : i \in Typed PROVE m \in Typed
    <3>1. CASE m < base
      <4>1. <<m>> \in Seq(Nat)
        OBVIOUS
      <4>2. d[m] = <<m>>
        <5>1. d[m] = Step(d, m)
          BY <1>11
        <5>2. QED
          BY <3>1, <5>1 DEF Step
      <4>3. QED
        BY <4>1, <4>2 DEF S
    <3>2. CASE ~(m < base)
      <4>1. m \div base \in 0..(m - 1) /\ m % base \in Nat
        BY <1>1, <3>2, DivFacts
      <4>2. d[m \div base] \in Seq(Nat)
        BY <2>1, <4>1 DEF S
      <4>3. Append(d[m \div base], m % base) \in Seq(Nat)
        BY <4>1, <4>2, AppendProperties
      <4>4. d[m] = Append(d[m \div base], m % base)
        <5>1. d[m] = Step(d, m)
          BY <1>11
        <5>2. QED
          BY <3>2, <5>1 DEF Step
      <4>5. QED
        BY <4>3, <4>4 DEF S
    <3>3. QED
      BY <3>1, <3>2
  <2> HIDE DEF Typed
  <2>2. \A m \in Nat : m \in Typed
    BY <2>1, InductBelow
  <2>3. QED
    BY <2>2 DEF Typed
<1>13. n \div base \in Nat
  BY DivFacts
<1>14. d[n] = IF n < base THEN <<n>> ELSE Append(d[n \div base], n % base)
  BY <1>11 DEF Step
<1>15. QED
  BY <1>10, <1>12, <1>13, <1>14, ZenonT(60) DEF S

\* The digits are digits, and there is one at least.
LEMMA DigitsType ==
  ASSUME NEW base \in Nat, base \in {128, 256}, NEW n \in Nat
  PROVE  /\ Digits(n, base) \in Seq(0..(base - 1))
         /\ Len(Digits(n, base)) \in Nat \ {0}
<1> DEFINE Typed == {m \in Nat : /\ Digits(m, base) \in Seq(0..(base - 1))
                                 /\ Len(Digits(m, base)) \in Nat \ {0}}
<1>1. ASSUME NEW m \in Nat, \A i \in 0..(m - 1) : i \in Typed PROVE m \in Typed
  <2>1. CASE m < base
    <3>1. Digits(m, base) = <<m>>
      BY <2>1, DigitsIs
    <3>2. m \in 0..(base - 1)
      BY <2>1
    <3>3. <<m>> \in Seq(0..(base - 1)) /\ Len(<<m>>) = 1
      BY <3>2
    <3>4. /\ Digits(m, base) \in Seq(0..(base - 1))
          /\ Len(Digits(m, base)) \in Nat \ {0}
      BY <3>1, <3>3
    <3>5. QED
      BY <3>4
  <2>2. CASE ~(m < base)
    <3>1. m \div base \in 0..(m - 1) /\ m % base \in 0..(base - 1)
      BY <2>2, DivFacts
    <3>2. /\ Digits(m \div base, base) \in Seq(0..(base - 1))
          /\ Len(Digits(m \div base, base)) \in Nat
      BY <1>1, <3>1
    <3>3. Digits(m, base) = Append(Digits(m \div base, base), m % base)
      BY <2>2, DigitsIs
    <3>4. /\ Digits(m, base) \in Seq(0..(base - 1))
          /\ Len(Digits(m, base)) = Len(Digits(m \div base, base)) + 1
      BY <3>1, <3>2, <3>3, AppendProperties
    <3>5. Len(Digits(m, base)) \in Nat \ {0}
      BY <3>2, <3>4
    <3>6. QED
      BY <3>4, <3>5
  <2>3. QED
    BY <2>1, <2>2
<1> HIDE DEF Typed
<1>2. \A m \in Nat : m \in Typed
  BY <1>1, InductBelow
<1>3. QED
  BY <1>2 DEF Typed

-----------------------------------------------------------------------------
(* What fits into a datagram is made of octets                              *)

Fit == {s \in Seq(Nat) : Len(s) <= Datagram => s \in Seq(Byte)}

\* Octets are the digits of base 256.
LEMMA ByteNat == Byte \subseteq Nat /\ 0..(256 - 1) = Byte
  BY DEF Byte

\* The digits of a number in base 256 are octets.
LEMMA OctetDigits ==
  ASSUME NEW n \in Nat
  PROVE  /\ Digits(n, 256) \in Seq(Byte) /\ Digits(n, 256) \in Seq(Nat)
         /\ Len(Digits(n, 256)) \in Nat \ {0}
<1>1. Digits(n, 256) \in Seq(0..(256 - 1)) /\ Len(Digits(n, 256)) \in Nat \ {0}
  <2>1. 256 \in Nat /\ 256 \in {128, 256}
    OBVIOUS
  <2>2. QED
    BY <2>1, DigitsType, Zenon
<1>2. QED
  BY <1>1, ByteNat, SeqMonotonic, ZenonT(60)

\* Octets fit into a payload.
LEMMA BytesFit == ASSUME NEW s \in Seq(Byte) PROVE s \in Fit
<1>1. s \in Seq(Nat)
  BY ByteNat, SeqMonotonic
<1>2. QED
  BY <1>1 DEF Fit

\* One octet fits.
LEMMA OneFits == ASSUME NEW n \in Byte PROVE <<n>> \in Fit
<1>1. <<n>> \in Seq(Byte)
  OBVIOUS
<1>2. QED
  BY <1>1, BytesFit

\* No octets fit.
LEMMA NothingFits == << >> \in Fit
<1>1. << >> \in Seq(Byte)
  OBVIOUS
<1>2. QED
  BY <1>1, BytesFit

\* What fits may be put together.
LEMMA BothFit == ASSUME NEW a \in Fit, NEW b \in Fit PROVE a \o b \in Fit
<1>1. a \in Seq(Nat) /\ b \in Seq(Nat)
  BY DEF Fit
<1>2. /\ a \o b \in Seq(Nat) /\ Len(a \o b) = Len(a) + Len(b)
      /\ Len(a) \in Nat /\ Len(b) \in Nat
  BY <1>1, ConcatProperties, LenProperties
<1>3. ASSUME Len(a \o b) <= Datagram PROVE a \o b \in Seq(Byte)
  <2>1. Len(a) <= Datagram /\ Len(b) <= Datagram
    BY <1>2, <1>3 DEF Datagram
  <2>2. a \in Seq(Byte) /\ b \in Seq(Byte)
    BY <2>1 DEF Fit
  <2>3. QED
    BY <2>2, ConcatProperties
<1>4. QED
  BY <1>2, <1>3 DEF Fit

\* A length is written as octets.
LEMMA LengthType ==
  ASSUME NEW n \in Nat
  PROVE  /\ Length(n) \in Seq(Nat) /\ Len(Length(n)) \in Nat
         /\ n <= Datagram => Length(n) \in Seq(Byte)
<1>1. CASE n < 128
  <2>1. Length(n) = <<n>> /\ n \in Byte
    BY <1>1 DEF Length, Byte
  <2>2. QED
    BY <2>1
<1>2. CASE ~(n < 128)
  <2> DEFINE d == Digits(n, 256)
             e == Digits(n \div 256, 256)
  <2>1. d \in Seq(Byte) /\ d \in Seq(Nat) /\ Len(d) \in Nat
    BY OctetDigits
  <2>2. Length(n) = <<128 + Len(d)>> \o d
    BY <1>2 DEF Length
  <2>3. Length(n) \in Seq(Nat) /\ Len(Length(n)) \in Nat
    <3> HIDE DEF d
    <3>1. d \in Seq(Nat) /\ <<128 + Len(d)>> \in Seq(Nat)
      BY <2>1
    <3>2. QED
      BY <2>2, <3>1, ConcatProperties, LenProperties
  <2>4. ASSUME n <= Datagram PROVE Len(d) <= 2
    <3>1. n \div 256 \in Nat /\ n \div 256 < 256
      <4>1. n \div 256 \in Nat /\ n % 256 \in 0..(256 - 1) /\ n = (n \div 256) * 256 + (n % 256)
        BY DivFacts
      <4>2. QED
        BY <2>4, <4>1 DEF Datagram
    <3>2. e = <<n \div 256>> /\ Len(e) = 1 /\ e \in Seq(Nat)
      BY <3>1, DigitsIs
    <3>3. n % 256 \in Nat
      BY DivFacts
    <3>4. d = IF n < 256 THEN <<n>> ELSE Append(e, n % 256)
      BY DigitsIs, SMTT(40)
    <3> HIDE DEF d, e
    <3>5. Len(<<n>>) = 1 /\ Len(Append(e, n % 256)) = 2
      BY <3>2, <3>3, AppendProperties
    <3>6. QED
      BY <3>4, <3>5
  <2>5. ASSUME n <= Datagram PROVE Length(n) \in Seq(Byte)
    <3> HIDE DEF d
    <3>1. 128 + Len(d) \in Byte
      <4>1. Len(d) <= 2 /\ Len(d) \in Nat
        BY <2>1, <2>4, <2>5
      <4>2. \A k \in Nat : k <= 2 => 128 + k \in Byte
        BY DEF Byte
      <4>3. QED
        BY <4>1, <4>2, Zenon
    <3>2. <<128 + Len(d)>> \in Seq(Byte)
      BY <3>1
    <3>3. QED
      BY <2>1, <2>2, <3>2, ConcatProperties
  <2>6. QED
    BY <2>3, <2>5
<1>3. QED
  BY <1>1, <1>2

\* An element of a payload that fits.
LEMMA TlvFits == ASSUME NEW tag \in Byte, NEW p \in Fit PROVE Tlv(tag, p) \in Fit
<1> DEFINE l == Length(Len(p))
<1>1. p \in Seq(Nat) /\ Len(p) \in Nat /\ l \in Seq(Nat) /\ Len(l) \in Nat
  BY LengthType, LenProperties DEF Fit
<1>2. <<tag>> \in Seq(Nat) /\ Len(<<tag>>) = 1 /\ <<tag>> \in Seq(Byte)
  BY ByteNat
<1>3. Len(p) <= Datagram => l \in Seq(Byte)
  BY <1>1, LengthType
<1> HIDE DEF l
<1>4. <<tag>> \o l \in Seq(Nat) /\ Len(<<tag>> \o l) = 1 + Len(l)
  BY <1>1, <1>2, ConcatProperties
<1>5. Tlv(tag, p) \in Seq(Nat) /\ Len(Tlv(tag, p)) = 1 + Len(l) + Len(p)
  BY <1>1, <1>4, ConcatProperties DEF Tlv, l
<1>6. ASSUME Len(Tlv(tag, p)) <= Datagram PROVE Tlv(tag, p) \in Seq(Byte)
  <2>1. Len(p) <= Datagram
    BY <1>1, <1>5, <1>6 DEF Datagram
  <2>2. l \in Seq(Byte) /\ p \in Seq(Byte)
    BY <1>3, <2>1 DEF Fit
  <2>3. <<tag>> \o l \in Seq(Byte)
    BY <1>2, <2>2, ConcatProperties
  <2>4. QED
    BY <2>2, <2>3, ConcatProperties DEF Tlv, l
<1>7. QED
  BY <1>5, <1>6 DEF Fit

-----------------------------------------------------------------------------
(* Sequences of sequences                                                   *)

\* What concatenation keeps, the concatenation of any number of them keeps.
LEMMA FlattenType ==
  ASSUME NEW T, << >> \in T, \A a, b \in T : a \o b \in T,
         NEW A, T \subseteq Seq(A), NEW seqs \in Seq(T)
  PROVE  FlattenSeq(seqs) \in T
<1> DEFINE N == Len(seqs)
           Step(f, m) == IF m \notin 1..N THEN << >>
                         ELSE IF m = 1 THEN seqs[m] ELSE f[m - 1] \o seqs[m]
           step == [m \in Nat |-> [f \in [Nat -> T] |-> Step(f, m)]]
           Next1(g, i) == IF i = 1 THEN seqs[i] ELSE g[i - 1] \o seqs[i]
           Is(g) == g = [i \in 1..N |-> Next1(g, i)]
<1>1. N \in Nat /\ \A i \in 1..N : seqs[i] \in T
  BY LenProperties, ElementOfSeq
<1> HIDE DEF N
<1>2. ASSUME NEW f \in [Nat -> T], NEW m \in Nat PROVE Step(f, m) \in T
  <2>1. CASE m \notin 1..N
    BY <2>1
  <2>2. CASE m \in 1..N
    <3>1. seqs[m] \in T
      BY <1>1, <2>2
    <3>2. m # 1 => f[m - 1] \in T
      BY <2>2
    <3>3. QED
      BY <2>2, <3>1, <3>2
  <2>3. QED
    BY <2>1, <2>2
<1>3. ASSUME NEW f \in [Nat -> T], NEW g \in [Nat -> T], NEW m \in Nat,
             \A i \in 0..(m - 1) : f[i] = g[i]
      PROVE  Step(f, m) = Step(g, m)
  <2>1. m \in 1..N => m - 1 \in 0..(m - 1)
    OBVIOUS
  <2>2. m \in 1..N => f[m - 1] = g[m - 1]
    BY <1>3, <2>1
  <2>3. QED
    BY <2>2
<1> HIDE DEF Step
<1>4. Steps(step, T)
  BY <1>2 DEF Steps
<1>5. \A f \in [Nat -> T], m \in Nat : step[m][f] = Step(f, m)
  OBVIOUS
<1> HIDE DEF step
<1>6. Looks(step, T)
  <2> SUFFICES ASSUME NEW f \in [Nat -> T], NEW g \in [Nat -> T], NEW m \in Nat,
                      \A i \in 0..(m - 1) : f[i] = g[i]
               PROVE  step[m][f] = step[m][g]
    BY DEF Looks
  <2>1. Step(f, m) = Step(g, m)
    BY <1>3
  <2>2. step[m][f] = Step(f, m) /\ step[m][g] = Step(g, m)
    BY <1>5
  <2>3. QED
    BY <2>1, <2>2
<1>7. \E g : Is(g)
  <2>1. T # {}
    OBVIOUS
  <2>2. Solved(step, T)
    BY <1>4, <1>6, <2>1, Recursion, Zenon
  <2>3. PICK f \in [Nat -> T] : \A m \in Nat : f[m] = step[m][f]
    BY <2>2 DEF Solved
  <2>4. \A m \in Nat : f[m] = Step(f, m)
    BY <1>5, <2>3
  <2> DEFINE g == [i \in 1..N |-> f[i]]
  <2>5. ASSUME NEW i \in 1..N PROVE g[i] = Next1(g, i)
    <3>1. i \in Nat /\ g[i] = f[i] /\ f[i] = Step(f, i)
      BY <1>1, <2>4
    <3>2. i # 1 => i - 1 \in 1..N /\ g[i - 1] = f[i - 1]
      BY <1>1
    <3> HIDE DEF g
    <3>3. QED
      BY <3>1, <3>2 DEF Step
  <2>6. g = [i \in 1..N |-> g[i]]
    OBVIOUS
  <2> HIDE DEF g, Next1
  <2>7. Is(g)
    BY <2>5, <2>6
  <2>8. QED
    BY <2>7
<1> DEFINE d == CHOOSE g : Is(g)
<1>8. Is(d)
  <2> HIDE DEF Is
  <2>1. QED
    BY <1>7
<1>9. N # 0 => FlattenSeq(seqs) = d[N]
  BY DEF FlattenSeq, N
<1> HIDE DEF d
<1>10. \A i \in 1..N : d[i] = Next1(d, i)
  BY <1>8
<1>11. \A i \in Nat : i \in 1..N => d[i] \in T
  <2> DEFINE Typed == {i \in Nat : i \in 1..N => d[i] \in T}
  <2>1. ASSUME NEW n \in Nat, n \in Typed PROVE n + 1 \in Typed
    <3> SUFFICES ASSUME n + 1 \in 1..N PROVE d[n + 1] \in T
      OBVIOUS
    <3>1. seqs[n + 1] \in T /\ d[n + 1] = Next1(d, n + 1)
      BY <1>1, <1>10
    <3>2. n # 0 => n \in 1..N /\ d[n] \in T
      BY <1>1, <2>1
    <3>3. (n + 1) - 1 = n /\ (n + 1 = 1 <=> n = 0)
      OBVIOUS
    <3>4. QED
      BY <3>1, <3>2, <3>3
  <2>2. 0 \in Typed
    OBVIOUS
  <2> HIDE DEF Typed
  <2>3. \A n \in Nat : n \in Typed
    BY <2>1, <2>2, Induct
  <2>4. QED
    BY <2>3 DEF Typed
<1>12. CASE N = 0
  <2>1. seqs = << >>
    BY <1>12, EmptySeq DEF N
  <2>2. QED
    BY <1>12, <2>1 DEF FlattenSeq, N
<1>13. CASE N # 0
  <2>1. N \in 1..N
    BY <1>1, <1>13
  <2>2. QED
    BY <1>1, <1>9, <1>11, <1>13, <2>1
<1>14. QED
  BY <1>12, <1>13

\* Any number of parts that fit may be put together.
LEMMA FlattenFits == ASSUME NEW seqs \in Seq(Fit) PROVE FlattenSeq(seqs) \in Fit
<1>1. Fit \subseteq Seq(Nat)
  BY DEF Fit
<1>2. QED
  BY <1>1, NothingFits, BothFit, FlattenType

-----------------------------------------------------------------------------
(* The parts of packets                                                     *)

\* The same of any two parts.
LEMMA FitClosed == \A a, b \in Fit : a \o b \in Fit
  BY BothFit

\* A number is written as octets, at least one.
LEMMA OctetsType == ASSUME NEW n \in Nat PROVE Octets(n) \in Seq(Byte) /\ Octets(n) # << >>
<1> DEFINE d == Digits(n, 256)
<1>1. d \in Seq(Byte) /\ Len(d) \in Nat \ {0}
  BY OctetDigits
<1>2. <<0>> \in Seq(Byte)
  BY DEF Byte
<1>3. Octets(n) = IF d[1] >= 128 THEN <<0>> \o d ELSE d
  BY DEF Octets
<1> HIDE DEF d
<1>4. <<0>> \o d \in Seq(Byte) /\ Len(<<0>> \o d) = 1 + Len(d)
  BY <1>1, <1>2, ConcatProperties
<1>5. Octets(n) \in Seq(Byte) /\ Len(Octets(n)) # 0
  BY <1>1, <1>3, <1>4
<1>6. QED
  BY <1>5, EmptySeq

\* A number fits.
LEMMA OctetsFit == ASSUME NEW n \in Nat PROVE Octets(n) \in Fit
  BY OctetsType, BytesFit

\* An arc is written as octets.
LEMMA Base128Type == ASSUME NEW arc \in Nat PROVE Base128(arc) \in Seq(Byte)
<1> DEFINE d == Digits(arc, 128)
           e(i) == IF i < Len(d) THEN d[i] + 128 ELSE d[i]
<1>1. d \in Seq(0..(128 - 1)) /\ Len(d) \in Nat \ {0}
  BY DigitsType, ZenonT(60)
<1>2. DOMAIN d = 1..Len(d)
  BY <1>1, LenProperties
<1>3. Base128(arc) = [i \in 1..Len(d) |-> e(i)]
  BY <1>2 DEF Base128
<1> HIDE DEF d
<1>4. ASSUME NEW i \in 1..Len(d) PROVE e(i) \in Byte
  <2>1. d[i] \in 0..127
    BY <1>1, ElementOfSeq
  <2>2. \A k \in 0..127 : k \in Byte /\ k + 128 \in Byte
    BY DEF Byte
  <2>3. d[i] \in Byte /\ d[i] + 128 \in Byte
    BY <2>1, <2>2, Zenon
  <2>4. QED
    BY <2>3
<1> HIDE DEF e
<1>5. [i \in 1..Len(d) |-> e(i)] \in Seq(Byte)
  BY <1>1, <1>4, SMT
<1>6. QED
  BY <1>3, <1>5

\* Arcs fit.
LEMMA Arcs128Fit == ASSUME NEW arcs \in Seq(Nat) PROVE Arcs128(arcs) \in Fit
<1> DEFINE parts == [i \in DOMAIN arcs |-> Base128(arcs[i])]
<1>1. Len(arcs) \in Nat /\ DOMAIN arcs = 1..Len(arcs)
  BY LenProperties
<1>2. ASSUME NEW i \in 1..Len(arcs) PROVE Base128(arcs[i]) \in Fit
  <2>1. arcs[i] \in Nat
    BY ElementOfSeq
  <2>2. QED
    BY <2>1, Base128Type, BytesFit
<1>3. parts \in Seq(Fit)
  BY <1>1, <1>2
<1> HIDE DEF parts
<1>4. FlattenSeq(parts) \in Fit
  BY <1>3, FlattenFits
<1>5. QED
  BY <1>4 DEF Arcs128, parts

\* The arcs beyond the first two are arcs.
LEMMA BeyondType ==
  ASSUME NEW arcs \in Seq(Nat), Len(arcs) >= 2
  PROVE  Beyond(arcs) \in Seq(Nat) /\ Roots(arcs) \in Nat
<1>1. Len(arcs) \in Nat /\ \A i \in 1..Len(arcs) : arcs[i] \in Nat
  BY LenProperties, ElementOfSeq
<1>2. \A i \in 3..Len(arcs) : arcs[i] \in Nat
  BY <1>1
<1>3. SubSeq(arcs, 3, Len(arcs)) \in Seq(Nat)
  BY <1>1, <1>2, SubSeqProperties
<1>4. arcs[1] \in Nat /\ arcs[2] \in Nat
  BY <1>1
<1>5. QED
  BY <1>3, <1>4 DEF Beyond, Roots

\* The name of a trap fits.
LEMMA TrapNameFits == ASSUME NEW arcs \in Seq(Nat) PROVE TrapName(arcs) \in Fit
<1>1. CASE Len(arcs) >= 2
  <2>1. Beyond(arcs) \in Seq(Nat) /\ Roots(arcs) \in Nat
    BY <1>1, BeyondType
  <2>2. Base128(Roots(arcs)) \in Fit /\ Arcs128(Beyond(arcs)) \in Fit
    BY <2>1, Base128Type, BytesFit, Arcs128Fit
  <2>3. Base128(Roots(arcs)) \o Arcs128(Beyond(arcs)) \in Fit
    BY <2>2, BothFit
  <2>4. QED
    BY <2>3, NothingFits, Zenon DEF TrapName
<1>2. CASE ~(Len(arcs) >= 2)
  <2>1. Len(arcs) < 2
    BY <1>2, LenProperties
  <2>2. QED
    BY <2>1, NothingFits, Zenon DEF TrapName
<1>3. QED
  BY <1>1, <1>2

\* The name in a request fits.
LEMMA RequestNameFits ==
  ASSUME NEW arcs \in Seq(Nat), Askable(arcs)
  PROVE  RequestName(arcs) \in Fit
<1>1. Len(arcs) >= 2 /\ Roots(arcs) <= 255
  BY DEF Askable
<1>2. Beyond(arcs) \in Seq(Nat) /\ Roots(arcs) \in Nat
  BY <1>1, BeyondType
<1>3. Roots(arcs) \in Byte
  <2>1. \A k \in Nat : k <= 255 => k \in Byte
    BY DEF Byte
  <2>2. QED
    BY <1>1, <1>2, <2>1, Zenon
<1>4. <<Roots(arcs)>> \in Fit /\ Arcs128(Beyond(arcs)) \in Fit
  BY <1>2, <1>3, OneFits, Arcs128Fit
<1>5. QED
  BY <1>4, BothFit DEF RequestName

\* A varbind fits.
LEMMA BindFits ==
  ASSUME NEW arcs \in Seq(Nat), NEW tag \in Byte, NEW payload \in Fit
  PROVE  Bind(arcs, tag, payload) \in Fit
<1>1. 6 \in Byte /\ 48 \in Byte
  BY DEF Byte
<1>2. Tlv(6, TrapName(arcs)) \in Fit /\ Tlv(tag, payload) \in Fit
  BY <1>1, TrapNameFits, TlvFits
<1>3. Tlv(6, TrapName(arcs)) \o Tlv(tag, payload) \in Fit
  BY <1>2, BothFit
<1>4. QED
  BY <1>1, <1>3, TlvFits DEF Bind

\* A message fits.
LEMMA MessageFits ==
  ASSUME NEW version \in Byte, NEW community \in Seq(Byte), NEW tag \in Byte, NEW pdu \in Fit
  PROVE  Message(version, community, tag, pdu) \in Fit
<1>1. 2 \in Byte /\ 4 \in Byte /\ 48 \in Byte
  BY DEF Byte
<1>2. /\ Tlv(2, <<version>>) \in Fit /\ Tlv(4, community) \in Fit /\ Tlv(tag, pdu) \in Fit
  BY <1>1, OneFits, BytesFit, TlvFits
<1>3. (Tlv(2, <<version>>) \o Tlv(4, community)) \o Tlv(tag, pdu) \in Fit
  BY <1>2, BothFit
<1>4. QED
  BY <1>1, <1>3, TlvFits DEF Message

\* A part that may be absent fits.
LEMMA FitRest == ASSUME NEW p, NEW s, p => s \in Fit PROVE When(p, s) \in Fit
  BY NothingFits DEF When

-----------------------------------------------------------------------------
(* Texts                                                                    *)

Texts == {t \in Seq(Nat) : \A i \in 1..Len(t) : Character(t[i])}

\* A character is written in one to four octets.
LEMMA Utf8OfType ==
  ASSUME NEW c \in Nat, Character(c)
  PROVE  Utf8Of(c) \in Seq(Byte) /\ Len(Utf8Of(c)) \in 1..4
<1>1. /\ c < 1114112 /\ \A n \in Nat : Low(n) \in 0..255
      /\ c \div 64 \in Nat /\ c \div 4096 \in Nat
  <2>1. c < 1114112
    BY DEF Character
  <2>2. ASSUME NEW n \in Nat PROVE Low(n) \in 0..255
    <3>1. n % 64 \in 0..63
      OBVIOUS
    <3>2. QED
      BY <3>1 DEF Low
  <2>3. c \div 64 \in Nat /\ c \div 4096 \in Nat
    OBVIOUS
  <2>4. QED
    BY <2>1, <2>2, <2>3
<1>2. CASE c < 128
  <2>1. Utf8Of(c) = <<c>> /\ c \in 0..255
    BY <1>2 DEF Utf8Of
  <2>2. QED
    BY <2>1 DEF Byte
<1>3. CASE ~(c < 128) /\ c < 2048
  <2> DEFINE a == 192 + (c \div 64)
             b == Low(c)
  <2>1. Utf8Of(c) = <<a, b>>
    BY <1>3 DEF Utf8Of
  <2>2. a \in 0..255 /\ b \in 0..255
    BY <1>1, <1>3
  <2> HIDE DEF a, b
  <2>3. QED
    BY <2>1, <2>2 DEF Byte
<1>4. CASE ~(c < 2048) /\ c < 65536
  <2> DEFINE a == 224 + (c \div 4096)
             b == Low(c \div 64)
             d == Low(c)
  <2>1. Utf8Of(c) = <<a, b, d>>
    BY <1>4 DEF Utf8Of
  <2>2. a \in 0..255
    BY <1>4
  <2>3. b \in 0..255 /\ d \in 0..255
    BY <1>1
  <2> HIDE DEF a, b, d
  <2>4. QED
    BY <2>1, <2>2, <2>3 DEF Byte
<1>5. CASE ~(c < 65536)
  <2> DEFINE a == 240 + (c \div 262144)
             b == Low(c \div 4096)
             d == Low(c \div 64)
             e == Low(c)
  <2>1. Utf8Of(c) = <<a, b, d, e>>
    BY <1>5 DEF Utf8Of
  <2>2. a \in 0..255
    BY <1>1, <1>5
  <2>3. b \in 0..255 /\ d \in 0..255 /\ e \in 0..255
    BY <1>1
  <2> HIDE DEF a, b, d, e
  <2>4. QED
    BY <2>1, <2>2, <2>3 DEF Byte
<1>6. QED
  BY <1>2, <1>3, <1>4, <1>5

\* A text is written as octets.
LEMMA Utf8Type == ASSUME NEW t \in Texts PROVE Utf8(t) \in Seq(Byte)
<1> DEFINE T == Seq(Byte)
           seqs == [i \in DOMAIN t |-> Utf8Of(t[i])]
<1>1. Len(t) \in Nat /\ DOMAIN t = 1..Len(t)
  BY LenProperties DEF Texts
<1>2. \A i \in 1..Len(t) : Utf8Of(t[i]) \in T
  <2> TAKE i \in 1..Len(t)
  <2>1. t[i] \in Nat /\ Character(t[i])
    BY ElementOfSeq DEF Texts
  <2>2. QED
    BY <2>1, Utf8OfType
<1> HIDE DEF T
<1>3. seqs \in Seq(T)
  BY <1>1, <1>2
<1> HIDE DEF seqs
<1>4. << >> \in T /\ (\A a, b \in T : a \o b \in T) /\ T \subseteq Seq(Byte)
  BY EmptySeq, ConcatProperties DEF T
<1>5. FlattenSeq(seqs) \in T
  BY <1>3, <1>4, FlattenType
<1>6. QED
  BY <1>5 DEF Utf8, seqs, T

\* Communities and descriptions are texts, and so is the start of one.
LEMMA TextTypes ==
  ASSUME NEW t \in CommunityTexts \cup {<< >>}
  PROVE  /\ t \in Texts /\ Leading(t) \in Texts
         /\ Utf8(t) \in Seq(Byte) /\ CommunitySent(t) \in Seq(Byte)
<1>1. t \in Texts
  <2>1. CASE t = << >>
    BY <2>1 DEF Texts
  <2>2. CASE t \in CommunityTexts
    <3>1. t \in Seq(Nat) /\ \A i \in DOMAIN t : Character(t[i])
      BY <2>2, CodecAssumption, Zenon
    <3>2. DOMAIN t = 1..Len(t)
      BY <3>1, LenProperties
    <3>3. QED
      BY <3>1, <3>2 DEF Texts
  <2>3. QED
    BY <2>1, <2>2
<1> DEFINE n == IF Len(t) < CommunityMost THEN Len(t) ELSE CommunityMost
           s == SubSeq(t, 1, n)
<1>2. Len(t) \in Nat /\ n \in Nat /\ n <= Len(t)
  <2>1. Len(t) \in Nat
    BY <1>1, LenProperties DEF Texts
  <2>2. CommunityMost \in Nat
    BY CodecAssumption, Zenon
  <2>3. QED
    BY <2>1, <2>2
<1>3. t \in Seq(Nat) /\ \A i \in 1..Len(t) : t[i] \in Nat /\ Character(t[i])
  BY <1>1, ElementOfSeq DEF Texts
<1>4. Leading(t) = s
  BY DEF Leading
<1> HIDE DEF n
<1>5. s \in Seq(Nat) /\ Len(s) = n /\ \A i \in 1..n : s[i] = t[i]
  <2>1. \A i \in 1..n : t[i] \in Nat
    BY <1>2, <1>3
  <2>2. n = (IF 1 <= n THEN n - 1 + 1 ELSE 0)
    BY <1>2
  <2>3. QED
    BY <1>2, <2>1, <2>2, SubSeqProperties
<1> HIDE DEF s
<1>6. s \in Texts
  BY <1>2, <1>3, <1>5 DEF Texts
<1>7. QED
  BY <1>1, <1>4, <1>6, Utf8Type DEF CommunitySent

-----------------------------------------------------------------------------
(* Packets                                                                  *)

\* The types of what a trap is built of.
LEMMA TrapTypes ==
  ASSUME NEW t \in Traps
  PROVE  /\ t.community \in Texts /\ t.uptime \in Nat /\ t.code \in 1..6
         /\ t.port # << >> => t.port[1] \in Nat /\ t.port \in Seq(Nat)
         /\ t.oper # << >> => t.oper[1] \in Nat
         /\ t.description \in Texts /\ t.version \in {"2c", "v1"}
         /\ Utf8(t.community) \in Seq(Byte) /\ Utf8(t.description) \in Seq(Byte)
<1>1. /\ t.community \in CommunityTexts /\ t.uptime \in Numbers /\ t.code \in DOMAIN GenericTraps
      /\ t.port \in {<<n>> : n \in Numbers} \cup {<< >>} /\ t.oper \in {<<1>>, <<2>>, << >>}
      /\ t.description \in CommunityTexts \cup {<< >>} /\ t.version \in {"2c", "v1"}
  BY DEF Traps
<1>2. DOMAIN GenericTraps = 1..6
  BY DEF GenericTraps
<1>3. Numbers \subseteq Nat
  <2>1. Largest \in Nat
    BY SMT DEF Largest
  <2>2. QED
    BY <2>1, CodecAssumption, SMT
<1>4. ASSUME t.port # << >> PROVE t.port[1] \in Nat /\ t.port \in Seq(Nat)
  <2>1. PICK n \in Numbers : t.port = <<n>>
    BY <1>1, <1>4
  <2>2. n \in Nat
    BY <1>3
  <2>3. QED
    BY <2>1, <2>2
<1>5. t.oper # << >> => t.oper[1] \in Nat
  BY <1>1
<1>6. \A s \in CommunityTexts \cup {<< >>} : s \in Texts /\ Utf8(s) \in Seq(Byte)
  BY TextTypes
<1>7. t.uptime \in Nat
  BY <1>1, <1>3
<1>8. QED
  BY <1>1, <1>2, <1>4, <1>5, <1>6, <1>7

\* The names the module gives are names.
LEMMA NamesType ==
  /\ SysUptime \in Seq(Nat) /\ SnmpTrapOid \in Seq(Nat) /\ IfIndex \in Seq(Nat)
  /\ IfOper \in Seq(Nat) /\ IfDescr \in Seq(Nat) /\ TrapBase \in Seq(Nat)
  /\ Enterprise \in Seq(Nat) /\ Description \in Seq(Nat)
  BY SMT DEF SysUptime, SnmpTrapOid, IfIndex, IfOper, IfDescr, TrapBase, Enterprise, Description

\* The varbinds of the port fit.
LEMMA PortBindsFit == ASSUME NEW t \in Traps PROVE PortBinds(t) \in Fit
<1> DEFINE index == Bind(IfIndex \o t.port, 2, Octets(t.port[1]))
           oper == Bind(IfOper \o t.port, 2, Octets(t.oper[1]))
<1>1. 2 \in Byte
  BY DEF Byte
<1>2. ASSUME t.port # << >> PROVE index \in Fit
  <2>1. IfIndex \o t.port \in Seq(Nat)
    BY <1>2, TrapTypes, NamesType, ConcatProperties
  <2>2. Octets(t.port[1]) \in Fit
    BY <1>2, TrapTypes, OctetsFit
  <2>3. QED
    BY <1>1, <2>1, <2>2, BindFits
<1>3. ASSUME t.port # << >>, t.oper # << >> PROVE oper \in Fit
  <2>1. IfOper \o t.port \in Seq(Nat)
    BY <1>3, TrapTypes, NamesType, ConcatProperties
  <2>2. Octets(t.oper[1]) \in Fit
    BY <1>3, TrapTypes, OctetsFit
  <2>3. QED
    BY <1>1, <2>1, <2>2, BindFits
<1> HIDE DEF index, oper
<1>4. t.port # << >> => When(t.oper # << >>, oper) \in Fit
  BY <1>3, NothingFits DEF When
<1>5. t.port # << >> => index \o When(t.oper # << >>, oper) \in Fit
  BY <1>2, <1>4, BothFit
<1>6. When(t.port # << >>, index \o When(t.oper # << >>, oper)) \in Fit
  BY <1>5, NothingFits DEF When
<1>7. QED
  BY <1>6 DEF PortBinds, index, oper

\* What ends both kinds of trap.
LEMMA DescriptionFits ==
  ASSUME NEW t \in Traps
  PROVE  When(t.description # << >>, Bind(Description, 4, Utf8(t.description))) \in Fit
<1>1. 4 \in Byte /\ Utf8(t.description) \in Fit
  BY TrapTypes, BytesFit DEF Byte
<1>2. Bind(Description, 4, Utf8(t.description)) \in Fit
  BY <1>1, NamesType, BindFits
<1>3. QED
  BY <1>2, NothingFits DEF When

\* A v2c trap fits.
LEMMA TrapV2cFits == ASSUME NEW t \in Traps PROVE TrapV2c(t) \in Fit
<1> DEFINE zero == Tlv(2, <<0>>)
           up == Bind(SysUptime, 67, Octets(t.uptime))
           oid == Bind(SnmpTrapOid, 6, TrapName(Append(TrapBase, t.code)))
           port == PortBinds(t)
           descr == When(t.port # << >>, Bind(IfDescr \o t.port, 4, <<101, 116, 104>>))
           text == When(t.description # << >>, Bind(Description, 4, Utf8(t.description)))
           binds == up \o oid \o port \o descr \o text
<1>1. \A k \in {0, 1, 2, 4, 6, 48, 67, 101, 104, 116, 167} : k \in Byte
  BY DEF Byte
<1>2. zero \in Fit
  BY <1>1, OneFits, TlvFits
<1>3. up \in Fit
  BY <1>1, TrapTypes, NamesType, OctetsFit, BindFits
<1>4. oid \in Fit
  <2>1. Append(TrapBase, t.code) \in Seq(Nat)
    <3>1. t.code \in 1..6 /\ TrapBase \in Seq(Nat)
      BY TrapTypes, NamesType, Zenon
    <3>2. QED
      BY <3>1, AppendProperties
  <2>2. TrapName(Append(TrapBase, t.code)) \in Fit
    BY <2>1, TrapNameFits
  <2>3. QED
    BY <1>1, <2>2, NamesType, BindFits
<1>5. port \in Fit
  BY PortBindsFit
<1>6. descr \in Fit
  <2>1. ASSUME t.port # << >> PROVE Bind(IfDescr \o t.port, 4, <<101, 116, 104>>) \in Fit
    <3>1. IfDescr \o t.port \in Seq(Nat)
      BY <2>1, TrapTypes, NamesType, ConcatProperties
    <3>2. <<101, 116, 104>> \in Seq(Byte)
      BY <1>1
    <3>3. QED
      BY <1>1, <3>1, <3>2, BytesFit, BindFits, ZenonT(60)
  <2>2. QED
    BY <2>1, NothingFits DEF When
<1>7. text \in Fit
  BY DescriptionFits
<1>8. binds \in Fit
  <2> HIDE DEF up, oid, port, descr, text
  <2>1. up \o oid \in Fit
    BY <1>3, <1>4, BothFit
  <2>2. up \o oid \o port \in Fit
    BY <1>5, <2>1, BothFit
  <2>3. up \o oid \o port \o descr \in Fit
    BY <1>6, <2>2, BothFit
  <2>4. QED
    BY <1>7, <2>3, BothFit
<1> HIDE DEF binds
<1>9. Tlv(48, binds) \in Fit
  BY <1>1, <1>8, TlvFits
<1>10. ((zero \o zero) \o zero) \o Tlv(48, binds) \in Fit
  <2> HIDE DEF zero
  <2>1. zero \o zero \in Fit
    BY <1>2, BothFit
  <2>2. (zero \o zero) \o zero \in Fit
    BY <1>2, <2>1, BothFit
  <2>3. QED
    BY <1>9, <2>2, BothFit
<1> DEFINE pdu == ((zero \o zero) \o zero) \o Tlv(48, binds)
<1>11. TrapV2c(t) = Message(1, Utf8(t.community), 167, pdu)
  BY DEF TrapV2c, binds
<1>12. pdu \in Fit
  BY <1>10
<1> HIDE DEF pdu
<1>13. QED
  BY <1>1, <1>11, <1>12, TrapTypes, MessageFits

\* A v1 trap fits.
LEMMA TrapV1Fits == ASSUME NEW t \in Traps PROVE TrapV1(t) \in Fit
<1> DEFINE name == Tlv(6, TrapName(Enterprise))
           agent == Tlv(64, <<127, 0, 0, 1>>)
           generic == Tlv(2, <<t.code - 1>>)
           specific == Tlv(2, <<0>>)
           up == Tlv(67, Octets(t.uptime))
           port == PortBinds(t)
           text == When(t.description # << >>, Bind(Description, 4, Utf8(t.description)))
           binds == Tlv(48, port \o text)
<1>1. \A k \in {0, 1, 2, 6, 48, 64, 67, 127, 164} : k \in Byte
  BY DEF Byte
<1>2. name \in Fit
  BY <1>1, NamesType, TrapNameFits, TlvFits
<1>3. agent \in Fit
  <2>1. <<127, 0, 0, 1>> \in Seq(Byte)
    BY <1>1
  <2>2. QED
    BY <1>1, <2>1, BytesFit, TlvFits
<1>4. generic \in Fit
  <2>1. t.code - 1 \in Byte
    BY TrapTypes DEF Byte
  <2>2. QED
    BY <1>1, <2>1, OneFits, TlvFits
<1>5. specific \in Fit
  BY <1>1, OneFits, TlvFits
<1>6. up \in Fit
  BY <1>1, TrapTypes, OctetsFit, TlvFits
<1>7. binds \in Fit
  <2>1. port \in Fit /\ text \in Fit
    BY PortBindsFit, DescriptionFits
  <2> HIDE DEF port, text
  <2>2. port \o text \in Fit
    BY <2>1, BothFit
  <2>3. QED
    BY <1>1, <2>2, TlvFits
<1> DEFINE pdu == name \o agent \o generic \o specific \o up \o binds
<1>8. pdu \in Fit
  <2> HIDE DEF name, agent, generic, specific, up, binds
  <2>1. name \o agent \in Fit
    BY <1>2, <1>3, BothFit
  <2>2. name \o agent \o generic \in Fit
    BY <1>4, <2>1, BothFit
  <2>3. name \o agent \o generic \o specific \in Fit
    BY <1>5, <2>2, BothFit
  <2>4. name \o agent \o generic \o specific \o up \in Fit
    BY <1>6, <2>3, BothFit
  <2>5. QED
    BY <1>7, <2>4, BothFit
<1>9. TrapV1(t) = Message(0, Utf8(t.community), 164, pdu)
  BY DEF TrapV1
<1> HIDE DEF pdu
<1>10. QED
  BY <1>1, <1>8, <1>9, TrapTypes, MessageFits

\* The types of what a request is built of.
LEMMA RequestTypes ==
  ASSUME NEW r \in Requests
  PROVE  /\ r.tag \in {160, 161, 165} /\ r.names \in Seq(Seq(Nat))
         /\ r.id \in Nat /\ r.repetitions \in Nat /\ r.community \in Texts
         /\ Leading(r.community) \in Texts /\ CommunitySent(r.community) \in Seq(Byte)
<1>1. /\ r.tag \in {160, 161, 165} /\ r.names \in NameLists /\ r.id \in Numbers
      /\ r.repetitions \in Numbers /\ r.community \in CommunityTexts
  BY DEF Requests
<1>2. \A n \in Numbers : n \in Nat
  <2>1. \A n \in 0..Largest : n \in Nat
    OBVIOUS
  <2>2. Numbers \subseteq 0..Largest
    BY CodecAssumption
  <2>3. QED
    BY <2>1, <2>2
<1>3. \A l \in NameLists : l \in Seq(Seq(Nat))
  BY CodecAssumption, Zenon
<1>4. r.id \in Nat /\ r.repetitions \in Nat
  <2>1. r.id \in Nat
    BY <1>1, <1>2
  <2>2. r.repetitions \in Nat
    BY <1>1, <1>2
  <2>3. QED
    BY <2>1, <2>2
<1>5. r.names \in Seq(Seq(Nat))
  BY <1>1, <1>3
<1>6. /\ r.community \in Texts /\ Leading(r.community) \in Texts
      /\ CommunitySent(r.community) \in Seq(Byte)
  BY <1>1, TextTypes
<1>7. QED
  BY <1>1, <1>4, <1>5, <1>6

\* A request fits.
LEMMA RequestFits ==
  ASSUME NEW r \in Requests, \A i \in DOMAIN r.names : Askable(r.names[i])
  PROVE  Request(r) \in Fit
<1> DEFINE id == Tlv(2, Octets(r.id))
           asked == IF r.tag = 165 THEN Tlv(2, Octets(0)) \o Tlv(2, Octets(r.repetitions))
                    ELSE Tlv(2, <<0>>) \o Tlv(2, <<0>>)
           one(i) == Tlv(48, Tlv(6, RequestName(r.names[i])) \o <<5, 0>>)
           binds == [i \in DOMAIN r.names |-> one(i)]
           pdu == id \o asked \o Tlv(48, FlattenSeq(binds))
<1>1. \A k \in {0, 1, 2, 5, 6, 48, 160, 161, 165} : k \in Byte
  BY DEF Byte
<1>2. id \in Fit
  BY <1>1, RequestTypes, OctetsFit, TlvFits
<1>3. asked \in Fit
  <2>1. Tlv(2, Octets(0)) \in Fit /\ Tlv(2, Octets(r.repetitions)) \in Fit
    BY <1>1, RequestTypes, OctetsFit, TlvFits
  <2>2. Tlv(2, <<0>>) \in Fit
    BY <1>1, OneFits, TlvFits
  <2>3. QED
    BY <2>1, <2>2, BothFit
<1>4. Len(r.names) \in Nat /\ DOMAIN r.names = 1..Len(r.names)
  BY RequestTypes, LenProperties
<1>5. ASSUME NEW i \in 1..Len(r.names) PROVE one(i) \in Fit
  <2>1. r.names[i] \in Seq(Nat) /\ Askable(r.names[i])
    BY <1>4, RequestTypes, ElementOfSeq
  <2>2. Tlv(6, RequestName(r.names[i])) \in Fit
    BY <1>1, <2>1, RequestNameFits, TlvFits
  <2>3. <<5, 0>> \in Fit
    <3>1. <<5, 0>> \in Seq(Byte)
      BY <1>1
    <3>2. QED
      BY <3>1, BytesFit
  <2>4. Tlv(6, RequestName(r.names[i])) \o <<5, 0>> \in Fit
    BY <2>2, <2>3, BothFit
  <2>5. QED
    BY <1>1, <2>4, TlvFits
<1> HIDE DEF one
<1>6. binds \in Seq(Fit)
  <2>1. binds = [i \in 1..Len(r.names) |-> one(i)]
    BY <1>4
  <2>2. [i \in 1..Len(r.names) |-> one(i)] \in Seq(Fit)
    BY <1>4, <1>5, SMT
  <2>3. QED
    BY <2>1, <2>2
<1> HIDE DEF binds
<1>7. Tlv(48, FlattenSeq(binds)) \in Fit
  BY <1>1, <1>6, FlattenFits, TlvFits
<1>8. pdu \in Fit
  <2> HIDE DEF id, asked
  <2>1. id \o asked \in Fit
    BY <1>2, <1>3, BothFit
  <2>2. QED
    BY <1>7, <2>1, BothFit
<1>9. Request(r) = Message(1, CommunitySent(r.community), r.tag, pdu)
  BY DEF Request, binds, one
<1> HIDE DEF pdu
<1>10. r.tag \in Byte /\ 1 \in Byte /\ CommunitySent(r.community) \in Seq(Byte)
  <2>1. r.tag \in {160, 161, 165}
    BY RequestTypes
  <2>2. r.tag \in Byte /\ 1 \in Byte
    BY <2>1 DEF Byte
  <2>3. QED
    BY <2>2, RequestTypes
<1>11. QED
  BY <1>8, <1>9, <1>10, MessageFits

\* Negative numbers are sent as the complement of one that is not.
LEMMA RawFits ==
  ASSUME NEW v, v.int \in Int, v.text \in Seq(Byte)
  PROVE  Raw(v) \in Fit
<1> DEFINE d == Octets(-v.int - 1)
           e(i) == 255 - d[i]
<1>1. CASE v.tag \notin IntegerTags
  BY <1>1, BytesFit DEF Raw
<1>2. CASE v.tag \in IntegerTags /\ v.int >= 0
  <2>1. v.int \in Nat
    BY <1>2
  <2>2. Octets(v.int) \in Fit
    BY <2>1, OctetsFit
  <2>3. QED
    BY <1>2, <2>2 DEF Raw
<1>3. CASE v.tag \in IntegerTags /\ ~(v.int >= 0)
  <2>1. -v.int - 1 \in Nat
    BY <1>3
  <2>2. d \in Seq(Byte)
    BY <2>1, OctetsType
  <2>3. Raw(v) = [i \in DOMAIN d |-> e(i)]
    BY <1>3 DEF Raw
  <2> HIDE DEF d
  <2>4. Len(d) \in Nat /\ DOMAIN d = 1..Len(d)
    BY <2>2, LenProperties
  <2>5. ASSUME NEW i \in 1..Len(d) PROVE e(i) \in Byte
    <3>1. d[i] \in Byte
      BY <2>2, ElementOfSeq
    <3>2. \A k \in Byte : 255 - k \in Byte
      BY DEF Byte
    <3>3. QED
      BY <3>1, <3>2
  <2> HIDE DEF e
  <2>6. [i \in 1..Len(d) |-> e(i)] \in Seq(Byte)
    BY <2>4, <2>5, SMT
  <2>7. QED
    BY <2>3, <2>4, <2>6, BytesFit
<1>4. QED
  BY <1>1, <1>2, <1>3

\* An answer fits.
LEMMA ResponseFits ==
  ASSUME NEW r \in Requests, NEW status \in {0, 2}, NEW values \in AnswerLists,
         Len(values) = Len(r.names)
  PROVE  Response(r, status, values) \in Fit
<1> DEFINE id == Tlv(2, Octets(r.id))
           one(i) == Bind(r.names[i], values[i].tag, Raw(values[i]))
           binds == [i \in DOMAIN values |-> one(i)]
           pdu == id \o Tlv(2, <<status>>) \o Tlv(2, <<0>>) \o Tlv(48, FlattenSeq(binds))
<1>1. \A k \in {0, 1, 2, 48, 162} : k \in Byte
  BY DEF Byte
<1>2. id \in Fit
  BY <1>1, RequestTypes, OctetsFit, TlvFits
<1>3. Tlv(2, <<status>>) \in Fit /\ Tlv(2, <<0>>) \in Fit
  BY <1>1, OneFits, TlvFits
<1>4. values \in Seq([tag : Byte, int : Int, text : Seq(Byte)])
  BY AnswerAssumption, Zenon
<1>5. Len(values) \in Nat /\ DOMAIN values = 1..Len(values)
  BY <1>4, LenProperties
<1>6. ASSUME NEW i \in 1..Len(values) PROVE one(i) \in Fit
  <2>1. r.names[i] \in Seq(Nat)
    BY RequestTypes, ElementOfSeq
  <2>2. values[i] \in [tag : Byte, int : Int, text : Seq(Byte)]
    BY <1>4, ElementOfSeq
  <2>3. values[i].tag \in Byte /\ Raw(values[i]) \in Fit
    BY <2>2, RawFits
  <2>4. QED
    BY <2>1, <2>3, BindFits
<1> HIDE DEF one
<1>7. binds \in Seq(Fit)
  <2>1. binds = [i \in 1..Len(values) |-> one(i)]
    BY <1>5
  <2>2. [i \in 1..Len(values) |-> one(i)] \in Seq(Fit)
    BY <1>5, <1>6, SMT
  <2>3. QED
    BY <2>1, <2>2
<1> HIDE DEF binds
<1>8. Tlv(48, FlattenSeq(binds)) \in Fit
  BY <1>1, <1>7, FlattenFits, TlvFits
<1>9. pdu \in Fit
  <2> HIDE DEF id
  <2>1. id \o Tlv(2, <<status>>) \in Fit
    BY <1>2, <1>3, BothFit
  <2>2. id \o Tlv(2, <<status>>) \o Tlv(2, <<0>>) \in Fit
    BY <1>3, <2>1, BothFit
  <2>3. QED
    BY <1>8, <2>2, BothFit
<1>10. Response(r, status, values) = Message(1, CommunitySent(r.community), 162, pdu)
  BY DEF Response, binds, one
<1> HIDE DEF pdu
<1>11. QED
  BY <1>1, <1>9, <1>10, RequestTypes, MessageFits

-----------------------------------------------------------------------------
(* The exchange                                                             *)

Exchanged ==
    \/ \E t \in Traps : sent = [what |-> "trap", trap |-> t]
    \/ \E r \in Requests : sent = [what |-> "request", request |-> r]

CodecInv == CodecTypeOK /\ Exchanged

\* What is sent is a trap or a request.
LEMMA SentIs ==
  ASSUME Exchanged
  PROVE  /\ IsTrap => sent.trap \in Traps
         /\ ~IsTrap => sent.request \in Requests
  BY DEF Exchanged, IsTrap

\* The invariant holds at first.
LEMMA CodecInitInv == CodecInit => CodecInv
<1>1. << >> \in Seq(Byte) /\ Len(<< >>) = 0
  OBVIOUS
<1>2. 0 <= Datagram
  BY SMT DEF Datagram
<1>3. QED
  BY <1>1, <1>2 DEF CodecInit, CodecInv, CodecTypeOK, Exchanged

\* A step that sends what fits.
LEMMA PacketSent ==
  ASSUME CodecInv, packet' \in Fit, Len(packet') <= Datagram, UNCHANGED sent,
         hop' \in {"new", "sent", "answered"}, whole' \in BOOLEAN
  PROVE  CodecInv'
<1>1. packet' \in Seq(Byte)
  BY DEF Fit
<1>2. Exchanged'
  BY DEF CodecInv, Exchanged
<1>3. QED
  BY <1>1, <1>2 DEF CodecInv, CodecTypeOK

\* Every step keeps the invariant.
LEMMA CodecNextInv == CodecInv /\ [CodecNext]_codecVars => CodecInv'
<1> SUFFICES ASSUME CodecInv, [CodecNext]_codecVars PROVE CodecInv'
  OBVIOUS
<1>0. /\ packet \in Seq(Byte) /\ Len(packet) <= Datagram /\ Exchanged
      /\ hop \in {"new", "sent", "answered"} /\ whole \in BOOLEAN
  BY DEF CodecInv, CodecTypeOK
<1>1. ASSUME SendPacket PROVE CodecInv'
  <2>1. packet' \in Fit
    <3>1. CASE IsTrap
      BY <1>0, <1>1, <3>1, SentIs, TrapV1Fits, TrapV2cFits DEF SendPacket
    <3>2. CASE ~IsTrap
      <4>1. sent.request \in Requests
        BY <1>0, <3>2, SentIs
      <4>2. /\ \A i \in DOMAIN sent.request.names : Askable(sent.request.names[i])
            /\ packet' = Request(sent.request)
        BY <1>1, <3>2 DEF SendPacket
      <4>3. QED
        BY <4>1, <4>2, RequestFits
    <3>3. QED
      BY <3>1, <3>2
  <2>2. Len(packet') <= Datagram /\ UNCHANGED <<sent, whole>> /\ hop' = "sent"
    BY <1>1 DEF SendPacket
  <2>3. QED
    BY <1>0, <2>1, <2>2, PacketSent
<1>2. ASSUME NEW status \in {0, 2}, NEW values \in AnswerLists, Answer(status, values)
      PROVE  CodecInv'
  <2>1. /\ ~IsTrap /\ Len(values) = Len(sent.request.names)
        /\ packet' = Response(sent.request, status, values)
        /\ Len(packet') <= Datagram /\ UNCHANGED <<sent, whole>> /\ hop' = "answered"
    BY <1>2 DEF Answer
  <2>2. sent.request \in Requests
    BY <1>0, <2>1, SentIs
  <2>3. packet' \in Fit
    BY <2>1, <2>2, ResponseFits
  <2>4. QED
    BY <1>0, <2>1, <2>3, PacketSent
<1>3. ASSUME NEW n \in Cuts, Cut(n) PROVE CodecInv'
  <2>1. n \in Nat
    BY CodecAssumption, SMT
  <2>2. /\ n < Len(packet) /\ packet' = SubSeq(packet, 1, n)
        /\ UNCHANGED <<sent, hop>> /\ whole' = FALSE
    BY <1>3 DEF Cut
  <2>3. Len(packet) \in Nat /\ \A i \in 1..n : packet[i] \in Byte
    <3>1. Len(packet) \in Nat /\ \A i \in 1..Len(packet) : packet[i] \in Byte
      BY <1>0, LenProperties, ElementOfSeq
    <3>2. QED
      BY <2>1, <2>2, <3>1
  <2>4. SubSeq(packet, 1, n) \in Seq(Byte) /\ Len(SubSeq(packet, 1, n)) = IF 1 <= n THEN n - 1 + 1 ELSE 0
    BY <2>1, <2>3, SubSeqProperties
  <2>5. Datagram \in Nat
    BY SMT DEF Datagram
  <2>6. Len(packet') <= Datagram
    BY <1>0, <2>1, <2>2, <2>3, <2>4, <2>5
  <2>7. packet' \in Fit
    BY <2>2, <2>4, BytesFit
  <2>8. QED
    BY <1>0, <2>2, <2>6, <2>7, PacketSent
<1>4. CASE UNCHANGED codecVars
  BY <1>4 DEF codecVars, CodecInv, CodecTypeOK, Exchanged
<1>5. QED
  BY <1>1, <1>2, <1>3, <1>4, Zenon DEF CodecNext

\* Whatever is sent, answered or cut is a sequence of octets that fits into a
\* datagram (nms/snmp.py:13-80, nms/snmp_trap.py:33-120).
THEOREM PacketTypeCorrect == CodecSpec => []CodecTypeOK
<1>1. CodecInv => CodecTypeOK
  BY DEF CodecInv
<1>2. QED
  BY <1>1, CodecInitInv, CodecNextInv, PTL DEF CodecSpec

-----------------------------------------------------------------------------
(* Recursion over the octets of a text                                      *)

\* f and g start alike, and are alike at i when they are before it.
GoAlike(f, g, n) ==
    /\ f[0] = g[0]
    /\ \A i \in 1..n : f[i - 1] = g[i - 1] => f[i] = g[i]

SameUpto(f, g, n) == \A i \in 0..n : f[i] = g[i]

\* Two functions that start alike and go on alike are alike.
LEMMA Agree ==
  ASSUME NEW n \in Nat, NEW f, NEW g, GoAlike(f, g, n)
  PROVE  SameUpto(f, g, n)
<1> DEFINE Same == {i \in Nat : i <= n => f[i] = g[i]}
<1>1. 0 \in Same
  BY DEF GoAlike
<1>2. ASSUME NEW i \in Nat, i \in Same PROVE i + 1 \in Same
  <2> SUFFICES ASSUME i + 1 <= n PROVE f[i + 1] = g[i + 1]
    OBVIOUS
  <2>1. i + 1 \in 1..n /\ (i + 1) - 1 = i
    OBVIOUS
  <2>2. f[(i + 1) - 1] = g[(i + 1) - 1] => f[i + 1] = g[i + 1]
    BY <2>1 DEF GoAlike
  <2>3. f[i] = g[i]
    BY <1>2
  <2>4. QED
    BY <2>1, <2>2, <2>3
<1> HIDE DEF Same
<1>3. \A i \in Nat : i \in Same
  BY <1>1, <1>2, Induct
<1>4. QED
  BY <1>3 DEF Same, SameUpto

\* f holds the numbers that the prefixes of raw are read as.
Sums(raw, start, f) ==
    /\ f \in [0..Len(raw) -> Int] /\ f[0] = start
    /\ \A i \in 1..Len(raw) : f[i] = f[i - 1] * 256 + raw[i]

\* The sums that From goes through are a function of the octets read.
LEMMA PartNumbersExist ==
  ASSUME NEW raw \in Seq(Int), NEW start \in Int
  PROVE  \E f : Sums(raw, start, f)
<1> DEFINE Part(f, n) ==
        /\ f \in [0..n -> Int] /\ f[0] = start
        /\ \A i \in 1..n : f[i] = f[i - 1] * 256 + raw[i]
           Ready == {n \in Nat : n <= Len(raw) => \E f : Part(f, n)}
<1>0. Len(raw) \in Nat /\ \A i \in 1..Len(raw) : raw[i] \in Int
  BY LenProperties, ElementOfSeq
<1>1. 0 \in Ready
  <2>1. Part([i \in 0..0 |-> start], 0)
    OBVIOUS
  <2>2. QED
    BY <2>1, ZenonT(60)
<1> HIDE DEF Part
<1>2. ASSUME NEW n \in Nat, n \in Ready PROVE n + 1 \in Ready
  <2> SUFFICES ASSUME n + 1 <= Len(raw) PROVE \E f : Part(f, n + 1)
    OBVIOUS
  <2>1. PICK f : Part(f, n)
    BY <1>0, <1>2
  <2> DEFINE v == f[n] * 256 + raw[n + 1]
             g == [i \in 0..(n + 1) |-> IF i = n + 1 THEN v ELSE f[i]]
  <2>2. v \in Int
    <3>1. f[n] \in Int /\ raw[n + 1] \in Int
      BY <1>0, <2>1 DEF Part
    <3>2. QED
      BY <3>1
  <2>3. g \in [0..(n + 1) -> Int]
    BY <2>1, <2>2 DEF Part
  <2>4. g[0] = start /\ g[n + 1] = v /\ \A i \in 0..n : g[i] = f[i]
    BY <2>1 DEF Part
  <2> HIDE DEF g
  <2>5. ASSUME NEW i \in 1..(n + 1) PROVE g[i] = g[i - 1] * 256 + raw[i]
    <3>1. CASE i = n + 1
      <4>1. i - 1 = n /\ n \in 0..n
        BY <3>1
      <4>2. g[i] = v /\ g[i - 1] = f[n]
        BY <2>4, <3>1, <4>1
      <4>3. QED
        BY <3>1, <4>2
    <3>2. CASE i # n + 1
      <4>1. i \in 1..n /\ i \in 0..n /\ i - 1 \in 0..n
        BY <3>2
      <4>2. g[i] = f[i] /\ g[i - 1] = f[i - 1] /\ f[i] = f[i - 1] * 256 + raw[i]
        BY <2>1, <2>4, <4>1, ZenonT(60) DEF Part
      <4>3. QED
        BY <4>2
    <3>3. QED
      BY <3>1, <3>2
  <2>6. Part(g, n + 1)
    BY <2>3, <2>4, <2>5 DEF Part
  <2>7. QED
    BY <2>6
<1> HIDE DEF Ready
<1>3. \A n \in Nat : n \in Ready
  BY <1>1, <1>2, Induct
<1>4. PICK f : Part(f, Len(raw))
  BY <1>0, <1>3 DEF Ready
<1>5. Sums(raw, start, f)
  BY <1>4 DEF Part, Sums
<1>6. QED
  BY <1>5

\* From is the last of those sums.
LEMMA FromIs ==
  ASSUME NEW raw \in Seq(Int), NEW start \in Int, NEW f, Sums(raw, start, f)
  PROVE  From(start, raw) = f[Len(raw)]
<1> DEFINE L == Len(raw)
           Step(g, i) == IF i = 0 THEN start ELSE g[i - 1] * 256 + raw[i]
           Is(g) == g = [i \in 0..L |-> Step(g, i)]
           d == CHOOSE g : Is(g)
<1>0. L \in Nat
  BY LenProperties
<1>1. Is(f)
  <2>1. \A i \in 0..L : f[i] = Step(f, i)
    BY <1>0 DEF Sums
  <2>2. f = [i \in 0..L |-> f[i]]
    BY DEF Sums
  <2> HIDE DEF Step
  <2>3. QED
    BY <2>1, <2>2
<1>2. Is(d)
  <2> HIDE DEF Is
  <2>1. QED
    BY <1>1
<1>3. From(start, raw) = d[L]
  BY DEF From
<1> HIDE DEF d
<1>4. \A i \in 0..L : d[i] = Step(d, i)
  BY <1>2
<1>5. \A i \in 0..L : f[i] = Step(f, i)
  BY <1>1
<1> HIDE DEF L, Is
<1>6. d[0] = f[0]
  BY <1>0, <1>4, <1>5
<1>7. \A i \in 1..L : d[i - 1] = f[i - 1] => d[i] = f[i]
  BY <1>0, <1>4, <1>5
<1>8. GoAlike(d, f, L)
  BY <1>6, <1>7 DEF GoAlike
<1>9. SameUpto(d, f, L)
  BY <1>0, <1>8, Agree
<1>10. d[L] = f[L]
  BY <1>0, <1>9 DEF SameUpto
<1>11. QED
  BY <1>3, <1>10 DEF L

\* A text is read as its first part and then, from there, its second one.
LEMMA FromBoth ==
  ASSUME NEW a \in Seq(Int), NEW b \in Seq(Int), NEW start \in Int
  PROVE  /\ From(start, a) \in Int
         /\ From(start, a \o b) = From(From(start, a), b)
<1>1. PICK f : Sums(a, start, f)
  BY PartNumbersExist
<1>0. Len(a) \in Nat /\ Len(b) \in Nat
  BY LenProperties
<1>2. From(start, a) = f[Len(a)] /\ f[Len(a)] \in Int
  <2>1. From(start, a) = f[Len(a)]
    BY <1>1, FromIs
  <2>2. f[Len(a)] \in Int
    BY <1>0, <1>1 DEF Sums
  <2>3. QED
    BY <2>1, <2>2
<1>3. PICK g : Sums(b, f[Len(a)], g)
  BY <1>2, PartNumbersExist
<1> DEFINE c == a \o b
           h == [i \in 0..Len(c) |-> IF i <= Len(a) THEN f[i] ELSE g[i - Len(a)]]
<1>4. /\ c \in Seq(Int) /\ Len(c) = Len(a) + Len(b)
      /\ \A i \in 1..Len(a) : c[i] = a[i]
      /\ \A i \in 1..Len(b) : c[Len(a) + i] = b[i]
  BY <1>0, ConcatProperties
<1> HIDE DEF c
<1>5. /\ f \in [0..Len(a) -> Int] /\ f[0] = start
      /\ \A i \in 1..Len(a) : f[i] = f[i - 1] * 256 + a[i]
  BY <1>1 DEF Sums
<1>6. /\ g \in [0..Len(b) -> Int] /\ g[0] = f[Len(a)]
      /\ \A i \in 1..Len(b) : g[i] = g[i - 1] * 256 + b[i]
  BY <1>3 DEF Sums
<1>7. Sums(c, start, h)
  <2>1. h \in [0..Len(c) -> Int]
    <3>1. ASSUME NEW i \in 0..Len(c) PROVE h[i] \in Int
      <4>1. CASE i <= Len(a)
        <5>1. h[i] = f[i] /\ i \in 0..Len(a)
          BY <1>0, <4>1
        <5>2. QED
          BY <1>5, <5>1, ZenonT(60)
      <4>2. CASE ~(i <= Len(a))
        <5>1. h[i] = g[i - Len(a)] /\ i - Len(a) \in 0..Len(b)
          BY <1>0, <1>4, <4>2, SMTT(40)
        <5>2. QED
          BY <1>6, <5>1, ZenonT(60)
      <4>3. QED
        BY <4>1, <4>2
    <3>2. h = [i \in 0..Len(c) |-> h[i]]
      OBVIOUS
    <3> HIDE DEF h
    <3>3. QED
      BY <3>1, <3>2
  <2>2. h[0] = start /\ h[Len(c)] = g[Len(b)]
    BY <1>0, <1>4, <1>5, <1>6
  <2>3. ASSUME NEW i \in 1..Len(c) PROVE h[i] = h[i - 1] * 256 + c[i]
    <3>1. CASE i <= Len(a)
      <4>1. i \in 1..Len(a) /\ h[i] = f[i] /\ h[i - 1] = f[i - 1]
        BY <1>0, <1>4, <3>1
      <4>2. QED
        BY <1>4, <1>5, <4>1
    <3>2. CASE ~(i <= Len(a))
      <4> DEFINE k == i - Len(a)
      <4>1. k \in 1..Len(b) /\ i = Len(a) + k /\ h[i] = g[k]
        BY <1>0, <1>4, <3>2
      <4>2. h[i - 1] = g[k - 1]
        <5>1. CASE k = 1
          BY <1>0, <1>4, <1>6, <4>1, <5>1
        <5>2. CASE k # 1
          BY <1>0, <1>4, <4>1, <5>2, SMTT(40)
        <5>3. QED
          BY <5>1, <5>2
      <4>3. g[k] = g[k - 1] * 256 + b[k] /\ c[i] = b[k]
        BY <1>4, <1>6, <4>1
      <4>4. QED
        BY <4>1, <4>2, <4>3
    <3>3. QED
      BY <3>1, <3>2
  <2> HIDE DEF h
  <2>4. QED
    BY <2>1, <2>2, <2>3 DEF Sums
<1>8. From(start, c) = h[Len(c)]
  <2> HIDE DEF h
  <2>1. QED
    BY <1>4, <1>7, FromIs
<1>9. h[Len(c)] = g[Len(b)]
  BY <1>0, <1>4, <1>6
<1>10. From(f[Len(a)], b) = g[Len(b)]
  BY <1>2, <1>3, FromIs
<1>11. QED
  BY <1>2, <1>8, <1>9, <1>10 DEF c

\* What one octet, and what two, are read as.
LEMMA FromFew ==
  ASSUME NEW start \in Int
  PROVE  /\ From(start, << >>) = start
         /\ \A x \in Int : From(start, <<x>>) = start * 256 + x
<1>1. From(start, << >>) = start
  <2> DEFINE f == [i \in 0..0 |-> start]
  <2>1. Sums(<< >>, start, f)
    BY DEF Sums
  <2>2. << >> \in Seq(Int) /\ f[0] = start /\ Len(<< >>) = 0
    OBVIOUS
  <2> HIDE DEF f
  <2>3. From(start, << >>) = f[Len(<< >>)]
    BY <2>1, <2>2, FromIs
  <2>4. QED
    BY <2>2, <2>3
<1>2. ASSUME NEW x \in Int PROVE From(start, <<x>>) = start * 256 + x
  <2> DEFINE f == [i \in 0..1 |-> IF i = 0 THEN start ELSE start * 256 + x]
             s == <<x>>
  <2>1. s \in Seq(Int) /\ Len(s) = 1 /\ s[1] = x
    OBVIOUS
  <2> HIDE DEF s
  <2>2. f \in [0..1 -> Int] /\ f[0] = start /\ f[1] = start * 256 + x
    OBVIOUS
  <2> HIDE DEF f
  <2>3. Sums(s, start, f)
    BY <2>1, <2>2 DEF Sums
  <2>4. QED
    BY <2>1, <2>2, <2>3, FromIs DEF s
<1>3. QED
  BY <1>1, <1>2

-----------------------------------------------------------------------------
(* Numbers are read as they were written                                    *)

\* Octets are natural numbers, and those are integers.
LEMMA Widened ==
  /\ \A s \in Seq(Byte) : s \in Seq(Int) /\ s \in Seq(Nat)
  /\ \A s \in Seq(Nat) : s \in Seq(Int)
<1>1. Byte \subseteq Int /\ Nat \subseteq Int /\ Byte \subseteq Nat
  BY ByteNat
<1>2. QED
  BY <1>1, SeqMonotonic

\* One octet more is the number so far times 256, and the octet.
LEMMA FromAppend ==
  ASSUME NEW s \in Seq(Int), NEW x \in Int, NEW start \in Int
  PROVE  From(start, Append(s, x)) = From(start, s) * 256 + x
<1>1. Append(s, x) = s \o <<x>> /\ <<x>> \in Seq(Int)
  BY AppendIsConcat
<1>2. From(start, s) \in Int /\ From(start, s \o <<x>>) = From(From(start, s), <<x>>)
  BY <1>1, FromBoth
<1>3. From(From(start, s), <<x>>) = From(start, s) * 256 + x
  BY <1>2, FromFew
<1>4. QED
  BY <1>1, <1>2, <1>3

\* The digits of a number are read as that number.
LEMMA DigitsRead ==
  ASSUME NEW n \in Nat
  PROVE  From(0, Digits(n, 256)) = n
<1> DEFINE Back == {m \in Nat : From(0, Digits(m, 256)) = m}
<1>1. ASSUME NEW m \in Nat, \A i \in 0..(m - 1) : i \in Back PROVE m \in Back
  <2> DEFINE q == m \div 256
  <2>0. /\ q \in Nat /\ m % 256 \in 0..(256 - 1) /\ m = q * 256 + (m % 256)
        /\ m >= 256 => q < m
    BY DivFacts
  <2>1. Digits(m, 256) = IF m < 256 THEN <<m>> ELSE Append(Digits(q, 256), m % 256)
    BY DigitsIs, SMTT(40)
  <2> HIDE DEF q
  <2>2. CASE m < 256
    <3>1. Digits(m, 256) = <<m>>
      BY <2>1, <2>2
    <3>2. From(0, <<m>>) = 0 * 256 + m
      BY FromFew
    <3>3. QED
      BY <3>1, <3>2
  <2>3. CASE ~(m < 256)
    <3>1. q \in 0..(m - 1)
      BY <2>0, <2>3
    <3>2. From(0, Digits(q, 256)) = q
      BY <1>1, <3>1
    <3>3. Digits(q, 256) \in Seq(Int)
      BY <2>0, OctetDigits, Widened
    <3>4. From(0, Append(Digits(q, 256), m % 256)) = From(0, Digits(q, 256)) * 256 + (m % 256)
      BY <2>0, <3>3, FromAppend
    <3>5. From(0, Digits(m, 256)) = m
      BY <2>0, <2>1, <2>3, <3>2, <3>4, ZenonT(60)
    <3>6. QED
      BY <3>5
  <2>4. QED
    BY <2>2, <2>3
<1> HIDE DEF Back
<1>2. \A m \in Nat : m \in Back
  BY <1>1, InductBelow
<1>3. QED
  BY <1>2 DEF Back

\* The sign bit of a number that is not negative is clear.
LEMMA OctetsRead ==
  ASSUME NEW n \in Nat
  PROVE  /\ Octets(n)[1] < 128 /\ Octets(n)[1] \in Nat
         /\ From(0, Octets(n)) = n
         /\ Unsigned(Octets(n)) = n /\ Signed(Octets(n)) = n
<1> DEFINE d == Digits(n, 256)
<1>1. d \in Seq(Nat) /\ d \in Seq(Int) /\ Len(d) \in Nat \ {0} /\ d[1] \in Nat
  <2>1. d \in Seq(Nat) /\ Len(d) \in Nat \ {0}
    BY OctetDigits
  <2>2. QED
    BY <2>1, Widened, ElementOfSeq
<1>2. From(0, d) = n
  BY DigitsRead
<1>3. Octets(n) = IF d[1] >= 128 THEN <<0>> \o d ELSE d
  BY DEF Octets
<1> HIDE DEF d
<1> DEFINE z == <<0>>
<1>4. z \in Seq(Int) /\ Len(z) = 1 /\ z[1] = 0
  OBVIOUS
<1>5. From(0, z \o d) = n /\ (z \o d)[1] = 0
  <2>1. From(0, z) = 0 * 256 + 0
    BY FromFew
  <2> HIDE DEF z
  <2>2. From(0, z \o d) = From(From(0, z), d)
    BY <1>1, <1>4, FromBoth
  <2>3. (z \o d)[1] = z[1]
    BY <1>1, <1>4, ConcatProperties, SMTT(40)
  <2>4. QED
    BY <1>2, <1>4, <2>1, <2>2, <2>3
<1>6. Octets(n)[1] < 128 /\ Octets(n)[1] \in Nat /\ From(0, Octets(n)) = n
  BY <1>1, <1>2, <1>3, <1>5
<1>7. QED
  BY <1>6 DEF Unsigned, Signed

\* The complement of a text is read as the complement of its number.
LEMMA ComplementRead ==
  ASSUME NEW s \in Seq(Int), NEW x \in Int, NEW c \in Seq(Int), Len(c) = Len(s),
         \A i \in 1..Len(s) : c[i] = 255 - s[i]
  PROVE  From(-1 - x, c) = -1 - From(x, s)
<1>0. Len(s) \in Nat /\ \A i \in 1..Len(s) : s[i] \in Int
  BY LenProperties, ElementOfSeq
<1>1. PICK f : Sums(s, x, f)
  BY PartNumbersExist
<1>2. /\ f \in [0..Len(s) -> Int] /\ f[0] = x
      /\ \A i \in 1..Len(s) : f[i] = f[i - 1] * 256 + s[i]
  BY <1>1 DEF Sums
<1> DEFINE g == [i \in 0..Len(s) |-> -1 - f[i]]
<1>3. g \in [0..Len(c) -> Int] /\ g[0] = -1 - x /\ g[Len(c)] = -1 - f[Len(s)]
  BY <1>0, <1>2
<1>4. ASSUME NEW i \in 1..Len(c) PROVE g[i] = g[i - 1] * 256 + c[i]
  <2>1. /\ i \in 1..Len(s) /\ i \in 0..Len(s) /\ i - 1 \in 0..Len(s)
    BY <1>0
  <2>2. /\ f[i - 1] \in Int /\ s[i] \in Int /\ f[i] = f[i - 1] * 256 + s[i]
        /\ c[i] = 255 - s[i]
    BY <1>0, <1>2, <2>1, ZenonT(60)
  <2>3. g[i] = -1 - f[i] /\ g[i - 1] = -1 - f[i - 1]
    BY <2>1
  <2> HIDE DEF g
  <2>4. QED
    BY <2>2, <2>3, SMTT(40)
<1>5. Sums(c, -1 - x, g)
  <2> HIDE DEF g
  <2>1. QED
    BY <1>3, <1>4 DEF Sums
<1>6. From(-1 - x, c) = g[Len(c)]
  <2> HIDE DEF g
  <2>1. QED
    BY <1>5, FromIs
<1>7. From(x, s) = f[Len(s)]
  BY <1>1, FromIs
<1>8. QED
  BY <1>3, <1>6, <1>7

-----------------------------------------------------------------------------
(* An element is read as it was written                                     *)

\* The items of two sequences put together.
LEMMA Joined ==
  ASSUME NEW S, NEW s \in Seq(S), NEW t \in Seq(S)
  PROVE  /\ s \o t \in Seq(S) /\ Len(s \o t) = Len(s) + Len(t)
         /\ Len(s) \in Nat /\ Len(t) \in Nat
         /\ \A i \in 1..Len(s) : (s \o t)[i] = s[i]
         /\ \A i \in 1..Len(t) : (s \o t)[Len(s) + i] = t[i]
<1> DEFINE u == s \o t
<1>1. Len(s) \in Nat /\ Len(t) \in Nat
  BY LenProperties
<1>2. /\ u \in Seq(S) /\ Len(u) = Len(s) + Len(t)
      /\ \A i \in 1..Len(s) + Len(t) : u[i] = IF i <= Len(s) THEN s[i] ELSE t[i - Len(s)]
  BY ConcatProperties
<1> HIDE DEF u
<1>3. \A i \in 1..Len(s) : u[i] = s[i]
  BY <1>1, <1>2
<1>4. ASSUME NEW i \in 1..Len(t) PROVE u[Len(s) + i] = t[i]
  <2>1. Len(s) + i \in 1..Len(s) + Len(t) /\ ~(Len(s) + i <= Len(s)) /\ Len(s) + i - Len(s) = i
    BY <1>1
  <2>2. QED
    BY <1>2, <2>1
<1>5. QED
  BY <1>1, <1>2, <1>3, <1>4 DEF u

\* A part of a text, from its place.
LEMMA Excerpt ==
  ASSUME NEW S, NEW raw \in Seq(S), NEW m \in Seq(S), NEW k \in Nat, k + Len(m) <= Len(raw),
         \A i \in 1..Len(m) : raw[k + i] = m[i]
  PROVE  SubSeq(raw, k + 1, k + Len(m)) = m
<1> DEFINE u == k + 1
           v == k + Len(m)
           t == SubSeq(raw, u, v)
<1>0. Len(raw) \in Nat /\ Len(m) \in Nat /\ \A i \in 1..Len(raw) : raw[i] \in S
  BY LenProperties, ElementOfSeq
<1>1. u \in Int /\ v \in Int /\ v - u + 1 = Len(m) /\ \A i \in u..v : raw[i] \in S
  BY <1>0
<1>2. \A i \in 1..Len(m) : u + i - 1 = k + i
  BY <1>0
<1>3. u <= v <=> Len(m) # 0
  BY <1>0
<1> HIDE DEF u, v
<1>4. /\ t \in Seq(S) /\ Len(t) = IF u <= v THEN v - u + 1 ELSE 0
      /\ \A i \in 1..v - u + 1 : t[i] = raw[u + i - 1]
  BY <1>1, SubSeqProperties
<1> HIDE DEF t
<1>5. Len(t) = Len(m) /\ \A i \in 1..Len(m) : t[i] = m[i]
  BY <1>0, <1>1, <1>2, <1>3, <1>4
<1>6. t = m
  BY <1>4, <1>5, SeqEqual
<1>7. QED
  BY <1>6 DEF t, u, v

\* A text in the middle of another is the excerpt there.
LEMMA PartOf ==
  ASSUME NEW S, NEW a \in Seq(S), NEW m \in Seq(S), NEW b \in Seq(S)
  PROVE  LET raw == (a \o m) \o b IN
         /\ raw \in Seq(S) /\ Len(raw) = Len(a) + Len(m) + Len(b)
         /\ \A i \in 1..Len(m) : raw[Len(a) + i] = m[i]
         /\ SubSeq(raw, Len(a) + 1, Len(a) + Len(m)) = m
         /\ Len(a) \in Nat /\ Len(m) \in Nat /\ Len(b) \in Nat
<1> DEFINE c == a \o m
           raw == c \o b
<1>1. /\ c \in Seq(S) /\ Len(c) = Len(a) + Len(m) /\ Len(a) \in Nat /\ Len(m) \in Nat
      /\ \A i \in 1..Len(m) : c[Len(a) + i] = m[i]
  BY Joined
<1> HIDE DEF c
<1>2. /\ c \o b \in Seq(S) /\ Len(c \o b) = Len(c) + Len(b) /\ Len(b) \in Nat
      /\ \A i \in 1..Len(c) : (c \o b)[i] = c[i]
  <2>1. c \in Seq(S)
    BY <1>1
  <2>2. QED
    BY <2>1, Joined
<1>3. raw \in Seq(S) /\ Len(raw) = Len(c) + Len(b) /\ \A i \in 1..Len(c) : raw[i] = c[i]
  BY <1>2
<1> HIDE DEF raw
<1>4. \A i \in 1..Len(m) : raw[Len(a) + i] = m[i]
  <2> TAKE i \in 1..Len(m)
  <2>1. Len(a) + i \in 1..Len(c)
    BY <1>1
  <2>2. QED
    BY <1>1, <1>3, <2>1
<1>5. raw \in Seq(S) /\ Len(raw) = Len(a) + Len(m) + Len(b) /\ Len(a) + Len(m) <= Len(raw)
  BY <1>1, <1>2, <1>3
<1>6. SubSeq(raw, Len(a) + 1, Len(a) + Len(m)) = m
  BY <1>1, <1>4, <1>5, Excerpt
<1>7. QED
  BY <1>1, <1>2, <1>4, <1>5, <1>6 DEF raw, c

\* The octets d of a length that takes more than one.
LongLength(n, d) == Length(n) = <<128 + Len(d)>> \o d /\ Len(d) <= 2 /\ From(0, d) = n

\* The forms of a length, the second with up to two octets.
LEMMA LengthForms ==
  ASSUME NEW n \in Nat, n <= Datagram
  PROVE  \/ n < 128 /\ Length(n) = <<n>>
         \/ /\ n >= 128
            /\ \E d \in Seq(Byte) : Len(d) # 0 /\ LongLength(n, d)
<1>1. CASE n < 128
  BY <1>1 DEF Length
<1>2. CASE ~(n < 128)
  <2> DEFINE d == Digits(n, 256)
             e == Digits(n \div 256, 256)
  <2>1. d \in Seq(Byte) /\ Len(d) \in Nat \ {0}
    BY OctetDigits
  <2>2. Length(n) = <<128 + Len(d)>> \o d
    BY <1>2 DEF Length
  <2>3. Len(d) <= 2
    <3>1. n \div 256 \in Nat /\ n \div 256 < 256
      <4>1. n \div 256 \in Nat /\ n % 256 \in 0..(256 - 1) /\ n = (n \div 256) * 256 + (n % 256)
        BY DivFacts
      <4>2. QED
        BY <4>1 DEF Datagram
    <3>2. e = <<n \div 256>> /\ Len(e) = 1 /\ e \in Seq(Nat)
      BY <3>1, DigitsIs
    <3>3. n % 256 \in Nat
      BY DivFacts
    <3>4. d = IF n < 256 THEN <<n>> ELSE Append(e, n % 256)
      BY DigitsIs, SMTT(40)
    <3> HIDE DEF d, e
    <3>5. Len(<<n>>) = 1 /\ Len(Append(e, n % 256)) = 2
      BY <3>2, <3>3, AppendProperties
    <3>6. QED
      BY <3>4, <3>5
  <2>4. From(0, d) = n
    BY DigitsRead
  <2> HIDE DEF d
  <2>6. LongLength(n, d)
    BY <2>2, <2>3, <2>4 DEF LongLength
  <2>7. QED
    BY <1>2, <2>1, <2>6
<1>3. QED
  BY <1>1, <1>2

Element(tag, p, end) ==
    [ok |-> TRUE, tag |-> tag, value |-> p, start |-> end - Len(p), end |-> end]

\* The places of two texts that come after a.
LEMMA HeadPlaces ==
  ASSUME NEW a \in Seq(Byte), NEW x \in Seq(Byte), NEW l \in Seq(Byte), NEW c \in Seq(Byte)
  PROVE  LET raw == (a \o (x \o l)) \o c IN
         /\ raw \in Seq(Byte) /\ Len(raw) = Len(a) + Len(x) + Len(l) + Len(c)
         /\ \A i \in 1..Len(x) : raw[Len(a) + i] = x[i]
         /\ \A i \in 1..Len(l) : raw[Len(a) + Len(x) + i] = l[i]
         /\ Len(a) \in Nat /\ Len(x) \in Nat /\ Len(l) \in Nat /\ Len(c) \in Nat
<1> DEFINE h == x \o l
           raw == (a \o h) \o c
<1>1. /\ h \in Seq(Byte) /\ Len(h) = Len(x) + Len(l) /\ Len(x) \in Nat /\ Len(l) \in Nat
      /\ \A i \in 1..Len(x) : h[i] = x[i]
      /\ \A i \in 1..Len(l) : h[Len(x) + i] = l[i]
  BY Joined
<1>2. h \in Seq(Byte)
  BY <1>1
<1> HIDE DEF h
<1>3. /\ raw \in Seq(Byte) /\ Len(raw) = Len(a) + Len(h) + Len(c)
      /\ \A i \in 1..Len(h) : raw[Len(a) + i] = h[i]
      /\ Len(a) \in Nat /\ Len(c) \in Nat
  BY <1>2, PartOf
<1> HIDE DEF raw
<1>4. ASSUME NEW i \in 1..Len(x) PROVE raw[Len(a) + i] = x[i]
  <2>1. i \in 1..Len(h)
    BY <1>1
  <2>2. QED
    BY <1>1, <1>3, <2>1
<1>5. ASSUME NEW i \in 1..Len(l) PROVE raw[Len(a) + Len(x) + i] = l[i]
  <2>1. Len(x) + i \in 1..Len(h) /\ Len(a) + Len(x) + i = Len(a) + (Len(x) + i)
    BY <1>1, <1>3
  <2>2. QED
    BY <1>1, <1>3, <2>1
<1>6. QED
  BY <1>1, <1>3, <1>4, <1>5 DEF raw, h

\* After k octets of raw comes the head of an element of n octets, the length of
\* which is l.
HeadRead(raw, k, most, l, n) ==
    ReadTlv(raw, k + 1, most) = ElementFrom(raw, k + 1, k + 2 + Len(l), n)

\* The one octet of l is n.
Alone(x, l, n) == Len(x) = 1 /\ Len(l) = 1 /\ l[1] = n /\ n < 128

\* The head of an element whose length takes one octet.
LEMMA ReadShort ==
  ASSUME NEW a \in Seq(Byte), NEW x \in Seq(Byte), NEW l \in Seq(Byte), NEW c \in Seq(Byte),
         NEW most, NEW n \in Nat
  PROVE  Alone(x, l, n) => HeadRead((a \o (x \o l)) \o c, Len(a), most, l, n)
<1> DEFINE pos == Len(a) + 1
           raw == (a \o (x \o l)) \o c
<1>1. /\ Len(raw) = Len(a) + Len(x) + Len(l) + Len(c) /\ Len(a) \in Nat /\ Len(c) \in Nat
      /\ \A i \in 1..Len(l) : raw[Len(a) + Len(x) + i] = l[i]
  BY HeadPlaces
<1> HIDE DEF raw
<1> SUFFICES ASSUME Len(x) = 1, Len(l) = 1, l[1] = n, n < 128
             PROVE  ReadTlv(raw, pos, most) = ElementFrom(raw, pos, Len(a) + 2 + Len(l), n)
  BY DEF raw, Alone, HeadRead
<1>2. raw[pos + 1] = n /\ ~(pos + 1 > Len(raw)) /\ pos + 2 = Len(a) + 2 + Len(l)
  BY <1>1
<1> HIDE DEF pos
<1>3. ReadTlv(raw, pos, most) = ElementFrom(raw, pos, pos + 2, n)
  BY <1>2 DEF ReadTlv
<1>4. QED
  BY <1>2, <1>3

\* The most octets a length is read from, by the receiver and by the client.
Widths == {3, 4}

\* The octets of l after the first, k of them, are the number n.
Follow(x, l, d, k, n) ==
    /\ Len(x) = 1 /\ From(0, d) = n /\ k # 0 /\ k <= 2
    /\ k = Len(d) /\ Len(l) = 1 + k /\ l[1] = 128 + k /\ \A i \in 1..k : l[1 + i] = d[i]

\* The head of an element whose length takes more of them.
LEMMA ReadLong ==
  ASSUME NEW a \in Seq(Byte), NEW x \in Seq(Byte), NEW l \in Seq(Byte), NEW c \in Seq(Byte),
         NEW most \in Widths, NEW n \in Nat, NEW d \in Seq(Byte), NEW k \in Nat
  PROVE  Follow(x, l, d, k, n) => HeadRead((a \o (x \o l)) \o c, Len(a), most, l, n)
<1> DEFINE pos == Len(a) + 1
           raw == (a \o (x \o l)) \o c
           start == pos + raw[pos + 1] - 126
<1>1. /\ raw \in Seq(Byte)
      /\ Len(raw) = Len(a) + Len(x) + Len(l) + Len(c) /\ Len(a) \in Nat /\ Len(c) \in Nat
      /\ \A i \in 1..Len(l) : raw[Len(a) + Len(x) + i] = l[i]
  BY HeadPlaces, SMTT(40)
<1> HIDE DEF raw
<1> SUFFICES ASSUME Follow(x, l, d, k, n)
             PROVE  ReadTlv(raw, pos, most) = ElementFrom(raw, pos, Len(a) + 2 + Len(l), n)
  BY DEF raw, HeadRead
<1>2. /\ Len(x) = 1 /\ From(0, d) = n /\ k # 0 /\ k <= 2
      /\ k = Len(d) /\ Len(l) = 1 + k /\ l[1] = 128 + k /\ \A i \in 1..k : l[1 + i] = d[i]
  BY DEF Follow
<1>3. raw[pos + 1] = 128 + k /\ ~(pos + 1 > Len(raw))
  BY <1>1, <1>2
<1>4. \A i \in 1..k : raw[(Len(a) + 2) + i] = d[i]
  <2> TAKE i \in 1..k
  <2>1. 1 + i \in 1..Len(l) /\ Len(a) + Len(x) + (1 + i) = (Len(a) + 2) + i
    BY <1>1, <1>2
  <2>2. raw[Len(a) + Len(x) + (1 + i)] = l[1 + i] /\ l[1 + i] = d[i]
    BY <1>1, <1>2, <2>1
  <2>3. QED
    BY <2>1, <2>2
<1>5. SubSeq(raw, (Len(a) + 2) + 1, (Len(a) + 2) + Len(d)) = d
  <2>1. Len(a) + 2 \in Nat /\ (Len(a) + 2) + Len(d) <= Len(raw)
    BY <1>1, <1>2
  <2>2. raw \in Seq(Byte) /\ \A i \in 1..Len(d) : raw[(Len(a) + 2) + i] = d[i]
    BY <1>1, <1>2, <1>4
  <2>3. QED
    BY <2>1, <2>2, Excerpt
<1>6. /\ start = Len(a) + 2 + Len(l) /\ pos + 2 = (Len(a) + 2) + 1
      /\ start - 1 = (Len(a) + 2) + Len(d)
      /\ ~(raw[pos + 1] < 128) /\ raw[pos + 1] # 128 /\ ~(raw[pos + 1] - 128 > most)
      /\ ~(start > Len(raw) + 1)
  <2>1. most \in Nat /\ most >= 3
    BY DEF Widths
  <2>2. QED
    BY <1>1, <1>2, <1>3, <2>1
<1>7. Unsigned(SubSeq(raw, pos + 2, start - 1)) = n
  BY <1>2, <1>5, <1>6 DEF Unsigned
<1>8. ReadTlv(raw, pos, most) = ElementFrom(raw, pos, start, n)
  <2> HIDE DEF pos
  <2>1. QED
    BY <1>3, <1>6, <1>7, Zenon DEF ReadTlv
<1>9. QED
  BY <1>6, <1>8

\* An octet string in which the head of an element comes after a.
LEMMA ReadHead ==
  ASSUME NEW a \in Seq(Byte), NEW tag \in Byte, NEW n \in Nat, n <= Datagram,
         NEW c \in Seq(Byte), NEW most \in Widths
  PROVE  HeadRead((a \o (<<tag>> \o Length(n))) \o c, Len(a), most, Length(n), n)
<1> DEFINE x == <<tag>>
           l == Length(n)
<1>1. l \in Seq(Byte)
  BY LengthType
<1>2. x \in Seq(Byte)
  OBVIOUS
<1>3. Len(x) = 1
  OBVIOUS
<1>4. (n < 128 /\ l = <<n>>) \/ \E d \in Seq(Byte) : Len(d) # 0 /\ LongLength(n, d)
  BY LengthForms
<1> HIDE DEF x, l
<1> DEFINE Goal == HeadRead((a \o (x \o l)) \o c, Len(a), most, l, n)
<1>5. Alone(x, l, n) => Goal
  BY <1>1, <1>2, ReadShort
<1>6. ASSUME NEW d \in Seq(Byte), NEW k \in Nat
       PROVE  Follow(x, l, d, k, n) => Goal
  BY <1>1, <1>2, ReadLong
<1>7. ASSUME n < 128, l = <<n>> PROVE Goal
  <2>1. Alone(x, l, n)
    BY <1>3, <1>7 DEF Alone
  <2>2. QED
    BY <1>5, <2>1
<1>8. ASSUME NEW d \in Seq(Byte), Len(d) # 0, LongLength(n, d) PROVE Goal
  <2>1. PICK k \in Nat : k = Len(d)
    BY LenProperties
  <2>2. k # 0 /\ k <= 2 /\ l = <<128 + k>> \o d /\ From(0, d) = n
    BY <1>8, <2>1 DEF LongLength, l
  <2> DEFINE y == <<128 + k>>
  <2>3. y \in Seq(Nat) /\ Len(y) = 1 /\ y[1] = 128 + k
    OBVIOUS
  <2>4. y \in Seq(Nat)
    BY <2>3
  <2>5. l = y \o d
    BY <2>2
  <2> HIDE DEF y
  <2>6. d \in Seq(Nat)
    BY Widened
  <2>7. /\ Len(y \o d) = Len(y) + Len(d)
        /\ \A i \in 1..Len(y) : (y \o d)[i] = y[i]
        /\ \A i \in 1..Len(d) : (y \o d)[Len(y) + i] = d[i]
    BY <2>4, <2>6, Joined
  <2>8. Follow(x, l, d, k, n)
    BY <1>3, <2>1, <2>2, <2>3, <2>5, <2>7 DEF Follow
  <2>9. QED
    BY <1>6, <2>1, <2>8
<1>9. Goal
  <2> HIDE DEF Goal
  <2>1. QED
    BY <1>4, <1>7, <1>8
<1>10. QED
  BY <1>9 DEF l, x

-----------------------------------------------------------------------------
(* Where an element stands                                                 *)

ReadAs(raw, pos, most, e) == ReadTlv(raw, pos, most) = e

\* It does not matter which texts are put together first.
LEMMA Assoc ==
  ASSUME NEW s \in Seq(Byte), NEW t \in Seq(Byte), NEW u \in Seq(Byte)
  PROVE  (s \o t) \o u = s \o (t \o u)
  BY ConcatAssociative

\* The places of an element that stands between others.
LEMMA TlvPlaces ==
  ASSUME NEW a \in Seq(Byte), NEW h \in Seq(Byte), NEW p \in Seq(Byte), NEW b \in Seq(Byte)
  PROVE  LET raw == (a \o (h \o p)) \o b IN
         /\ raw = (a \o h) \o (p \o b) /\ raw \in Seq(Byte)
         /\ Len(raw) = Len(a) + Len(h) + Len(p) + Len(b)
         /\ Len(h \o p) = Len(h) + Len(p) /\ p \o b \in Seq(Byte) /\ h \o p \in Seq(Byte)
         /\ \A i \in 1..Len(h) : raw[Len(a) + i] = h[i]
         /\ SubSeq(raw, Len(a) + Len(h) + 1, Len(a) + Len(h) + Len(p)) = p
         /\ Len(a) \in Nat /\ Len(h) \in Nat /\ Len(p) \in Nat /\ Len(b) \in Nat
<1> DEFINE x == a \o h
           y == p \o b
           q == h \o p
           raw == (a \o q) \o b
<1>1. /\ x \in Seq(Byte) /\ Len(x) = Len(a) + Len(h) /\ Len(a) \in Nat /\ Len(h) \in Nat
      /\ \A i \in 1..Len(h) : x[Len(a) + i] = h[i]
  BY Joined
<1>2. y \in Seq(Byte) /\ q \in Seq(Byte) /\ Len(q) = Len(h) + Len(p) /\ Len(p) \in Nat
  BY Joined
<1>3. raw = x \o y
  <2>1. a \o q = x \o p
    BY Assoc, SMTT(40)
  <2>2. x \in Seq(Byte)
    BY <1>1
  <2>3. (x \o p) \o b = x \o y
    <3> HIDE DEF x
    <3>1. QED
      BY <2>2, Assoc, ZenonT(60)
  <2>4. QED
    BY <2>1, <2>3
<1>4. /\ (x \o p) \o b = x \o y
      /\ (x \o p) \o b \in Seq(Byte)
      /\ Len((x \o p) \o b) = Len(x) + Len(p) + Len(b)
      /\ SubSeq((x \o p) \o b, Len(x) + 1, Len(x) + Len(p)) = p /\ Len(b) \in Nat
  <2>1. x \in Seq(Byte)
    BY <1>1
  <2> HIDE DEF x
  <2>2. (x \o p) \o b = x \o y
    BY <2>1, Assoc
  <2>3. QED
    BY <2>1, <2>2, PartOf
<1>5. \A i \in 1..Len(x) : (x \o y)[i] = x[i]
  <2>1. x \in Seq(Byte) /\ y \in Seq(Byte)
    BY <1>1, <1>2
  <2> HIDE DEF x, y
  <2>2. QED
    BY <2>1, Joined
<1> HIDE DEF x, y, raw, q
<1>6. ASSUME NEW i \in 1..Len(h) PROVE raw[Len(a) + i] = h[i]
  <2>1. Len(a) + i \in 1..Len(x)
    BY <1>1
  <2>2. QED
    BY <1>1, <1>3, <1>5, <2>1
<1>7. /\ raw = x \o y /\ raw \in Seq(Byte) /\ Len(raw) = Len(x) + Len(p) + Len(b)
      /\ SubSeq(raw, Len(x) + 1, Len(x) + Len(p)) = p
  BY <1>3, <1>4
<1>8. QED
  BY <1>1, <1>2, <1>4, <1>6, <1>7 DEF raw, x, y, q

\* What is read of an element with head h, value p and b behind.
LEMMA ElementIs ==
  ASSUME NEW a \in Seq(Byte), NEW h \in Seq(Byte), NEW p \in Seq(Byte), NEW b \in Seq(Byte),
         Len(h) # 0
  PROVE  ElementFrom((a \o (h \o p)) \o b, Len(a) + 1, Len(a) + Len(h) + 1, Len(p))
            = Element(h[1], p, Len(a) + Len(h \o p) + 1)
<1> DEFINE raw == (a \o (h \o p)) \o b
           start == Len(a) + Len(h) + 1
<1>1. /\ Len(raw) = Len(a) + Len(h) + Len(p) + Len(b)
      /\ Len(h \o p) = Len(h) + Len(p)
      /\ \A i \in 1..Len(h) : raw[Len(a) + i] = h[i]
      /\ SubSeq(raw, Len(a) + Len(h) + 1, Len(a) + Len(h) + Len(p)) = p
      /\ Len(a) \in Nat /\ Len(h) \in Nat /\ Len(p) \in Nat /\ Len(b) \in Nat
  BY TlvPlaces, SMTT(40)
<1> HIDE DEF raw
<1>2. /\ ~(start + Len(p) > Len(raw) + 1) /\ raw[Len(a) + 1] = h[1]
      /\ start + Len(p) - 1 = Len(a) + Len(h) + Len(p)
      /\ start + Len(p) = Len(a) + Len(h \o p) + 1
      /\ Len(a) + Len(h \o p) + 1 - Len(p) = start /\ start + Len(p) - Len(p) = start
  BY <1>1
<1>3. SubSeq(raw, start, start + Len(p) - 1) = p
  BY <1>1, <1>2
<1> HIDE DEF start
<1>4. ElementFrom(raw, Len(a) + 1, start, Len(p))
        = [ok |-> TRUE, tag |-> h[1], start |-> start, end |-> start + Len(p), value |-> p]
  BY <1>2, <1>3, Zenon DEF ElementFrom
<1>5. Element(h[1], p, start + Len(p))
        = [ok |-> TRUE, tag |-> h[1], value |-> p, start |-> start, end |-> start + Len(p)]
  <2> DEFINE e == start + Len(p)
  <2>1. e - Len(p) = start
    BY <1>2
  <2> HIDE DEF e
  <2>2. Element(h[1], p, e)
          = [ok |-> TRUE, tag |-> h[1], value |-> p, start |-> start, end |-> e]
    BY <2>1 DEF Element
  <2>3. QED
    BY <2>2 DEF e
<1>6. QED
  BY <1>2, <1>4, <1>5 DEF raw, start

\* An element is read as it was written, whatever stands before and behind it.
LEMMA ReadOne ==
  ASSUME NEW a \in Seq(Byte), NEW tag \in Byte, NEW p \in Seq(Byte), NEW b \in Seq(Byte),
         Len(p) <= Datagram, NEW most \in Widths
  PROVE  ReadAs((a \o Tlv(tag, p)) \o b, Len(a) + 1, most,
              Element(tag, p, Len(a) + Len(Tlv(tag, p)) + 1))
<1> DEFINE n == Len(p)
           l == Length(n)
           h == <<tag>> \o l
           raw == (a \o (h \o p)) \o b
<1>0. n \in Nat /\ l \in Seq(Byte) /\ <<tag>> \in Seq(Byte)
  BY LengthType, LenProperties
<1>1. h \in Seq(Byte) /\ Len(h) = 1 + Len(l) /\ h[1] = tag /\ Len(l) \in Nat
  <2> DEFINE x == <<tag>>
  <2>1. x \in Seq(Byte) /\ Len(x) = 1 /\ x[1] = tag
    BY <1>0
  <2>2. x \in Seq(Byte)
    BY <2>1
  <2> HIDE DEF l, n, x
  <2>3. /\ x \o l \in Seq(Byte) /\ Len(x \o l) = Len(x) + Len(l) /\ Len(l) \in Nat
        /\ \A i \in 1..Len(x) : (x \o l)[i] = x[i]
    BY <1>0, <2>2, Joined
  <2>4. QED
    BY <2>1, <2>3 DEF x
<1>2. h \in Seq(Byte) /\ Len(h) # 0
  BY <1>1
<1>3. p \o b \in Seq(Byte)
  BY Joined
<1>4. HeadRead((a \o h) \o (p \o b), Len(a), most, l, n)
  BY <1>0, <1>3, ReadHead
<1> HIDE DEF h, l
<1>5. raw = (a \o h) \o (p \o b) /\ Len(a) \in Nat
  <2>1. a \o (h \o p) = (a \o h) \o p /\ a \o h \in Seq(Byte)
    BY <1>2, Assoc, Joined
  <2>2. ((a \o h) \o p) \o b = (a \o h) \o (p \o b)
    BY <2>1, Assoc
  <2>3. QED
    BY <2>1, <2>2, LenProperties
<1>6. ElementFrom(raw, Len(a) + 1, Len(a) + Len(h) + 1, n)
        = Element(h[1], p, Len(a) + Len(h \o p) + 1)
  BY <1>2, ElementIs
<1>7. Tlv(tag, p) = h \o p
  BY DEF Tlv, h, l
<1>8. ReadTlv(raw, Len(a) + 1, most) = ElementFrom(raw, Len(a) + 1, Len(a) + 2 + Len(l), n)
  <2> HIDE DEF raw
  <2>1. QED
    BY <1>4, <1>5 DEF HeadRead
<1>9. Len(a) + 2 + Len(l) = Len(a) + Len(h) + 1
  BY <1>1, <1>5
<1>10. QED
  <2> HIDE DEF n
  <2>1. QED
    BY <1>1, <1>6, <1>7, <1>8, <1>9 DEF ReadAs, raw

-----------------------------------------------------------------------------
(* Recursion over any domain with a measure                                 *)

LooksDown(step, D, mu, S) ==
    \A f, g \in [D -> S], x \in D :
        (\A y \in D : mu[y] < mu[x] => f[y] = g[y]) => step[x][f] = step[x][g]

SolvedOn(step, D, S) == \E f \in [D -> S] : \A x \in D : f[x] = step[x][f]

\* What is defined by lower places of a domain exists on all of it.
LEMMA RecursionOn ==
  ASSUME NEW D, NEW mu \in [D -> Nat], NEW S, S # {},
         NEW step \in [D -> [[D -> S] -> S]], LooksDown(step, D, mu, S)
  PROVE  SolvedOn(step, D, S)
<1> DEFINE T == [D -> S]
           Glued(F) == [y \in D |-> F[mu[y]][y]]
           Slice(n, F) == [x \in D |-> step[x][Glued(F)]]
           rise == [n \in Nat |-> [F \in [Nat -> T] |-> [x \in D |-> IF mu[x] = n THEN step[x][Glued(F)]
                                                            ELSE CHOOSE s \in S : TRUE]]]
           At(n, F) == [x \in D |-> IF mu[x] = n THEN step[x][Glued(F)]
                                    ELSE CHOOSE s \in S : TRUE]
<1>1. ASSUME NEW F \in [Nat -> T] PROVE Glued(F) \in T
  OBVIOUS
<1>2. ASSUME NEW n \in Nat, NEW F \in [Nat -> T] PROVE At(n, F) \in T
  <2>1. (CHOOSE s \in S : TRUE) \in S
    OBVIOUS
  <2>2. \A x \in D : step[x][Glued(F)] \in S
    BY <1>1
  <2> HIDE DEF Glued
  <2>3. QED
    BY <2>1, <2>2
<1>3. T # {}
  <2>1. PICK s : s \in S
    OBVIOUS
  <2>2. [x \in D |-> s] \in T
    BY <2>1
  <2>3. QED
    BY <2>2
<1>4. ASSUME NEW F \in [Nat -> T], NEW G \in [Nat -> T], NEW n \in Nat,
             \A m \in 0..(n - 1) : F[m] = G[m]
      PROVE  At(n, F) = At(n, G)
  <2>1. ASSUME NEW x \in D, mu[x] = n PROVE step[x][Glued(F)] = step[x][Glued(G)]
    <3>1. ASSUME NEW y \in D, mu[y] < mu[x] PROVE Glued(F)[y] = Glued(G)[y]
      <4>1. mu[y] \in 0..(n - 1)
        BY <2>1, <3>1
      <4>2. F[mu[y]] = G[mu[y]]
        BY <1>4, <4>1
      <4>3. QED
        BY <4>2
    <3>2. Glued(F) \in [D -> S] /\ Glued(G) \in [D -> S]
      BY <1>1
    <3> HIDE DEF Glued
    <3>3. QED
      BY <3>1, <3>2 DEF LooksDown
  <2> HIDE DEF Glued
  <2>2. \A x \in D : (IF mu[x] = n THEN step[x][Glued(F)] ELSE CHOOSE s \in S : TRUE)
                   = (IF mu[x] = n THEN step[x][Glued(G)] ELSE CHOOSE s \in S : TRUE)
    BY <2>1
  <2>3. QED
    BY <2>2
<1> HIDE DEF At
<1>5. \A n \in Nat, F \in [Nat -> T] : rise[n][F] = At(n, F)
  BY DEF At
<1>6. rise \in [Nat -> [[Nat -> T] -> T]]
  <2>1. rise = [n \in Nat |-> [F \in [Nat -> T] |-> At(n, F)]]
    BY DEF At
  <2> HIDE DEF rise, T
  <2>2. QED
    BY <1>2, <2>1
<1> HIDE DEF rise
<1>7. PICK F \in [Nat -> T] : \A n \in Nat : F[n] = rise[n][F]
  <2> HIDE DEF T
  <2>1. Steps(rise, T)
    BY <1>6 DEF Steps
  <2>2. Looks(rise, T)
    <3> SUFFICES ASSUME NEW G \in [Nat -> T], NEW H \in [Nat -> T], NEW n \in Nat,
                        \A m \in 0..(n - 1) : G[m] = H[m]
                 PROVE  rise[n][G] = rise[n][H]
      BY DEF Looks
    <3>1. At(n, G) = At(n, H)
      BY <1>4
    <3>2. QED
      BY <1>5, <3>1
  <2>3. Solved(rise, T)
    BY <1>3, <2>1, <2>2, Recursion
  <2>4. QED
    BY <2>3 DEF Solved
<1> DEFINE h == Glued(F)
<1>8. h \in [D -> S]
  BY <1>1
<1>9. ASSUME NEW x \in D PROVE h[x] = step[x][h]
  <2>1. mu[x] \in Nat /\ h[x] = F[mu[x]][x]
    OBVIOUS
  <2>2. F[mu[x]] = At(mu[x], F)
    BY <1>5, <1>7, <2>1
  <2>3. At(mu[x], F)[x] = step[x][Glued(F)]
    BY DEF At
  <2>4. QED
    BY <2>1, <2>2, <2>3
<1>10. QED
  <2> HIDE DEF h
  <2>1. QED
    BY <1>8, <1>9 DEF SolvedOn

-----------------------------------------------------------------------------
(* The elements of a text                                                   *)

ElementSet == [ok : BOOLEAN, tag : Byte, value : Seq(Byte), start : Nat, end : Nat]

\* e is no element, or one of raw that starts at pos.
Found(e, raw, pos) ==
    /\ e \in ElementSet
    /\ e.ok => pos + Len(e.value) < e.end /\ pos < e.end /\ e.end <= Len(raw) + 1

\* An element cut out of a text is an element of it.
LEMMA FromFound ==
  ASSUME NEW raw \in Seq(Byte), NEW pos \in 1..Len(raw), NEW start \in Nat, NEW size \in Nat,
         pos < start
  PROVE  Found(ElementFrom(raw, pos, start, size), raw, pos)
<1>0. Len(raw) \in Nat /\ \A i \in 1..Len(raw) : raw[i] \in Byte
  BY LenProperties, ElementOfSeq
<1>1. CASE start + size > Len(raw) + 1
  <2>1. ElementFrom(raw, pos, start, size) = NoElement
    BY <1>1 DEF ElementFrom
  <2>2. NoElement \in ElementSet /\ ~NoElement.ok
    BY EmptySeq DEF NoElement, ElementSet, Byte
  <2>3. QED
    BY <2>1, <2>2 DEF Found
<1>2. CASE ~(start + size > Len(raw) + 1)
  <2> DEFINE v == SubSeq(raw, start, start + size - 1)
  <2>1. v \in Seq(Byte) /\ Len(v) = size
    <3>1. \A i \in start..(start + size - 1) : raw[i] \in Byte
      BY <1>0, <1>2
    <3>2. v \in Seq(Byte) /\ Len(v) = IF start <= start + size - 1
                                  THEN (start + size - 1) - start + 1 ELSE 0
      BY <3>1, SubSeqProperties
    <3> HIDE DEF v
    <3>3. QED
      BY <3>2
  <2>2. ElementFrom(raw, pos, start, size)
          = [ok |-> TRUE, tag |-> raw[pos], start |-> start, end |-> start + size, value |-> v]
    BY <1>2 DEF ElementFrom
  <2>3. raw[pos] \in Byte /\ start + size \in Nat /\ pos < start + size
        /\ pos + size < start + size /\ start + size <= Len(raw) + 1
    BY <1>0, <1>2
  <2> HIDE DEF v
  <2>4. QED
    BY <2>1, <2>2, <2>3 DEF Found, ElementSet
<1>3. QED
  BY <1>1, <1>2

\* Octets are read as a natural number.
LEMMA FromNat ==
  ASSUME NEW s \in Seq(Nat)
  PROVE  From(0, s) \in Nat
<1>0. s \in Seq(Int) /\ Len(s) \in Nat /\ \A i \in 1..Len(s) : s[i] \in Nat
  BY Widened, LenProperties, ElementOfSeq
<1>1. PICK f : Sums(s, 0, f)
  BY <1>0, PartNumbersExist
<1>2. f[0] = 0 /\ \A i \in 1..Len(s) : f[i] = f[i - 1] * 256 + s[i]
  BY <1>1 DEF Sums
<1> DEFINE Up == {i \in Nat : i <= Len(s) => f[i] \in Nat}
<1>3. 0 \in Up
  BY <1>2
<1>4. ASSUME NEW i \in Nat, i \in Up PROVE i + 1 \in Up
  <2> SUFFICES ASSUME i + 1 <= Len(s) PROVE f[i + 1] \in Nat
    OBVIOUS
  <2>1. f[i] \in Nat /\ i + 1 \in 1..Len(s) /\ (i + 1) - 1 = i
    BY <1>0, <1>4
  <2>2. f[i + 1] = f[i] * 256 + s[i + 1] /\ s[i + 1] \in Nat
    BY <1>0, <1>2, <2>1
  <2>3. QED
    BY <2>1, <2>2
<1> HIDE DEF Up
<1>5. \A i \in Nat : i \in Up
  BY <1>3, <1>4, Induct
<1>6. f[Len(s)] \in Nat
  BY <1>0, <1>5 DEF Up
<1>7. From(0, s) = f[Len(s)]
  BY <1>0, <1>1, FromIs
<1>8. QED
  BY <1>6, <1>7

\* No element is no element, of any text.
LEMMA NothingFound ==
  ASSUME NEW raw, NEW pos
  PROVE  Found(NoElement, raw, pos)
BY EmptySeq DEF Found, NoElement, ElementSet, Byte

\* What is read at a place of a text is an element of it, or none.
LEMMA ReadFinds ==
  ASSUME NEW raw \in Seq(Byte), NEW pos \in 1..Len(raw) + 1, NEW most \in Widths
  PROVE  Found(ReadTlv(raw, pos, most), raw, pos)
<1>0. Len(raw) \in Nat /\ \A i \in 1..Len(raw) : raw[i] \in Nat
  BY LenProperties, ElementOfSeq, ByteNat, ZenonT(60)
<1> DEFINE first == raw[pos + 1]
           start == pos + first - 126
<1>1. CASE pos + 1 > Len(raw)
  <2>1. ReadTlv(raw, pos, most) = NoElement
    BY <1>1 DEF ReadTlv
  <2>2. QED
    BY <2>1, NothingFound
<1>2. CASE ~(pos + 1 > Len(raw)) /\ first < 128
  <2>1. ReadTlv(raw, pos, most) = ElementFrom(raw, pos, pos + 2, first)
    BY <1>2 DEF ReadTlv
  <2>2. pos \in 1..Len(raw) /\ pos + 2 \in Nat /\ pos < pos + 2 /\ first \in Nat
    BY <1>0, <1>2
  <2> HIDE DEF first
  <2>3. QED
    BY <2>1, <2>2, FromFound
<1>3. CASE ~(pos + 1 > Len(raw)) /\ ~(first < 128)
           /\ (first = 128 \/ first - 128 > most \/ start > Len(raw) + 1)
  <2>1. ReadTlv(raw, pos, most) = NoElement
    BY <1>3, Zenon DEF ReadTlv
  <2>2. QED
    BY <2>1, NothingFound
<1>4. CASE ~(pos + 1 > Len(raw)) /\ ~(first < 128)
           /\ ~(first = 128 \/ first - 128 > most \/ start > Len(raw) + 1)
  <2> DEFINE l == SubSeq(raw, pos + 2, start - 1)
  <2>1. ReadTlv(raw, pos, most) = ElementFrom(raw, pos, start, Unsigned(l))
    BY <1>4, Zenon DEF ReadTlv
  <2>2. first \in Nat
    BY <1>0, <1>4
  <2>3. pos \in 1..Len(raw) /\ start \in Nat /\ pos < start
    BY <1>0, <1>4, <2>2
  <2>4. l \in Seq(Nat)
    <3> DEFINE u == pos + 2
               v == start - 1
    <3>1. u \in Int /\ v \in Int /\ \A i \in u..v : raw[i] \in Nat
      BY <1>0, <1>4, <2>2
    <3> HIDE DEF u, v
    <3>2. SubSeq(raw, u, v) \in Seq(Nat)
      BY <3>1, SubSeqProperties
    <3>3. QED
      BY <3>2 DEF u, v
  <2>5. Unsigned(l) \in Nat
    <3> HIDE DEF l
    <3>1. QED
      BY <2>4, FromNat DEF Unsigned
  <2> HIDE DEF l, start
  <2>6. QED
    BY <2>1, <2>3, <2>5, FromFound
<1>5. QED
  BY <1>1, <1>2, <1>3, <1>4

\* The elements from p on: the first one and those behind it.
LEMMA ElementsAre ==
  ASSUME NEW raw \in Seq(Byte), NEW most \in Widths, NEW p \in 1..Len(raw) + 1
  PROVE  /\ Elements(raw, p, most) \in Seq(ElementSet)
         /\ ~ReadTlv(raw, p, most).ok => Elements(raw, p, most) = << >>
         /\ ReadTlv(raw, p, most).ok =>
               Elements(raw, p, most) = <<ReadTlv(raw, p, most)>>
                                          \o Elements(raw, ReadTlv(raw, p, most).end, most)
<1> DEFINE D == 1..Len(raw) + 1
           S == Seq(ElementSet)
           e(q) == ReadTlv(raw, q, most)
           Step(f, q) == IF ~e(q).ok THEN << >> ELSE <<e(q)>> \o f[e(q).end]
           Is(f) == f = [q \in D |-> Step(f, q)]
           mu == [q \in D |-> Len(raw) + 1 - q]
           step == [q \in D |-> [f \in [D -> S] |-> Step(f, q)]]
<1>0. Len(raw) \in Nat
  BY LenProperties
<1>1. ASSUME NEW q \in D
      PROVE  e(q) \in ElementSet /\ (e(q).ok => e(q).end \in D /\ q < e(q).end)
  <2>1. Found(e(q), raw, q)
    BY ReadFinds
  <2> HIDE DEF e
  <2>2. e(q) \in ElementSet /\ (e(q).ok => q < e(q).end /\ e(q).end <= Len(raw) + 1)
    BY <2>1 DEF Found
  <2>3. e(q).end \in Nat
    BY <2>2 DEF ElementSet
  <2>4. QED
    BY <1>0, <2>2, <2>3
<1>2. mu \in [D -> Nat]
  BY <1>0
<1> HIDE DEF e
<1>3. ASSUME NEW q \in D, NEW f \in [D -> S] PROVE Step(f, q) \in S
  <2>1. CASE ~e(q).ok
    BY <2>1, EmptySeq
  <2>2. CASE e(q).ok
    <3>1. <<e(q)>> \in S /\ f[e(q).end] \in S
      BY <1>1, <2>2
    <3>2. QED
      BY <2>2, <3>1, ConcatProperties
  <2>3. QED
    BY <2>1, <2>2
<1>4. ASSUME NEW q \in D, NEW f \in [D -> S], NEW g \in [D -> S],
             \A r \in D : mu[r] < mu[q] => f[r] = g[r]
      PROVE  Step(f, q) = Step(g, q)
  <2>1. CASE ~e(q).ok
    BY <2>1
  <2>2. CASE e(q).ok
    <3>1. e(q).end \in D /\ mu[e(q).end] < mu[q]
      BY <1>0, <1>1, <2>2
    <3>2. QED
      BY <1>4, <2>2, <3>1
  <2>3. QED
    BY <2>1, <2>2
<1> HIDE DEF Step, mu
<1>5. step \in [D -> [[D -> S] -> S]] /\ \A q \in D, f \in [D -> S] : step[q][f] = Step(f, q)
  BY <1>3
<1> HIDE DEF step
<1>6. LooksDown(step, D, mu, S)
  <2> HIDE DEF D, S
  <2> SUFFICES ASSUME NEW f \in [D -> S], NEW g \in [D -> S], NEW q \in D,
                      \A r \in D : mu[r] < mu[q] => f[r] = g[r]
               PROVE  step[q][f] = step[q][g]
    BY DEF LooksDown
  <2>1. QED
    BY <1>4, <1>5
<1>7. SolvedOn(step, D, S)
  <2>1. S # {}
    BY EmptySeq
  <2> HIDE DEF D, S
  <2>2. QED
    BY <1>2, <1>5, <1>6, <2>1, RecursionOn
<1>8. PICK f \in [D -> S] : \A q \in D : f[q] = step[q][f]
  BY <1>7 DEF SolvedOn
<1>9. Is(f)
  <2>1. \A q \in D : f[q] = Step(f, q)
    BY <1>5, <1>8
  <2>2. f = [q \in D |-> f[q]]
    BY <1>8
  <2>3. QED
    BY <2>1, <2>2
<1> DEFINE d == CHOOSE g : Is(g)
<1>10. Is(d)
  <2> HIDE DEF Is
  <2>1. QED
    BY <1>9
<1>11. \A q : Elements(raw, q, most) = d[q]
  BY Zenon DEF Elements, Step, e
<1> HIDE DEF d
<1>12. \A q \in D : d[q] = Step(d, q)
  BY <1>10
<1> HIDE DEF Is
<1>13. ASSUME NEW q \in D PROVE d[q] = f[q]
  <2> DEFINE Same == {n \in Nat : \A r \in D : mu[r] = n => d[r] = f[r]}
  <2>1. ASSUME NEW n \in Nat, \A m \in 0..(n - 1) : m \in Same PROVE n \in Same
    <3> SUFFICES ASSUME NEW r \in D, mu[r] = n PROVE d[r] = f[r]
      OBVIOUS
    <3>1. d[r] = Step(d, r) /\ f[r] = Step(f, r)
      BY <1>5, <1>8, <1>12
    <3>2. CASE ~e(r).ok
      BY <3>1, <3>2 DEF Step
    <3>3. CASE e(r).ok
      <4>1. e(r).end \in D /\ mu[e(r).end] \in 0..(n - 1)
        BY <1>0, <1>1, <3>3 DEF mu
      <4>2. d[e(r).end] = f[e(r).end]
        BY <2>1, <4>1
      <4>3. QED
        BY <3>1, <4>2 DEF Step
    <3>4. QED
      BY <3>2, <3>3
  <2> HIDE DEF Same
  <2>2. \A n \in Nat : n \in Same
    BY <2>1, InductBelow
  <2>3. mu[q] \in Nat
    BY <1>2
  <2>4. QED
    BY <2>2, <2>3 DEF Same
<1>14. Elements(raw, p, most) \in S /\ Elements(raw, p, most) = Step(d, p)
  BY <1>8, <1>11, <1>12, <1>13
<1>15. QED
  BY <1>11, <1>14 DEF Step, e, S

-----------------------------------------------------------------------------
(* Elements side by side                                                    *)

ItemSet == [tag : Byte, value : Seq(Byte)]
Item(tag, p) == [tag |-> tag, value |-> p]

\* The element e holds item i.
HasItem(e, i) == e.tag = i.tag /\ e.value = i.value /\ e.start = e.end - Len(i.value)

\* The elements es hold the items, and the last of them ends before end.
Like(es, items, end) ==
    /\ es \in Seq(ElementSet) /\ items \in Seq(ItemSet) /\ Len(es) = Len(items)
    /\ \A i \in 1..Len(items) : HasItem(es[i], items[i])
    /\ items # << >> => es[Len(items)].end = end

\* From pos on the items are read of raw, and then what follows from end on.
Leads(raw, pos, most, items, end) ==
    \E es : /\ Like(es, items, end)
            /\ Elements(raw, pos, most) = es \o Elements(raw, end, most)

\* Wherever x stands, the items are read of it.
Reads(x, items) ==
    /\ x \in Seq(Byte) /\ items \in Seq(ItemSet)
    /\ \A a, b \in Seq(Byte), most \in Widths :
          Leads((a \o x) \o b, Len(a) + 1, most, items, Len(a) + Len(x) + 1)

\* Of the empty text no items are read.
LEMMA ReadsNothing == Reads(<< >>, << >>)
<1> SUFFICES ASSUME NEW a \in Seq(Byte), NEW b \in Seq(Byte), NEW most \in Widths
             PROVE  Leads((a \o << >>) \o b, Len(a) + 1, most, << >>, Len(a) + Len(<< >>) + 1)
  BY EmptySeq DEF Reads
<1> DEFINE raw == a \o b
           E == Elements(raw, Len(a) + 1, most)
<1>1. a \o << >> = a /\ Len(a) + Len(<< >>) + 1 = Len(a) + 1 /\ Len(a) \in Nat
  BY LenProperties, ConcatEmptySeq
<1>2. raw \in Seq(Byte) /\ Len(a) + 1 \in 1..Len(raw) + 1
  BY Joined
<1>3. E \in Seq(ElementSet)
  <2> HIDE DEF raw
  <2>1. QED
    BY <1>2, ElementsAre
<1>4. << >> \o E = E
  <2> HIDE DEF E
  <2>1. QED
    BY <1>3, ConcatEmptySeq
<1>5. Like(<< >>, << >>, Len(a) + 1)
  BY EmptySeq DEF Like
<1>6. Leads(raw, Len(a) + 1, most, << >>, Len(a) + 1)
  BY <1>4, <1>5 DEF Leads
<1>7. QED
  BY <1>1, <1>6

\* Of one element that item is read.
LEMMA ReadsOne ==
  ASSUME NEW tag \in Byte, NEW p \in Seq(Byte), Len(p) <= Datagram
  PROVE  Reads(Tlv(tag, p), <<Item(tag, p)>>)
<1> DEFINE x == Tlv(tag, p)
           items == <<Item(tag, p)>>
<1>0. x \in Seq(Byte)
  <2>1. x = (<<tag>> \o Length(Len(p))) \o p
    BY DEF Tlv
  <2>2. <<tag>> \in Seq(Byte) /\ Length(Len(p)) \in Seq(Byte)
    BY LengthType, LenProperties
  <2>3. QED
    BY <2>1, <2>2, ConcatProperties
<1>1. Item(tag, p) \in ItemSet /\ items \in Seq(ItemSet) /\ Len(items) = 1
      /\ items[1] = Item(tag, p)
  BY DEF Item, ItemSet
<1> HIDE DEF x
<1> SUFFICES ASSUME NEW a \in Seq(Byte), NEW b \in Seq(Byte), NEW most \in Widths
             PROVE  Leads((a \o x) \o b, Len(a) + 1, most, items, Len(a) + Len(x) + 1)
  BY <1>0, <1>1 DEF Reads, x
<1> DEFINE raw == (a \o x) \o b
           pos == Len(a) + 1
           end == Len(a) + Len(x) + 1
           e == Element(tag, p, end)
<1>2. ReadTlv(raw, pos, most) = e
  BY ReadOne DEF ReadAs, x
<1>3. raw \in Seq(Byte) /\ pos \in 1..Len(raw) + 1
  <2>1. raw \in Seq(Byte) /\ Len(raw) = Len(a) + Len(x) + Len(b)
        /\ Len(a) \in Nat /\ Len(x) \in Nat /\ Len(b) \in Nat
    BY <1>0, PartOf
  <2> HIDE DEF raw
  <2>2. QED
    BY <2>1
<1> HIDE DEF raw, pos, end
<1>4. /\ ~e.ok => FALSE
      /\ e.tag = tag /\ e.value = p /\ e.start = end - Len(p) /\ e.end = end
  BY DEF Element
<1>5. e \in ElementSet
  <2>1. Found(ReadTlv(raw, pos, most), raw, pos)
    BY <1>3, ReadFinds
  <2>2. QED
    BY <1>2, <2>1 DEF Found
<1> HIDE DEF e
<1>6. Elements(raw, pos, most) = <<e>> \o Elements(raw, end, most)
  BY <1>2, <1>3, <1>4, ElementsAre
<1> DEFINE es == <<e>>
<1>7. es \in Seq(ElementSet) /\ Len(es) = 1 /\ es[1] = e
  BY <1>5
<1>8. HasItem(e, Item(tag, p))
  BY <1>4 DEF HasItem, Item
<1> HIDE DEF es, items
<1>9. Like(es, items, end)
  BY <1>1, <1>4, <1>7, <1>8 DEF Like
<1>10. Leads(raw, pos, most, items, end)
  BY <1>6, <1>9 DEF Leads, es
<1>11. QED
  BY <1>10 DEF raw, pos, end

\* Elements that hold items, followed by elements that hold others.
LEMMA LikeBoth ==
  ASSUME NEW es, NEW is, NEW mid, NEW fs, NEW js, NEW end,
         Like(es, is, mid), Like(fs, js, end), js = << >> => mid = end
  PROVE  Like(es \o fs, is \o js, end)
<1> DEFINE gs == es \o fs
           ks == is \o js
<1>1. /\ es \in Seq(ElementSet) /\ is \in Seq(ItemSet) /\ Len(es) = Len(is)
      /\ \A i \in 1..Len(is) : HasItem(es[i], is[i])
      /\ is # << >> => es[Len(is)].end = mid
  BY DEF Like
<1>2. /\ fs \in Seq(ElementSet) /\ js \in Seq(ItemSet) /\ Len(fs) = Len(js)
      /\ \A i \in 1..Len(js) : HasItem(fs[i], js[i])
      /\ js # << >> => fs[Len(js)].end = end
  BY DEF Like
<1>3. /\ gs \in Seq(ElementSet) /\ Len(gs) = Len(es) + Len(fs)
      /\ \A i \in 1..Len(es) : gs[i] = es[i]
      /\ \A i \in 1..Len(fs) : gs[Len(es) + i] = fs[i]
      /\ Len(es) \in Nat /\ Len(fs) \in Nat
  <2>1. es \in Seq(ElementSet) /\ fs \in Seq(ElementSet)
    BY <1>1, <1>2
  <2>2. QED
    BY <2>1, Joined
<1>4. /\ ks \in Seq(ItemSet) /\ Len(ks) = Len(is) + Len(js)
      /\ \A i \in 1..Len(is) : ks[i] = is[i]
      /\ \A i \in 1..Len(js) : ks[Len(is) + i] = js[i]
      /\ Len(is) \in Nat /\ Len(js) \in Nat
  BY <1>1, <1>2, Joined
<1> HIDE DEF gs, ks
<1>5. ASSUME NEW i \in 1..Len(ks) PROVE HasItem(gs[i], ks[i])
  <2>1. CASE i <= Len(is)
    <3>1. i \in 1..Len(is) /\ i \in 1..Len(es)
      BY <1>1, <1>4, <2>1
    <3>2. QED
      BY <1>1, <1>3, <1>4, <3>1
  <2>2. CASE ~(i <= Len(is))
    <3>1. PICK k \in Int : k = i - Len(is)
      <4>1. i \in Int /\ Len(is) \in Int
        BY <1>4
      <4>2. QED
        BY <4>1
    <3>2. k \in 1..Len(js) /\ k \in 1..Len(fs) /\ i = Len(is) + k
      BY <1>2, <1>4, <2>2, <3>1
    <3>3. gs[i] = fs[k] /\ ks[i] = js[k]
      BY <1>1, <1>3, <1>4, <3>2
    <3>4. QED
      BY <1>2, <3>2, <3>3
  <2>3. QED
    BY <2>1, <2>2
<1>6. ASSUME ks # << >> PROVE gs[Len(ks)].end = end
  <2>1. CASE js = << >>
    <3>1. Len(js) = 0 /\ Len(ks) = Len(is) /\ mid = end
      BY <1>4, <2>1
    <3>2. is # << >>
      <4>1. ks = is
        BY <1>1, <2>1, ConcatEmptySeq DEF ks
      <4>2. QED
        BY <1>6, <4>1
    <3>3. Len(is) \in 1..Len(es)
      <4>1. Len(is) # 0
        BY <1>1, <3>2, EmptySeq
      <4>2. QED
        BY <1>1, <1>4, <4>1
    <3>4. QED
      BY <1>1, <1>3, <3>1, <3>2, <3>3
  <2>2. CASE js # << >>
    <3>1. Len(js) # 0
      BY <1>2, <2>2, EmptySeq
    <3>2. Len(js) \in 1..Len(fs) /\ Len(ks) = Len(es) + Len(js)
      BY <1>1, <1>2, <1>4, <3>1
    <3>3. QED
      BY <1>2, <1>3, <2>2, <3>2
  <2>3. QED
    BY <2>1, <2>2
<1>7. QED
  BY <1>1, <1>2, <1>3, <1>4, <1>5, <1>6 DEF Like, gs, ks

\* Where items are read and others behind them, both are read.
LEMMA LeadsOn ==
  ASSUME NEW raw \in Seq(Byte), NEW most \in Widths, NEW is, NEW js,
         NEW pos, NEW mid, NEW end \in 1..Len(raw) + 1,
         Leads(raw, pos, most, is, mid), Leads(raw, mid, most, js, end),
         js = << >> => mid = end
  PROVE  Leads(raw, pos, most, is \o js, end)
<1>1. PICK es : Like(es, is, mid) /\ Elements(raw, pos, most) = es \o Elements(raw, mid, most)
  BY DEF Leads
<1>2. PICK fs : Like(fs, js, end) /\ Elements(raw, mid, most) = fs \o Elements(raw, end, most)
  BY DEF Leads
<1>3. Elements(raw, end, most) \in Seq(ElementSet)
  BY ElementsAre
<1>4. es \in Seq(ElementSet) /\ fs \in Seq(ElementSet)
  BY <1>1, <1>2 DEF Like
<1>5. (es \o fs) \o Elements(raw, end, most) = es \o (fs \o Elements(raw, end, most))
  BY <1>3, <1>4, ConcatAssociative
<1>6. Like(es \o fs, is \o js, end)
  BY <1>1, <1>2, LikeBoth
<1>7. Elements(raw, pos, most) = (es \o fs) \o Elements(raw, end, most)
  BY <1>1, <1>2, <1>5
<1>8. QED
  BY <1>6, <1>7 DEF Leads

\* Of two texts put together the items of both are read.
LEMMA ReadsBoth ==
  ASSUME NEW x, NEW is, NEW y, NEW js, Reads(x, is), Reads(y, js), js = << >> => y = << >>
  PROVE  Reads(x \o y, is \o js)
<1>1. x \in Seq(Byte) /\ y \in Seq(Byte) /\ is \in Seq(ItemSet) /\ js \in Seq(ItemSet)
  BY DEF Reads
<1>2. x \o y \in Seq(Byte) /\ is \o js \in Seq(ItemSet)
  BY <1>1, ConcatProperties
<1> SUFFICES ASSUME NEW a \in Seq(Byte), NEW b \in Seq(Byte), NEW most \in Widths
             PROVE  Leads((a \o (x \o y)) \o b, Len(a) + 1, most, is \o js,
                          Len(a) + Len(x \o y) + 1)
  BY <1>2 DEF Reads
<1> DEFINE raw == (a \o (x \o y)) \o b
           c == a \o x
           d == y \o b
           end == Len(a) + Len(x \o y) + 1
<1>3. c \in Seq(Byte) /\ d \in Seq(Byte) /\ Len(c) = Len(a) + Len(x)
      /\ Len(x \o y) = Len(x) + Len(y)
      /\ Len(a) \in Nat /\ Len(x) \in Nat /\ Len(y) \in Nat /\ Len(b) \in Nat
  BY <1>1, Joined
<1>4. raw = c \o d /\ raw = (c \o y) \o b
  <2>1. a \o (x \o y) = c \o y
    BY <1>1, Assoc
  <2>2. c \in Seq(Byte)
    BY <1>3
  <2> HIDE DEF c
  <2>3. (c \o y) \o b = c \o (y \o b)
    BY <1>1, <2>2, Assoc
  <2>4. QED
    BY <2>1, <2>3
<1>5. raw \in Seq(Byte) /\ end \in 1..Len(raw) + 1
      /\ Len(c) + 1 = Len(a) + Len(x) + 1 /\ Len(c) + Len(y) + 1 = end
  <2>1. raw \in Seq(Byte) /\ Len(raw) = Len(a) + Len(x \o y) + Len(b)
    BY <1>2, PartOf
  <2> HIDE DEF raw
  <2>2. QED
    BY <1>3, <2>1
<1>6. Leads(c \o d, Len(a) + 1, most, is, Len(a) + Len(x) + 1)
  <2>1. d \in Seq(Byte)
    BY <1>3
  <2>2. QED
    BY <2>1 DEF Reads
<1>7. Leads((c \o y) \o b, Len(c) + 1, most, js, Len(c) + Len(y) + 1)
  <2>1. c \in Seq(Byte)
    BY <1>3
  <2> HIDE DEF c
  <2>2. QED
    BY <2>1 DEF Reads
<1>8. js = << >> => Len(c) + 1 = end
  BY <1>3, <1>5
<1> HIDE DEF raw, c, d, end
<1>9. /\ Leads(raw, Len(a) + 1, most, is, Len(c) + 1)
      /\ Leads(raw, Len(c) + 1, most, js, end)
  BY <1>4, <1>5, <1>6, <1>7
<1>10. Leads(raw, Len(a) + 1, most, is \o js, end)
  BY <1>5, <1>8, <1>9, LeadsOn
<1>11. QED
  BY <1>10 DEF raw, end

\* At the end of a text no element is read.
LEMMA NoMore ==
  ASSUME NEW raw \in Seq(Byte), NEW most \in Widths
  PROVE  Elements(raw, Len(raw) + 1, most) = << >>
<1>1. Len(raw) \in Nat
  BY LenProperties
<1> DEFINE p == Len(raw) + 1
<1>2. p \in 1..Len(raw) + 1 /\ p + 1 > Len(raw)
  BY <1>1
<1> HIDE DEF p
<1>3. ReadTlv(raw, p, most) = NoElement
  BY <1>2 DEF ReadTlv
<1>4. ~NoElement.ok
  BY DEF NoElement
<1>5. Elements(raw, p, most) = << >>
  BY <1>2, <1>3, <1>4, ElementsAre
<1>6. QED
  BY <1>5 DEF p

\* The items of a text at the end of another.
LEMMA ReadsLast ==
  ASSUME NEW a \in Seq(Byte), NEW x, NEW items, Reads(x, items), NEW most \in Widths
  PROVE  Like(Elements(a \o x, Len(a) + 1, most), items, Len(a \o x) + 1)
<1> DEFINE raw == a \o x
           pos == Len(a) + 1
<1>1. x \in Seq(Byte) /\ raw \in Seq(Byte) /\ Len(raw) = Len(a) + Len(x)
      /\ Len(a) \in Nat /\ Len(x) \in Nat
  BY Joined DEF Reads
<1>2. Leads((a \o x) \o << >>, Len(a) + 1, most, items, Len(a) + Len(x) + 1)
  BY EmptySeq DEF Reads
<1>3. raw \o << >> = raw
  <2>1. raw \in Seq(Byte)
    BY <1>1
  <2> HIDE DEF raw
  <2>2. QED
    BY <2>1, ConcatEmptySeq
<1> HIDE DEF raw, pos
<1>4. Leads(raw, pos, most, items, Len(raw) + 1)
  BY <1>1, <1>2, <1>3 DEF raw, pos
<1>5. PICK es : Like(es, items, Len(raw) + 1)
                /\ Elements(raw, pos, most) = es \o Elements(raw, Len(raw) + 1, most)
  BY <1>4 DEF Leads
<1>6. Elements(raw, Len(raw) + 1, most) = << >>
  BY <1>1, NoMore
<1>7. es \in Seq(ElementSet)
  BY <1>5 DEF Like
<1>8. Elements(raw, pos, most) = es
  BY <1>5, <1>6, <1>7, ConcatEmptySeq
<1>9. QED
  BY <1>5, <1>8 DEF raw, pos

\* The elements of a text that nothing stands before.
LEMMA ReadsAll ==
  ASSUME NEW x, NEW items, Reads(x, items), NEW most \in Widths
  PROVE  Like(Elements(x, 1, most), items, Len(x) + 1)
<1>1. x \in Seq(Byte) /\ << >> \in Seq(Byte) /\ Len(<< >>) + 1 = 1
  BY EmptySeq DEF Reads
<1>2. << >> \o x = x
  BY <1>1, ConcatEmptySeq
<1>3. Like(Elements(<< >> \o x, Len(<< >>) + 1, most), items, Len(<< >> \o x) + 1)
  BY <1>1, ReadsLast
<1>4. QED
  BY <1>1, <1>2, <1>3

-----------------------------------------------------------------------------
(* Texts put together out of any number of parts                            *)

\* f holds the first parts, joined.
Covers(seqs, f) ==
    /\ f[0] = << >>
    /\ \A i \in 1..Len(seqs) : f[i] = f[i - 1] \o seqs[i]

\* FlattenSeq puts the parts together one by one.
LEMMA FlattenRuns ==
  ASSUME NEW A, NEW seqs \in Seq(Seq(A))
  PROVE  \E f : /\ Covers(seqs, f) /\ FlattenSeq(seqs) = f[Len(seqs)]
                /\ \A i \in 0..Len(seqs) : f[i] \in Seq(A)
<1> DEFINE N == Len(seqs)
           D == 1..N
           T == Seq(A)
           Step(f, i) == IF i = 1 THEN seqs[i] ELSE f[i - 1] \o seqs[i]
           Is(g) == g = [i \in 1..N |-> Step(g, i)]
           mu == [i \in D |-> i]
           step == [i \in D |-> [f \in [D -> T] |-> Step(f, i)]]
<1>1. N \in Nat /\ \A i \in 1..N : seqs[i] \in T
  BY LenProperties, ElementOfSeq
<1> HIDE DEF N
<1>2. ASSUME NEW f \in [D -> T], NEW i \in D PROVE Step(f, i) \in T
  <2>1. seqs[i] \in T
    BY <1>1
  <2>2. i # 1 => f[i - 1] \in T
    BY <1>1
  <2>3. QED
    BY <2>1, <2>2, ConcatProperties
<1>3. ASSUME NEW f \in [D -> T], NEW g \in [D -> T], NEW i \in D,
             \A j \in D : mu[j] < mu[i] => f[j] = g[j]
      PROVE  Step(f, i) = Step(g, i)
  <2>1. i # 1 => i - 1 \in D /\ mu[i - 1] < mu[i]
    BY <1>1
  <2>2. QED
    BY <1>3, <2>1
<1>4. mu \in [D -> Nat]
  BY <1>1
<1> HIDE DEF Step, mu
<1>5. step \in [D -> [[D -> T] -> T]] /\ \A i \in D, f \in [D -> T] : step[i][f] = Step(f, i)
  BY <1>2
<1> HIDE DEF step
<1>6. LooksDown(step, D, mu, T)
  <2> HIDE DEF D, T
  <2> SUFFICES ASSUME NEW f \in [D -> T], NEW g \in [D -> T], NEW i \in D,
                      \A j \in D : mu[j] < mu[i] => f[j] = g[j]
               PROVE  step[i][f] = step[i][g]
    BY DEF LooksDown
  <2>1. Step(f, i) = Step(g, i)
    BY <1>3
  <2>2. step[i][f] = Step(f, i) /\ step[i][g] = Step(g, i)
    BY <1>5
  <2>3. QED
    BY <2>1, <2>2
<1>7. SolvedOn(step, D, T)
  <2>1. T # {}
    BY EmptySeq
  <2> HIDE DEF D, T
  <2>2. QED
    BY <1>4, <1>5, <1>6, <2>1, RecursionOn
<1>8. PICK f \in [D -> T] : \A i \in D : f[i] = step[i][f]
  BY <1>7 DEF SolvedOn
<1>9. Is(f)
  <2>1. \A i \in D : f[i] = Step(f, i)
    BY <1>5, <1>8
  <2>2. f = [i \in D |-> f[i]]
    BY <1>8
  <2>3. QED
    BY <2>1, <2>2
<1> DEFINE d == CHOOSE g : Is(g)
<1>10. Is(d)
  <2> HIDE DEF Is
  <2>1. QED
    BY <1>9
<1>11. N # 0 => FlattenSeq(seqs) = d[N]
  BY DEF FlattenSeq, N, Step
<1> HIDE DEF d
<1>12. \A i \in 1..N : d[i] = IF i = 1 THEN seqs[i] ELSE d[i - 1] \o seqs[i]
  BY <1>10 DEF Step
<1> HIDE DEF Is
<1> DEFINE h == [i \in 0..N |-> IF i = 0 THEN << >> ELSE d[i]]
<1>13. h[0] = << >> /\ \A i \in 1..N : h[i] = d[i] /\ (i # 1 => h[i - 1] = d[i - 1])
  BY <1>1
<1> HIDE DEF h
<1>14. ASSUME NEW i \in 1..N PROVE h[i] = h[i - 1] \o seqs[i]
  <2>1. CASE i = 1
    <3>1. << >> \o seqs[i] = seqs[i]
      BY <1>1, ConcatEmptySeq
    <3>2. h[i] = seqs[i] /\ i - 1 = 0
      BY <1>12, <1>13, <2>1
    <3>3. QED
      BY <1>13, <3>1, <3>2
  <2>2. CASE i # 1
    BY <1>12, <1>13, <2>2
  <2>3. QED
    BY <2>1, <2>2
<1>15. FlattenSeq(seqs) = h[N]
  <2>1. CASE N = 0
    <3>1. seqs = << >>
      BY <2>1, EmptySeq DEF N
    <3>2. QED
      BY <1>13, <2>1, <3>1 DEF FlattenSeq, N
  <2>2. CASE N # 0
    BY <1>1, <1>11, <1>13, <2>2
  <2>3. QED
    BY <2>1, <2>2
<1>16. \A i \in 0..N : h[i] \in T
  <2> DEFINE Typed == {i \in Nat : i <= N => h[i] \in T}
  <2>1. 0 \in Typed
    BY <1>13, EmptySeq
  <2>2. ASSUME NEW i \in Nat, i \in Typed PROVE i + 1 \in Typed
    <3> SUFFICES ASSUME i + 1 <= N PROVE h[i + 1] \in T
      OBVIOUS
    <3>1. i + 1 \in 1..N /\ (i + 1) - 1 = i /\ h[i] \in T
      BY <1>1, <2>2
    <3>2. h[i + 1] = h[i] \o seqs[i + 1] /\ seqs[i + 1] \in T
      BY <1>1, <1>14, <3>1
    <3>3. QED
      BY <3>1, <3>2, ConcatProperties
  <2> HIDE DEF Typed
  <2>3. \A i \in Nat : i \in Typed
    BY <2>1, <2>2, Induct
  <2>4. QED
    BY <1>1, <2>3 DEF Typed
<1>17. QED
  BY <1>13, <1>14, <1>15, <1>16 DEF Covers, N

-----------------------------------------------------------------------------
(* What is built out of parts that fit                                      *)

FitItem == [tag : Byte, value : Fit]

\* The items are read of x if it fits into a datagram.
Told(x, items) ==
    /\ x \in Fit /\ items \in Seq(FitItem)
    /\ Len(x) <= Datagram => Reads(x, items)

\* The empty text tells nothing.
LEMMA ToldNothing == Told(<< >>, << >>)
  BY NothingFits, ReadsNothing, EmptySeq DEF Told

\* An element is longer than its value.
LEMMA TlvLonger ==
  ASSUME NEW tag \in Byte, NEW p \in Fit
  PROVE  Len(p) \in Nat /\ Len(Tlv(tag, p)) \in Nat /\ Len(p) + 2 <= Len(Tlv(tag, p))
<1> DEFINE l == Length(Len(p))
<1>1. p \in Seq(Nat) /\ Len(p) \in Nat /\ l \in Seq(Nat) /\ Len(l) \in Nat
  BY LengthType, LenProperties DEF Fit
<1>2. Len(l) # 0
  <2>1. CASE Len(p) < 128
    BY <2>1 DEF Length
  <2>2. CASE ~(Len(p) < 128)
    <3> DEFINE d == Digits(Len(p), 256)
               y == <<128 + Len(d)>>
    <3>1. d \in Seq(Nat) /\ Len(d) \in Nat
      BY <1>1, OctetDigits
    <3>2. y \in Seq(Nat) /\ Len(y) = 1
      BY <3>1
    <3>3. l = y \o d
      BY <2>2 DEF Length
    <3> HIDE DEF y, d, l
    <3>4. Len(y \o d) = Len(y) + Len(d)
      BY <3>1, <3>2, ConcatProperties
    <3>5. QED
      BY <3>1, <3>2, <3>3, <3>4
  <2>3. QED
    BY <2>1, <2>2
<1> HIDE DEF l
<1>3. <<tag>> \in Seq(Nat) /\ Len(<<tag>>) = 1
  BY ByteNat
<1>4. <<tag>> \o l \in Seq(Nat) /\ Len(<<tag>> \o l) = 1 + Len(l)
  BY <1>1, <1>3, ConcatProperties
<1>5. Len(Tlv(tag, p)) = 1 + Len(l) + Len(p)
  BY <1>1, <1>4, ConcatProperties DEF Tlv, l
<1>6. QED
  BY <1>1, <1>2, <1>5

\* One element tells its item.
LEMMA ToldOne ==
  ASSUME NEW tag \in Byte, NEW p \in Fit
  PROVE  Told(Tlv(tag, p), <<Item(tag, p)>>)
<1>1. Tlv(tag, p) \in Fit
  BY TlvFits
<1>2. <<Item(tag, p)>> \in Seq(FitItem)
  <2>1. Item(tag, p) \in FitItem
    BY DEF Item, FitItem
  <2>2. QED
    BY <2>1
<1>3. ASSUME Len(Tlv(tag, p)) <= Datagram PROVE Reads(Tlv(tag, p), <<Item(tag, p)>>)
  <2>1. Len(p) <= Datagram
    BY <1>3, TlvLonger DEF Datagram
  <2>2. p \in Seq(Byte)
    BY <2>1 DEF Fit
  <2>3. QED
    BY <2>1, <2>2, ReadsOne
<1>4. QED
  BY <1>1, <1>2, <1>3 DEF Told

\* Two texts put together tell the items of both.
LEMMA ToldBoth ==
  ASSUME NEW x, NEW is, NEW y, NEW js, Told(x, is), Told(y, js), js = << >> => y = << >>
  PROVE  Told(x \o y, is \o js)
<1>1. x \in Fit /\ y \in Fit /\ is \in Seq(FitItem) /\ js \in Seq(FitItem)
  BY DEF Told
<1>2. x \o y \in Fit /\ is \o js \in Seq(FitItem)
  BY <1>1, BothFit, ConcatProperties
<1>3. ASSUME Len(x \o y) <= Datagram PROVE Reads(x \o y, is \o js)
  <2>1. x \in Seq(Nat) /\ y \in Seq(Nat)
    BY <1>1 DEF Fit
  <2>2. Len(x \o y) = Len(x) + Len(y) /\ Len(x) \in Nat /\ Len(y) \in Nat
    BY <2>1, Joined
  <2>3. Len(x) <= Datagram /\ Len(y) <= Datagram
    BY <1>3, <2>2 DEF Datagram
  <2>4. Reads(x, is) /\ Reads(y, js)
    BY <2>3 DEF Told
  <2>5. QED
    BY <2>4, ReadsBoth
<1>4. QED
  BY <1>2, <1>3 DEF Told

\* Texts that tell an item each tell, put together, all of them.
LEMMA ToldFlat ==
  ASSUME NEW xs \in Seq(Fit), NEW items \in Seq(FitItem), Len(xs) = Len(items),
         \A i \in 1..Len(items) : Told(xs[i], <<items[i]>>)
  PROVE  Told(FlattenSeq(xs), items)
<1> DEFINE N == Len(items)
<1>0. N \in Nat /\ \A i \in 1..N : items[i] \in FitItem
  BY LenProperties, ElementOfSeq
<1>1. PICK f : Covers(xs, f) /\ FlattenSeq(xs) = f[Len(xs)]
  <2>1. Fit \subseteq Seq(Nat)
    BY DEF Fit
  <2>2. xs \in Seq(Seq(Nat))
    BY <2>1, SeqMonotonic
  <2>3. QED
    BY <2>2, FlattenRuns
<1>2. f[0] = << >> /\ \A i \in 1..N : f[i] = f[i - 1] \o xs[i]
  BY <1>1 DEF Covers
<1> HIDE DEF N
<1> DEFINE Part(js, n) ==
              /\ js \in Seq(FitItem) /\ Len(js) = n /\ \A i \in 1..n : js[i] = items[i]
              /\ Told(f[n], js)
           Ready == {n \in Nat : n <= N => \E js : Part(js, n)}
<1>3. 0 \in Ready
  <2>1. Part(<< >>, 0)
    BY <1>2, ToldNothing, EmptySeq
  <2>2. QED
    BY <2>1
<1>4. ASSUME NEW n \in Nat, n \in Ready PROVE n + 1 \in Ready
  <2> SUFFICES ASSUME n + 1 <= N PROVE \E js : Part(js, n + 1)
    OBVIOUS
  <2> HIDE DEF Part
  <2>1. PICK js : Part(js, n)
    BY <1>0, <1>4
  <2>2. /\ js \in Seq(FitItem) /\ Len(js) = n /\ \A i \in 1..n : js[i] = items[i]
        /\ Told(f[n], js)
    BY <2>1 DEF Part
  <2> DEFINE one == <<items[n + 1]>>
             ks == js \o one
  <2>3. n + 1 \in 1..N /\ (n + 1) - 1 = n /\ items[n + 1] \in FitItem
    BY <1>0
  <2>4. one \in Seq(FitItem) /\ Len(one) = 1 /\ one[1] = items[n + 1] /\ one # << >>
    BY <2>3
  <2>5. Told(xs[n + 1], one) /\ f[n + 1] = f[n] \o xs[n + 1]
    BY <1>2, <2>3 DEF N
  <2> HIDE DEF one
  <2>6. Told(f[n + 1], ks)
    BY <2>2, <2>4, <2>5, ToldBoth
  <2>7. /\ ks \in Seq(FitItem) /\ Len(ks) = Len(js) + Len(one)
        /\ \A i \in 1..Len(js) : ks[i] = js[i]
        /\ \A i \in 1..Len(one) : ks[Len(js) + i] = one[i]
    <3>1. js \in Seq(FitItem) /\ one \in Seq(FitItem)
      BY <2>2, <2>4
    <3>2. QED
      BY <3>1, Joined
  <2> HIDE DEF ks
  <2>8. ASSUME NEW i \in 1..(n + 1) PROVE ks[i] = items[i]
    <3>1. i \in 1..n \/ i = n + 1
      OBVIOUS
    <3>2. QED
      BY <2>2, <2>4, <2>7, <3>1
  <2>9. Part(ks, n + 1)
    BY <2>2, <2>4, <2>6, <2>7, <2>8 DEF Part
  <2>10. QED
    BY <2>9
<1> HIDE DEF Ready
<1>5. \A n \in Nat : n \in Ready
  BY <1>3, <1>4, Induct
<1>6. PICK js : Part(js, N)
  BY <1>0, <1>5 DEF Ready
<1>7. js = items
  <2>1. js \in Seq(FitItem) /\ Len(js) = Len(items) /\ \A i \in 1..Len(items) : js[i] = items[i]
    BY <1>6 DEF N
  <2>2. QED
    BY <2>1, SeqEqual
<1>8. QED
  BY <1>1, <1>6, <1>7 DEF N

-----------------------------------------------------------------------------
(* Texts are read as they were written                                      *)

\* The octets of raw from p on begin with those of s.
Stands(raw, p, s) ==
    /\ p \in 1..Len(raw) /\ p + Len(s) <= Len(raw) + 1
    /\ \A i \in 1..Len(s) : raw[p + (i - 1)] = s[i]

ReadsAs(raw, p, c, n) == CharacterAt(raw, p) = c /\ Taken(raw, p) = n

\* The bits of a number, six by six.
LEMMA Sixes ==
  ASSUME NEW c \in Nat
  PROVE  /\ Low(c) \in 128..191 /\ c \div 64 \in Nat
         /\ c = (c \div 64) * 64 + (Low(c) - 128)
         /\ c \div 64 = (c \div 4096) * 64 + (Low(c \div 64) - 128)
         /\ c \div 4096 = (c \div 262144) * 64 + (Low(c \div 4096) - 128)
<1>1. /\ c % 64 \in 0..63 /\ (c \div 64) % 64 \in 0..63 /\ (c \div 4096) % 64 \in 0..63
      /\ c \div 64 \in Nat
  OBVIOUS
<1>2. c = (c \div 64) * 64 + (c % 64)
  OBVIOUS
<1>3. c \div 64 = (c \div 4096) * 64 + ((c \div 64) % 64)
  OBVIOUS
<1>4. c \div 4096 = (c \div 262144) * 64 + ((c \div 4096) % 64)
  OBVIOUS
<1>5. \A n \in Nat : Low(n) = 128 + (n % 64)
  BY DEF Low
<1>6. c \div 4096 \in Nat
  OBVIOUS
<1>7. /\ Low(c) = 128 + (c % 64) /\ Low(c \div 64) = 128 + ((c \div 64) % 64)
      /\ Low(c \div 4096) = 128 + ((c \div 4096) % 64)
  BY <1>1, <1>5, <1>6
<1>8. \A x \in 0..63 : (128 + x) - 128 = x /\ 128 + x \in 128..191
  OBVIOUS
<1>9. QED
  BY <1>1, <1>2, <1>3, <1>4, <1>7, <1>8

\* The number of which bits are what its octets of two, three and four carry, where
\* the second octet is none of the first one's that another form would have.
Two(c, a, b) == c = a * 64 + (b - 128)
Three(c, a, b, d) ==
    /\ c = (a * 64 + (b - 128)) * 64 + (d - 128)
    /\ (a = 0 => b >= 160) /\ (a = 13 => b <= 159)
Four(c, a, b, d, e) ==
    /\ c = ((a * 64 + (b - 128)) * 64 + (d - 128)) * 64 + (e - 128)
    /\ (a = 0 => b >= 144) /\ (a = 4 => b <= 143)

\* One octet is its own character.
LEMMA OneOctetRead ==
  ASSUME NEW raw, NEW p, NEW c \in Nat, c < 128, raw[p] = c
  PROVE  ReadsAs(raw, p, c, 1)
<1>1. Wanted(raw[p]) = 1
  BY DEF Wanted
<1>2. ~Belong(raw, p, 4) /\ ~Belong(raw, p, 3) /\ ~Belong(raw, p, 2)
  BY <1>1 DEF Belong
<1>3. Taken(raw, p) = 1
  BY <1>2 DEF Taken
<1>4. CharacterOf(raw, p, 1) = c
  BY DEF CharacterOf
<1>5. QED
  BY <1>1, <1>3, <1>4 DEF ReadsAs, CharacterAt

\* Two octets.
LEMMA TwoOctetsRead ==
  ASSUME NEW raw \in Seq(Byte), NEW p \in Nat, NEW c \in Nat, NEW a \in 2..31, NEW b \in 128..191,
         p + 1 <= Len(raw), raw[p] = 192 + a, raw[p + 1] = b, Two(c, a, b)
  PROVE  ReadsAs(raw, p, c, 2)
<1>0. Len(raw) \in Nat
  BY LenProperties
<1>1. Wanted(raw[p]) = 2 /\ raw[p + 1] \in Second(raw[p])
  BY DEF Wanted, Second
<1>2. ~Belong(raw, p, 4) /\ ~Belong(raw, p, 3)
  BY <1>1 DEF Belong
<1>3. Belong(raw, p, 2)
  <2>1. 2 <= Wanted(raw[p]) /\ p + 2 - 1 <= Len(raw)
    BY <1>0, <1>1
  <2>2. \A i \in 2..2 - 1 : raw[p + i] \in 128..191
    OBVIOUS
  <2>3. QED
    BY <1>1, <2>1, <2>2 DEF Belong
<1>4. Taken(raw, p) = 2
  BY <1>2, <1>3 DEF Taken
<1>5. CharacterOf(raw, p, 2) = c
  BY DEF CharacterOf, Six, Two, Three, Four
<1>6. QED
  BY <1>1, <1>4, <1>5 DEF ReadsAs, CharacterAt

\* Three.
LEMMA ThreeOctetsRead ==
  ASSUME NEW raw \in Seq(Byte), NEW p \in Nat, NEW c \in Nat, NEW a \in 0..15,
         NEW b \in 128..191, NEW d \in 128..191,
         p + 2 <= Len(raw), raw[p] = 224 + a, raw[p + 1] = b, raw[p + 2] = d,
         Three(c, a, b, d)
  PROVE  ReadsAs(raw, p, c, 3)
<1>0. Len(raw) \in Nat
  BY LenProperties
<1>1. Wanted(raw[p]) = 3 /\ raw[p + 1] \in Second(raw[p])
  BY DEF Wanted, Second, Three
<1>2. ~Belong(raw, p, 4)
  BY <1>1 DEF Belong
<1>3. Belong(raw, p, 3)
  <2>1. \A i \in 2..3 - 1 : raw[p + i] \in 128..191
    <3>1. \A i \in 2..3 - 1 : i = 2
      OBVIOUS
    <3>2. QED
      BY <3>1
  <2>2. 3 <= Wanted(raw[p]) /\ p + 3 - 1 <= Len(raw)
    BY <1>0, <1>1
  <2>3. QED
    BY <1>1, <2>1, <2>2 DEF Belong
<1>4. Taken(raw, p) = 3
  BY <1>2, <1>3 DEF Taken
<1>5. CharacterOf(raw, p, 3) = c
  BY DEF CharacterOf, Six, Two, Three, Four
<1>6. QED
  BY <1>1, <1>4, <1>5 DEF ReadsAs, CharacterAt

\* Four.
LEMMA FourOctetsRead ==
  ASSUME NEW raw \in Seq(Byte), NEW p \in Nat, NEW c \in Nat, NEW a \in 0..4,
         NEW b \in 128..191, NEW d \in 128..191, NEW e \in 128..191,
         p + 3 <= Len(raw), raw[p] = 240 + a, raw[p + 1] = b, raw[p + 2] = d, raw[p + 3] = e,
         Four(c, a, b, d, e)
  PROVE  ReadsAs(raw, p, c, 4)
<1>0. Len(raw) \in Nat
  BY LenProperties
<1>1. Wanted(raw[p]) = 4 /\ raw[p + 1] \in Second(raw[p])
  BY DEF Wanted, Second, Four
<1>3. Belong(raw, p, 4)
  <2>1. \A i \in 2..4 - 1 : raw[p + i] \in 128..191
    <3>1. \A i \in 2..4 - 1 : i = 2 \/ i = 3
      OBVIOUS
    <3>2. QED
      BY <3>1
  <2>2. 4 <= Wanted(raw[p]) /\ p + 4 - 1 <= Len(raw)
    BY <1>0, <1>1
  <2>3. QED
    BY <1>1, <2>1, <2>2 DEF Belong
<1>4. Taken(raw, p) = 4
  BY <1>3 DEF Taken
<1>5. CharacterOf(raw, p, 4) = c
  BY DEF CharacterOf, Six, Two, Three, Four
<1>6. QED
  BY <1>1, <1>4, <1>5 DEF ReadsAs, CharacterAt


\* The four forms of a character.
Form1(c, u) == c < 128 /\ u = <<c>>
Form2(c, u) == \E a \in 2..31, b \in 128..191 : u = <<192 + a, b>> /\ Two(c, a, b)
Form3(c, u) ==
    \E a \in 0..15, b \in 128..191, d \in 128..191 : u = <<224 + a, b, d>> /\ Three(c, a, b, d)
Form4(c, u) ==
    \E a \in 0..4, b \in 128..191, d \in 128..191, e \in 128..191 :
        u = <<240 + a, b, d, e>> /\ Four(c, a, b, d, e)

\* The numbers that take two, three and four octets.
Takes2(c) == ~(c < 128) /\ c < 2048
Takes3(c) == ~(c < 2048) /\ c < 65536 /\ (c < 55296 \/ c >= 57344)
Takes4(c) == ~(c < 65536) /\ c < 1114112

\* The bits of the first octet, of two octets, three and four.
LEMMA SecondForm ==
  ASSUME NEW c \in Nat, NEW q1 \in Nat, NEW l0 \in 128..191, Two(c, q1, l0), Takes2(c)
  PROVE  q1 \in 2..31
  BY SMT DEF Two, Takes2

LEMMA ThirdForm ==
  ASSUME NEW c \in Nat, NEW q1 \in Nat, NEW q2 \in Nat, NEW l0 \in 128..191,
         NEW l1 \in 128..191, Two(c, q1, l0), Two(q1, q2, l1), Takes3(c)
  PROVE  q2 \in 0..15 /\ Three(c, q2, l1, l0)
<1>1. q2 \in 0..15
  BY SMT DEF Two, Takes3
<1>2. (q2 = 0 => l1 >= 160) /\ (q2 = 13 => l1 <= 159)
  BY SMT DEF Two, Takes3
<1>3. c = (q2 * 64 + (l1 - 128)) * 64 + (l0 - 128)
  BY SMT DEF Two
<1>4. QED
  BY <1>1, <1>2, <1>3 DEF Three

LEMMA FourthForm ==
  ASSUME NEW c \in Nat, NEW q1 \in Nat, NEW q2 \in Nat, NEW q3 \in Nat, NEW l0 \in 128..191,
         NEW l1 \in 128..191, NEW l2 \in 128..191, Two(c, q1, l0), Two(q1, q2, l1),
         Two(q2, q3, l2), Takes4(c)
  PROVE  q3 \in 0..4 /\ Four(c, q3, l2, l1, l0)
<1>1. q3 \in 0..4
  BY SMT DEF Two, Takes4
<1>2. (q3 = 0 => l2 >= 144) /\ (q3 = 4 => l2 <= 143)
  BY SMT DEF Two, Takes4
<1>3. c = ((q3 * 64 + (l2 - 128)) * 64 + (l1 - 128)) * 64 + (l0 - 128)
  BY SMT DEF Two
<1>4. QED
  BY <1>1, <1>2, <1>3 DEF Four

\* A character has the form of its number.
LEMMA Utf8Forms ==
  ASSUME NEW c \in Nat, Character(c)
  PROVE  \/ Form1(c, Utf8Of(c)) \/ Form2(c, Utf8Of(c))
         \/ Form3(c, Utf8Of(c)) \/ Form4(c, Utf8Of(c))
<1> DEFINE u == Utf8Of(c)
           q1 == c \div 64
           q2 == c \div 4096
           q3 == c \div 262144
           l0 == Low(c)
           l1 == Low(q1)
           l2 == Low(q2)
<1>1. /\ l0 \in 128..191 /\ l1 \in 128..191 /\ l2 \in 128..191
      /\ q1 \in Nat /\ q2 \in Nat /\ q3 \in Nat
  <2>1. q1 \in Nat /\ q2 \in Nat /\ q3 \in Nat
    BY SMT
  <2>2. l0 \in 128..191 /\ l1 \in 128..191 /\ l2 \in 128..191
    BY <2>1, Sixes, SMT
  <2>3. QED
    BY <2>1, <2>2, SMT
<1>2. Two(c, q1, l0) /\ Two(q1, q2, l1) /\ Two(q2, q3, l2)
  BY Sixes, SMT DEF Two
<1>3. /\ c < 128 => u = <<c>>
      /\ Takes2(c) => u = <<192 + q1, l0>>
      /\ Takes3(c) => u = <<224 + q2, l1, l0>>
      /\ Takes4(c) => u = <<240 + q3, l2, l1, l0>>
  BY SMT DEF Utf8Of, Takes2, Takes3, Takes4
<1>4. c < 128 \/ Takes2(c) \/ Takes3(c) \/ Takes4(c)
  BY SMT DEF Character, Takes2, Takes3, Takes4
<1> HIDE DEF u, q1, q2, q3, l0, l1, l2
<1>5. ASSUME c < 128 PROVE Form1(c, u)
  BY <1>3, <1>5 DEF Form1
<1>6. ASSUME Takes2(c) PROVE Form2(c, u)
  <2>1. q1 \in 2..31
    BY <1>1, <1>2, <1>6, SecondForm
  <2>2. QED
    BY <1>1, <1>2, <1>3, <1>6, <2>1 DEF Form2
<1>7. ASSUME Takes3(c) PROVE Form3(c, u)
  <2>1. q2 \in 0..15 /\ Three(c, q2, l1, l0)
    BY <1>1, <1>2, <1>7, ThirdForm
  <2>2. QED
    BY <1>1, <1>3, <1>7, <2>1 DEF Form3
<1>8. ASSUME Takes4(c) PROVE Form4(c, u)
  <2>1. q3 \in 0..4 /\ Four(c, q3, l2, l1, l0)
    BY <1>1, <1>2, <1>8, FourthForm
  <2>2. QED
    BY <1>1, <1>3, <1>8, <2>1 DEF Form4
<1>9. QED
  BY <1>4, <1>5, <1>6, <1>7, <1>8 DEF u

\* A character is read of its octets wherever they stand.
LEMMA CharacterRead ==
  ASSUME NEW raw \in Seq(Byte), NEW p \in Nat, NEW c \in Nat, Character(c),
         Stands(raw, p, Utf8Of(c))
  PROVE  ReadsAs(raw, p, c, Len(Utf8Of(c)))
<1> DEFINE u == Utf8Of(c)
<1>0. /\ Len(raw) \in Nat /\ p + Len(u) <= Len(raw) + 1
      /\ \A i \in 1..Len(u) : raw[p + (i - 1)] = u[i]
  BY LenProperties DEF Stands
<1>1. Form1(c, u) \/ Form2(c, u) \/ Form3(c, u) \/ Form4(c, u)
  BY Utf8Forms
<1> HIDE DEF u
<1>2. \A n \in 1..4 : Len(u) = n => \A i \in 1..n : raw[p + (i - 1)] = u[i]
  BY <1>0
<1>3. CASE Form1(c, u)
  <2>1. c < 128 /\ Len(u) = 1 /\ u[1] = c
    BY <1>3 DEF Form1
  <2>2. raw[p] = c
    BY <1>2, <2>1
  <2>3. QED
    BY <2>1, <2>2, OneOctetRead DEF u
<1>4. CASE Form2(c, u)
  <2>1. PICK a \in 2..31, b \in 128..191 : u = <<192 + a, b>> /\ Two(c, a, b)
    BY <1>4 DEF Form2
  <2>2. Len(u) = 2 /\ u[1] = 192 + a /\ u[2] = b
    BY <2>1
  <2>3. raw[p] = 192 + a /\ raw[p + 1] = b /\ p + 1 <= Len(raw)
    BY <1>0, <1>2, <2>2
  <2>4. ReadsAs(raw, p, c, 2)
    BY <2>1, <2>3, TwoOctetsRead
  <2>5. QED
    BY <2>2, <2>4 DEF u
<1>5. CASE Form3(c, u)
  <2>1. PICK a \in 0..15, b \in 128..191, d \in 128..191 :
            u = <<224 + a, b, d>> /\ Three(c, a, b, d)
    BY <1>5 DEF Form3
  <2>2. Len(u) = 3 /\ u[1] = 224 + a /\ u[2] = b /\ u[3] = d
    BY <2>1
  <2>3. raw[p] = 224 + a /\ raw[p + 1] = b /\ raw[p + 2] = d /\ p + 2 <= Len(raw)
    BY <1>0, <1>2, <2>2
  <2>4. ReadsAs(raw, p, c, 3)
    BY <2>1, <2>3, ThreeOctetsRead
  <2>5. QED
    BY <2>2, <2>4 DEF u
<1>6. CASE Form4(c, u)
  <2>1. PICK a \in 0..4, b \in 128..191, d \in 128..191, e \in 128..191 :
            u = <<240 + a, b, d, e>> /\ Four(c, a, b, d, e)
    BY <1>6 DEF Form4
  <2>2. Len(u) = 4 /\ u[1] = 240 + a /\ u[2] = b /\ u[3] = d /\ u[4] = e
    BY <2>1
  <2>3. /\ raw[p] = 240 + a /\ raw[p + 1] = b /\ raw[p + 2] = d /\ raw[p + 3] = e
        /\ p + 3 <= Len(raw)
    BY <1>0, <1>2, <2>2
  <2>4. ReadsAs(raw, p, c, 4)
    BY <2>1, <2>3, FourOctetsRead
  <2>5. QED
    BY <2>2, <2>4 DEF u
<1>7. QED
  BY <1>1, <1>3, <1>4, <1>5, <1>6


-----------------------------------------------------------------------------
(* Decoding                                                                 *)

\* w[p] are the characters of raw from p on.
Decodes(w, raw) ==
    /\ w[Len(raw) + 1] = << >>
    /\ \A p \in 1..Len(raw) : w[p] = <<CharacterAt(raw, p)>> \o w[p + Taken(raw, p)]

LEMMA SixType == ASSUME NEW x \in Int, NEW y \in Int PROVE Six(x, y) \in Int
  BY DEF Six

\* Some octets are taken, and no more than there are.
LEMMA TakenSome ==
  ASSUME NEW raw \in Seq(Byte), NEW p \in 1..Len(raw)
  PROVE  /\ Taken(raw, p) \in 1..4 /\ p + Taken(raw, p) <= Len(raw) + 1
         /\ CharacterAt(raw, p) \in Int
<1>0. Len(raw) \in Nat /\ \A i \in 1..Len(raw) : raw[i] \in Nat
  BY LenProperties, ElementOfSeq, ByteNat, ZenonT(60)
<1>1. \A n \in 2..4 : Belong(raw, p, n) =>
         p + n <= Len(raw) + 1 /\ \A i \in 1..n - 1 : raw[p + i] \in Nat
  BY <1>0 DEF Belong
<1>2. Taken(raw, p) = 1 \/ (Taken(raw, p) \in 2..4 /\ Belong(raw, p, Taken(raw, p)))
  BY DEF Taken
<1> DEFINE n == Taken(raw, p)
<1>3. n \in 1..4 /\ p + n <= Len(raw) + 1 /\ raw[p] \in Nat
      /\ \A i \in 1..n - 1 : raw[p + i] \in Nat
  <2> HIDE DEF n
  <2>1. CASE n = 1
    BY <1>0, <2>1
  <2>2. CASE n \in 2..4 /\ Belong(raw, p, n)
    BY <1>0, <1>1, <2>2
  <2>3. QED
    BY <1>2, <2>1, <2>2 DEF n
<1> HIDE DEF n
<1>4. CharacterOf(raw, p, n) \in Int
  <2>1. /\ n >= 2 => raw[p + 1] \in Nat
        /\ n >= 3 => raw[p + 2] \in Nat
        /\ n >= 4 => raw[p + 3] \in Nat
    BY <1>3
  <2>2. \A x, y \in Int : Six(x, y) \in Int
    BY SixType
  <2>3. CASE n = 1
    BY <1>3, <2>3 DEF CharacterOf
  <2>4. CASE n = 2
    <3>1. CharacterOf(raw, p, n) = Six(raw[p] - 192, raw[p + 1])
      BY <2>4 DEF CharacterOf
    <3>2. raw[p] - 192 \in Int /\ raw[p + 1] \in Int
      BY <1>3, <2>1, <2>4
    <3>3. QED
      BY <2>2, <3>1, <3>2
  <2>5. CASE n = 3
    <3>1. CharacterOf(raw, p, n) = Six(Six(raw[p] - 224, raw[p + 1]), raw[p + 2])
      BY <2>5 DEF CharacterOf
    <3>2. raw[p] - 224 \in Int /\ raw[p + 1] \in Int /\ raw[p + 2] \in Int
      BY <1>3, <2>1, <2>5
    <3>3. Six(raw[p] - 224, raw[p + 1]) \in Int
      BY <2>2, <3>2
    <3>4. Six(Six(raw[p] - 224, raw[p + 1]), raw[p + 2]) \in Int
      BY <3>2, <3>3, SixType
    <3>5. QED
      BY <3>1, <3>4
  <2>6. CASE n = 4
    <3>1. CharacterOf(raw, p, n)
            = Six(Six(Six(raw[p] - 240, raw[p + 1]), raw[p + 2]), raw[p + 3])
      BY <2>6 DEF CharacterOf
    <3>2. /\ raw[p] - 240 \in Int /\ raw[p + 1] \in Int /\ raw[p + 2] \in Int
          /\ raw[p + 3] \in Int
      BY <1>3, <2>1, <2>6
    <3>3. Six(raw[p] - 240, raw[p + 1]) \in Int
      BY <2>2, <3>2
    <3>4. Six(Six(raw[p] - 240, raw[p + 1]), raw[p + 2]) \in Int
      BY <3>2, <3>3, SixType
    <3>5. Six(Six(Six(raw[p] - 240, raw[p + 1]), raw[p + 2]), raw[p + 3]) \in Int
      BY <3>2, <3>4, SixType
    <3>6. QED
      BY <3>1, <3>5
  <2>7. QED
    BY <1>3, <2>3, <2>4, <2>5, <2>6
<1>5. Replacement \in Int
  BY SMT DEF Replacement
<1>6. QED
  BY <1>3, <1>4, <1>5 DEF CharacterAt, n

\* Octets are decoded from the first one on.
LEMMA Decoded ==
  ASSUME NEW raw \in Seq(Byte)
  PROVE  \E w : Decodes(w, raw) /\ Characters(raw) = w[1]
<1> DEFINE D == 1..Len(raw) + 1
           S == Seq(Int)
           c(q) == CharacterAt(raw, q)
           e(q) == q + Taken(raw, q)
           Step(f, q) == IF q = Len(raw) + 1 THEN << >> ELSE <<c(q)>> \o f[e(q)]
           Is(f) == f = [q \in D |-> Step(f, q)]
           mu == [q \in D |-> Len(raw) + 1 - q]
           step == [q \in D |-> [f \in [D -> S] |-> Step(f, q)]]
<1>0. Len(raw) \in Nat
  BY LenProperties
<1>1. ASSUME NEW q \in D, q # Len(raw) + 1 PROVE c(q) \in Int /\ e(q) \in D /\ q < e(q)
  <2>1. q \in 1..Len(raw)
    BY <1>0, <1>1
  <2>2. Taken(raw, q) \in 1..4 /\ q + Taken(raw, q) <= Len(raw) + 1 /\ c(q) \in Int
    BY <2>1, TakenSome
  <2>3. QED
    BY <1>0, <2>1, <2>2
<1>2. mu \in [D -> Nat]
  BY <1>0
<1> HIDE DEF c, e
<1>3. ASSUME NEW q \in D, NEW f \in [D -> S] PROVE Step(f, q) \in S
  <2>1. CASE q = Len(raw) + 1
    BY <2>1, EmptySeq
  <2>2. CASE q # Len(raw) + 1
    <3>1. <<c(q)>> \in S /\ f[e(q)] \in S
      BY <1>1, <2>2
    <3>2. QED
      BY <2>2, <3>1, ConcatProperties
  <2>3. QED
    BY <2>1, <2>2
<1>4. ASSUME NEW q \in D, NEW f \in [D -> S], NEW g \in [D -> S],
             \A r \in D : mu[r] < mu[q] => f[r] = g[r]
      PROVE  Step(f, q) = Step(g, q)
  <2>1. CASE q = Len(raw) + 1
    BY <2>1
  <2>2. CASE q # Len(raw) + 1
    <3>1. e(q) \in D /\ mu[e(q)] < mu[q]
      BY <1>0, <1>1, <2>2
    <3>2. QED
      BY <1>4, <2>2, <3>1
  <2>3. QED
    BY <2>1, <2>2
<1> HIDE DEF Step, mu
<1>5. step \in [D -> [[D -> S] -> S]] /\ \A q \in D, f \in [D -> S] : step[q][f] = Step(f, q)
  BY <1>3
<1> HIDE DEF step
<1>6. LooksDown(step, D, mu, S)
  <2> HIDE DEF D, S
  <2> SUFFICES ASSUME NEW f \in [D -> S], NEW g \in [D -> S], NEW q \in D,
                      \A r \in D : mu[r] < mu[q] => f[r] = g[r]
               PROVE  step[q][f] = step[q][g]
    BY DEF LooksDown
  <2>1. Step(f, q) = Step(g, q)
    BY <1>4, Zenon
  <2>2. step[q][f] = Step(f, q) /\ step[q][g] = Step(g, q)
    BY <1>5
  <2>3. QED
    BY <2>1, <2>2, Zenon
<1>7. SolvedOn(step, D, S)
  <2>1. S # {}
    BY EmptySeq
  <2> HIDE DEF D, S
  <2>2. QED
    BY <1>2, <1>5, <1>6, <2>1, RecursionOn
<1>8. PICK f \in [D -> S] : \A q \in D : f[q] = step[q][f]
  BY <1>7 DEF SolvedOn
<1>9. Is(f)
  <2>1. \A q \in D : f[q] = Step(f, q)
    BY <1>5, <1>8
  <2>2. f = [q \in D |-> f[q]]
    BY <1>8
  <2>3. QED
    BY <2>1, <2>2
<1> DEFINE d == CHOOSE g : Is(g)
<1>10. Is(d)
  <2> HIDE DEF Is
  <2>1. QED
    BY <1>9
<1>11. Characters(raw) = d[1]
  BY Zenon DEF Characters, Step, c, e
<1> HIDE DEF d
<1>12. \A q \in D : d[q] = Step(d, q)
  BY <1>10
<1> HIDE DEF Is
<1>13. Decodes(d, raw)
  <2>1. d[Len(raw) + 1] = << >>
    <3>1. Len(raw) + 1 \in D
      BY <1>0
    <3> HIDE DEF D
    <3>2. d[Len(raw) + 1] = Step(d, Len(raw) + 1)
      BY <1>12, <3>1, Zenon
    <3>3. QED
      BY <3>2, Zenon DEF Step
  <2>2. ASSUME NEW p \in 1..Len(raw) PROVE d[p] = <<c(p)>> \o d[e(p)]
    <3>1. p \in D /\ p # Len(raw) + 1
      BY <1>0
    <3>2. QED
      BY <1>12, <3>1 DEF Step
  <2>3. QED
    BY <2>1, <2>2 DEF Decodes, c, e
<1>14. QED
  BY <1>11, <1>13

\* What octets are decoded to is a sequence of numbers.
LEMMA CharactersType == ASSUME NEW raw \in Seq(Byte) PROVE Characters(raw) \in Seq(Int)
<1> DEFINE L == Len(raw)
<1>1. PICK w : Decodes(w, raw) /\ Characters(raw) = w[1]
  BY Decoded
<1> DEFINE Up == {m \in Nat : m <= L => w[(L + 1) - m] \in Seq(Int)}
<1>2. L \in Nat
  BY LenProperties
<1>3. ASSUME NEW n \in Nat, \A m \in 0..(n - 1) : m \in Up PROVE n \in Up
  <2> SUFFICES ASSUME n <= L PROVE w[(L + 1) - n] \in Seq(Int)
    OBVIOUS
  <2>1. CASE n = 0
    <3>1. w[L + 1] = << >> /\ (L + 1) - n = L + 1
      BY <1>1, <1>2, <2>1 DEF Decodes
    <3>2. QED
      BY <3>1, EmptySeq
  <2>2. CASE n # 0
    <3> DEFINE p == (L + 1) - n
               q == p + Taken(raw, p)
               c == CharacterAt(raw, p)
    <3>1. p \in 1..Len(raw)
      BY <1>2, <2>2
    <3>2. w[p] = <<c>> \o w[q]
      BY <1>1, <3>1 DEF Decodes
    <3>3. Taken(raw, p) \in 1..4 /\ q <= L + 1 /\ c \in Int
      BY <3>1, TakenSome
    <3>4. (L + 1) - q \in 0..(n - 1) /\ (L + 1) - ((L + 1) - q) = q /\ (L + 1) - q <= L
      <4>1. p \in Int /\ p >= 1 /\ n = (L + 1) - p
        BY <1>2, <3>1
      <4>2. q \in Int /\ q > p
        BY <3>3, <4>1
      <4> HIDE DEF p, q, L
      <4>3. QED
        BY <1>2, <3>3, <4>1, <4>2
    <3>5. w[q] \in Seq(Int)
      <4>1. (L + 1) - q \in Up
        BY <1>3, <3>4
      <4> HIDE DEF q, L
      <4>2. QED
        BY <3>4, <4>1
    <3> HIDE DEF p, q, c
    <3>6. <<c>> \in Seq(Int)
      BY <3>3
    <3>7. w[p] \in Seq(Int)
      BY <3>2, <3>5, <3>6, ConcatProperties
    <3>8. QED
      BY <3>7 DEF p
  <2>3. QED
    BY <2>1, <2>2
<1> HIDE DEF Up
<1>4. \A n \in Nat : n \in Up
  BY <1>3, InductBelow
<1>5. L \in Up /\ (L + 1) - L = 1 /\ L <= L
  BY <1>2, <1>4
<1>6. w[1] \in Seq(Int)
  BY <1>5 DEF Up
<1>7. QED
  BY <1>1, <1>6

\* The first parts stand at the start of all of them.
LEMMA PartsStand ==
  ASSUME NEW seqs \in Seq(Seq(Byte)), NEW f, Covers(seqs, f),
         \A i \in 0..Len(seqs) : f[i] \in Seq(Byte), NEW k \in 0..Len(seqs)
  PROVE  \A m \in k..Len(seqs) :
            Len(f[k]) <= Len(f[m]) /\ \A j \in 1..Len(f[k]) : f[m][j] = f[k][j]
<1> DEFINE N == Len(seqs)
           L == Len(f[k])
           Good(m) == L <= Len(f[m]) /\ \A j \in 1..L : f[m][j] = f[k][j]
           Up == {m \in Nat : k + m <= N => Good(k + m)}
<1>0. N \in Nat /\ (\A i \in 1..N : seqs[i] \in Seq(Byte)) /\ L \in Nat
  BY LenProperties, ElementOfSeq
<1>1. 0 \in Up
  BY <1>0
<1>2. ASSUME NEW m \in Nat, m \in Up PROVE m + 1 \in Up
  <2> SUFFICES ASSUME k + (m + 1) <= N PROVE Good(k + (m + 1))
    OBVIOUS
  <2> DEFINE a == f[k + m]
             b == seqs[k + (m + 1)]
             c == f[k + (m + 1)]
  <2>1. Good(k + m) /\ k + m \in 0..N /\ k + (m + 1) \in 1..N /\ (k + (m + 1)) - 1 = k + m
    BY <1>0, <1>2
  <2>2. c = a \o b /\ a \in Seq(Byte) /\ b \in Seq(Byte)
    BY <1>0, <2>1 DEF Covers
  <2>3. L <= Len(a) /\ \A j \in 1..L : a[j] = f[k][j]
    BY <2>1
  <2> HIDE DEF a, b, c, L
  <2>4. /\ Len(c) = Len(a) + Len(b) /\ Len(a) \in Nat /\ Len(b) \in Nat
        /\ \A j \in 1..Len(a) : c[j] = a[j]
    BY <2>2, Joined
  <2>5. L <= Len(c) /\ \A j \in 1..L : c[j] = f[k][j]
    BY <1>0, <2>3, <2>4
  <2>6. QED
    BY <2>5 DEF c
<1> HIDE DEF Up
<1>3. \A m \in Nat : m \in Up
  BY <1>1, <1>2, Induct
<1>4. ASSUME NEW m \in k..N PROVE Good(m)
  <2>1. m - k \in Nat /\ k + (m - k) = m /\ m <= N
    BY <1>0
  <2>2. QED
    BY <1>3, <2>1 DEF Up
<1>5. QED
  BY <1>4

\* A text is read as it was written, whatever its characters.
LEMMA Utf8Read == ASSUME NEW t \in Texts PROVE Characters(Utf8(t)) = t
<1> DEFINE N == Len(t)
           u(i) == Utf8Of(t[i])
           seqs == [i \in DOMAIN t |-> u(i)]
<1>1. /\ N \in Nat /\ DOMAIN t = 1..N /\ t \in Seq(Nat)
      /\ \A i \in 1..N : t[i] \in Nat /\ Character(t[i])
  BY LenProperties, ElementOfSeq DEF Texts
<1>2. \A i \in 1..N : u(i) \in Seq(Byte)
  BY <1>1, Utf8OfType
<1> HIDE DEF u
<1>3. seqs \in Seq(Seq(Byte)) /\ Len(seqs) = N /\ \A i \in 1..N : seqs[i] = u(i)
  BY <1>1, <1>2
<1>4. Utf8(t) = FlattenSeq(seqs)
  BY Zenon DEF Utf8, u
<1> HIDE DEF seqs
<1>5. PICK f : /\ Covers(seqs, f) /\ FlattenSeq(seqs) = f[N]
               /\ \A i \in 0..N : f[i] \in Seq(Byte)
  BY <1>3, FlattenRuns
<1> DEFINE raw == f[N]
<1>6. raw \in Seq(Byte)
  BY <1>1, <1>5
<1>7. PICK w : Decodes(w, raw) /\ Characters(raw) = w[1]
  BY <1>6, Decoded
<1>8. ASSUME NEW i \in 0..(N - 1)
      PROVE  /\ Stands(raw, Len(f[i]) + 1, u(i + 1))
             /\ Len(f[i + 1]) = Len(f[i]) + Len(u(i + 1))
             /\ Len(f[i]) + 1 \in 1..Len(raw) /\ Len(f[i]) \in Nat
  <2> DEFINE a == f[i]
             b == u(i + 1)
             c == f[i + 1]
  <2>1. i + 1 \in 1..N /\ (i + 1) - 1 = i /\ i \in 0..N /\ i + 1 \in 0..N
    BY <1>1
  <2>2. c = a \o b /\ a \in Seq(Byte) /\ b \in Seq(Byte)
    BY <1>2, <1>3, <1>5, <2>1 DEF Covers
  <2>3. Len(c) <= Len(raw) /\ \A j \in 1..Len(c) : raw[j] = c[j]
    <3>1. \A m \in (i + 1)..Len(seqs) :
             Len(f[i + 1]) <= Len(f[m]) /\ \A j \in 1..Len(f[i + 1]) : f[m][j] = f[i + 1][j]
      <4> DEFINE k == i + 1
      <4>1. (\A j \in 0..Len(seqs) : f[j] \in Seq(Byte)) /\ k \in 0..Len(seqs)
        BY <1>3, <1>5, <2>1
      <4>2. seqs \in Seq(Seq(Byte)) /\ Covers(seqs, f)
        BY <1>3, <1>5
      <4> HIDE DEF k, a, b, c, raw
      <4>3. \A m \in k..Len(seqs) :
               Len(f[k]) <= Len(f[m]) /\ \A j \in 1..Len(f[k]) : f[m][j] = f[k][j]
        BY ONLY <4>1, <4>2, PartsStand, Zenon
      <4>4. QED
        BY <4>3 DEF k
    <3>2. N \in (i + 1)..Len(seqs)
      BY <1>1, <1>3, <2>1
    <3>3. QED
      BY <3>1, <3>2
  <2>4. Len(b) \in 1..4
    BY <1>1, <2>1, Utf8OfType DEF u
  <2>5. Len(raw) \in Nat
    BY <1>6, LenProperties
  <2> HIDE DEF a, b, c, raw
  <2>6. /\ Len(c) = Len(a) + Len(b) /\ Len(a) \in Nat /\ Len(b) \in Nat
        /\ \A j \in 1..Len(b) : c[Len(a) + j] = b[j]
    BY <2>2, Joined
  <2>7. \A j \in 1..Len(b) : raw[(Len(a) + 1) + (j - 1)] = b[j]
    <3> TAKE j \in 1..Len(b)
    <3>1. (Len(a) + 1) + (j - 1) = Len(a) + j /\ Len(a) + j \in 1..Len(c)
      BY <2>6
    <3>2. QED
      BY <2>3, <2>6, <3>1
  <2>8. Len(a) + 1 \in 1..Len(raw) /\ (Len(a) + 1) + Len(b) <= Len(raw) + 1
    <3>1. /\ Len(c) <= Len(raw) /\ Len(b) >= 1 /\ Len(raw) \in Nat
          /\ Len(c) = Len(a) + Len(b) /\ Len(a) \in Nat /\ Len(b) \in Nat
      <4>1. Len(c) <= Len(raw) /\ Len(raw) \in Nat
        BY <2>3, <2>5, Zenon
      <4>2. Len(c) = Len(a) + Len(b) /\ Len(a) \in Nat /\ Len(b) \in Nat
        BY <2>6, Zenon
      <4>3. Len(b) >= 1
        BY ONLY <2>4
      <4>4. QED
        BY <4>1, <4>2, <4>3, Zenon
    <3>2. \A x, y, z, v \in Nat :
             z <= v /\ y >= 1 /\ z = x + y => x + 1 \in 1..v /\ (x + 1) + y <= v + 1
      OBVIOUS
    <3>3. Len(c) \in Nat
      BY <2>2, LenProperties, Joined, Zenon
    <3>4. QED
      BY <3>1, <3>2, <3>3, Zenon
  <2>9. QED
    BY <2>6, <2>7, <2>8 DEF Stands, a, b, c
<1> DEFINE Rest(i) == w[Len(f[i]) + 1]
<1>9. ASSUME NEW i \in 0..(N - 1) PROVE Rest(i) = <<t[i + 1]>> \o Rest(i + 1)
  <2> DEFINE p == Len(f[i]) + 1
  <2>1. /\ Stands(raw, p, u(i + 1)) /\ p \in 1..Len(raw) /\ Len(f[i]) \in Nat
        /\ Len(f[i + 1]) = Len(f[i]) + Len(u(i + 1))
    BY <1>8
  <2>2. t[i + 1] \in Nat /\ Character(t[i + 1]) /\ u(i + 1) \in Seq(Byte)
    BY <1>1, <1>2
  <2>3. p \in Nat
    BY <2>1
  <2>4. ReadsAs(raw, p, t[i + 1], Len(u(i + 1)))
    BY <1>6, <2>1, <2>2, <2>3, CharacterRead, Zenon DEF u
  <2>5. w[p] = <<t[i + 1]>> \o w[p + Len(u(i + 1))]
    BY <1>7, <2>1, <2>4, Zenon DEF Decodes, ReadsAs
  <2>6. Len(u(i + 1)) \in Nat
    BY <2>2, LenProperties
  <2>7. p + Len(u(i + 1)) = Len(f[i + 1]) + 1
    <3>1. \A x, y, z \in Nat : z = x + y => (x + 1) + y = z + 1
      OBVIOUS
    <3>2. Len(f[i]) \in Nat /\ Len(f[i + 1]) = Len(f[i]) + Len(u(i + 1)) /\ Len(f[i + 1]) \in Nat
      <4>1. i + 1 \in 0..N
        BY <1>1
      <4>2. Len(f[i + 1]) \in Nat
        BY <1>5, <4>1, LenProperties
      <4>3. QED
        BY <2>1, <4>2, Zenon
    <3>3. QED
      BY <2>6, <3>1, <3>2, Zenon
  <2>8. QED
    BY <2>5, <2>7
<1>10. Rest(N) = << >>
  BY <1>7 DEF Decodes
<1> HIDE DEF Rest, raw
<1> DEFINE Is(i) == /\ Rest(i) \in Seq(Nat) /\ Len(Rest(i)) = N - i
                    /\ \A k \in 1..(N - i) : Rest(i)[k] = t[i + k]
           Up == {m \in Nat : m <= N => Is(N - m)}
<1>11. 0 \in Up
  <2>1. N - 0 = N /\ N - N = 0
    BY <1>1
  <2>2. QED
    BY <1>1, <1>10, <2>1, EmptySeq
<1>12. ASSUME NEW m \in Nat, m \in Up PROVE m + 1 \in Up
  <2> SUFFICES ASSUME m + 1 <= N PROVE Is(N - (m + 1))
    OBVIOUS
  <2> DEFINE i == N - (m + 1)
             r == Rest(i + 1)
             s == Rest(i)
             one == <<t[i + 1]>>
  <2>1. i \in 0..(N - 1) /\ i + 1 \in 1..N /\ i + 1 = N - m /\ m <= N
    BY <1>1
  <2>2. Is(i + 1)
    BY <1>12, <2>1
  <2>3. s = one \o r
    BY <1>9, <2>1
  <2>4. one \in Seq(Nat) /\ Len(one) = 1 /\ one[1] = t[i + 1]
    BY <1>1, <2>1
  <2>5. r \in Seq(Nat) /\ Len(r) = N - (i + 1)
        /\ \A k \in 1..(N - (i + 1)) : r[k] = t[(i + 1) + k]
    BY <2>2
  <2> HIDE DEF r, s, one, Is
  <2>6. /\ s \in Seq(Nat) /\ Len(s) = Len(one) + Len(r)
        /\ (\A k \in 1..Len(one) : s[k] = one[k])
        /\ (\A k \in 1..Len(r) : s[Len(one) + k] = r[k])
    <3>1. one \in Seq(Nat) /\ r \in Seq(Nat)
      BY <2>4, <2>5
    <3>2. QED
      BY <2>3, <3>1, Joined
  <2> HIDE DEF i
  <2>7. Len(s) = N - i
    BY <1>1, <2>1, <2>4, <2>5, <2>6
  <2>8. \A k \in 1..(N - i) : s[k] = t[i + k]
    <3> TAKE k \in 1..(N - i)
    <3>1. CASE k = 1
      BY <2>4, <2>6, <3>1
    <3>2. CASE k # 1
      <4>1. k - 1 \in 1..(N - (i + 1)) /\ 1 + (k - 1) = k /\ (i + 1) + (k - 1) = i + k
        BY <1>1, <2>1, <3>2
      <4>2. s[1 + (k - 1)] = r[k - 1] /\ r[k - 1] = t[(i + 1) + (k - 1)]
        BY <2>4, <2>5, <2>6, <4>1
      <4>3. QED
        BY <4>1, <4>2
    <3>3. QED
      BY <3>1, <3>2
  <2>9. QED
    BY <2>6, <2>7, <2>8 DEF Is, s, i
<1> HIDE DEF Up
<1>13. \A m \in Nat : m \in Up
  BY <1>11, <1>12, Induct
<1>14. Is(0)
  <2>1. N \in Up /\ N - N = 0 /\ N <= N
    BY <1>1, <1>13
  <2>2. QED
    BY <2>1 DEF Up
<1>15. Rest(0) = t
  <2>1. N - 0 = N /\ \A k \in 1..N : 0 + k = k
    BY <1>1
  <2>2. Rest(0) \in Seq(Nat) /\ Len(Rest(0)) = Len(t) /\ \A k \in 1..Len(t) : Rest(0)[k] = t[k]
    BY <1>14, <2>1
  <2>3. QED
    BY <1>1, <2>2, SeqEqual
<1>16. Rest(0) = w[1]
  <2>1. f[0] = << >>
    BY <1>5 DEF Covers
  <2>2. Len(f[0]) + 1 = 1
    BY <2>1
  <2>3. QED
    BY <2>2 DEF Rest
<1>17. QED
  BY <1>4, <1>5, <1>7, <1>15, <1>16 DEF raw

-----------------------------------------------------------------------------
(* Names are read as they were written                                      *)

\* Reading the octets x takes the reader from state s to state t.
Turns(x, s, t) ==
    \E f : /\ f[0] = s /\ f[Len(x)] = t
           /\ \A i \in 1..Len(x) : f[i] = ReadOctet(f[i - 1], x[i])

Whole(names) == [done |-> names, open |-> 0]
Within128(names, n) == [done |-> names, open |-> n]

\* No octets lead nowhere.
LEMMA TurnsNothing == \A s : Turns(<< >>, s, s)
<1> TAKE s
<1> DEFINE f == [i \in 0..0 |-> s]
<1>1. f[0] = s /\ Len(<< >>) = 0
  OBVIOUS
<1> HIDE DEF f
<1>2. QED
  BY <1>1 DEF Turns

\* One octet is one step.
LEMMA TurnsOne ==
  ASSUME NEW x, NEW s
  PROVE  Turns(<<x>>, s, ReadOctet(s, x))
<1> DEFINE t == ReadOctet(s, x)
           f == [i \in 0..1 |-> IF i = 0 THEN s ELSE t]
           y == <<x>>
<1>1. f[0] = s /\ f[1] = t /\ Len(y) = 1 /\ y[1] = x
  OBVIOUS
<1> HIDE DEF f, y
<1>2. \A i \in 1..Len(y) : f[i] = ReadOctet(f[i - 1], y[i])
  BY <1>1
<1> HIDE DEF t
<1>3. Turns(y, s, t)
  BY <1>1, <1>2 DEF Turns
<1>4. QED
  BY <1>3 DEF t, y

\* Octets put together lead where the second lead from where the first do.
LEMMA TurnsBoth ==
  ASSUME NEW x \in Seq(Nat), NEW y \in Seq(Nat), NEW s, NEW t, NEW u,
         Turns(x, s, t), Turns(y, t, u)
  PROVE  Turns(x \o y, s, u)
<1>1. PICK f : /\ f[0] = s /\ f[Len(x)] = t
               /\ \A i \in 1..Len(x) : f[i] = ReadOctet(f[i - 1], x[i])
  BY DEF Turns
<1>2. PICK g : /\ g[0] = t /\ g[Len(y)] = u
               /\ \A i \in 1..Len(y) : g[i] = ReadOctet(g[i - 1], y[i])
  BY DEF Turns
<1> DEFINE c == x \o y
           h == [i \in 0..Len(c) |-> IF i <= Len(x) THEN f[i] ELSE g[i - Len(x)]]
<1>3. /\ c \in Seq(Nat) /\ Len(c) = Len(x) + Len(y) /\ Len(x) \in Nat /\ Len(y) \in Nat
      /\ \A i \in 1..Len(x) : c[i] = x[i]
      /\ \A i \in 1..Len(y) : c[Len(x) + i] = y[i]
  BY Joined
<1> HIDE DEF c
<1>4. h[0] = s /\ h[Len(c)] = u
  <2>1. h[0] = s
    BY <1>1, <1>3
  <2>2. h[Len(c)] = u
    <3>1. CASE Len(y) = 0
      BY <1>1, <1>2, <1>3, <3>1
    <3>2. CASE Len(y) # 0
      BY <1>2, <1>3, <3>2
    <3>3. QED
      BY <3>1, <3>2
  <2>3. QED
    BY <2>1, <2>2
<1>5. ASSUME NEW i \in 1..Len(c) PROVE h[i] = ReadOctet(h[i - 1], c[i])
  <2>1. CASE i <= Len(x)
    <3>1. i \in 1..Len(x) /\ h[i] = f[i] /\ h[i - 1] = f[i - 1]
      BY <1>3, <2>1
    <3> HIDE DEF h
    <3>2. QED
      BY <1>1, <1>3, <3>1
  <2>2. CASE ~(i <= Len(x))
    <3>1. PICK k \in Int : k = i - Len(x)
      <4>1. i \in Int /\ Len(x) \in Int
        BY <1>3
      <4>2. i - Len(x) \in Int
        BY <4>1
      <4>3. QED
        BY <4>2
    <3>2. k \in 1..Len(y) /\ i = Len(x) + k /\ h[i] = g[k]
      BY <1>3, <2>2, <3>1
    <3>3. h[i - 1] = g[k - 1]
      <4>1. CASE k = 1
        BY <1>1, <1>2, <1>3, <3>2, <4>1
      <4>2. CASE k # 1
        BY <1>3, <3>2, <4>2
      <4>3. QED
        BY <4>1, <4>2
    <3>4. g[k] = ReadOctet(g[k - 1], y[k]) /\ c[i] = y[k]
      BY <1>2, <1>3, <3>2
    <3> HIDE DEF h
    <3>5. QED
      BY <3>2, <3>3, <3>4
  <2>3. QED
    BY <2>1, <2>2
<1> HIDE DEF h
<1>6. QED
  BY <1>4, <1>5 DEF Turns, c

\* Subidentifiers are where the octets lead.
LEMMA TurnsEnd ==
  ASSUME NEW x \in Seq(Nat), NEW t, Turns(x, Whole(<< >>), t)
  PROVE  Subidentifiers(x) = t.done
<1> DEFINE L == Len(x)
           start == Whole(<< >>)
           Step(g, i) == IF i = 0 THEN start ELSE ReadOctet(g[i - 1], x[i])
           Is(g) == g = [i \in 0..L |-> Step(g, i)]
           d == CHOOSE g : Is(g)
<1>0. L \in Nat
  BY LenProperties
<1>1. PICK f0 : /\ f0[0] = start /\ f0[L] = t
                /\ \A i \in 1..L : f0[i] = ReadOctet(f0[i - 1], x[i])
  BY DEF Turns
<1> DEFINE f == [i \in 0..L |-> f0[i]]
<1>2. /\ f[0] = start /\ f[L] = t /\ f = [i \in 0..L |-> f[i]]
      /\ \A i \in 1..L : f[i] = f0[i] /\ f[i - 1] = f0[i - 1]
  BY <1>0, <1>1
<1> HIDE DEF f
<1>3. \A i \in 0..L : f[i] = Step(f, i)
  <2> TAKE i \in 0..L
  <2>1. CASE i = 0
    BY <1>2, <2>1
  <2>2. CASE i # 0
    <3>1. i \in 1..L
      BY <1>0, <2>2
    <3>2. QED
      BY <1>1, <1>2, <2>2, <3>1
  <2>3. QED
    BY <2>1, <2>2
<1> HIDE DEF Step
<1>4. Is(f)
  BY <1>2, <1>3
<1>5. Is(d)
  <2> HIDE DEF Is
  <2>1. QED
    BY <1>4
<1>6. Subidentifiers(x) = d[L].done
  BY DEF Subidentifiers, Step, Whole
<1> HIDE DEF d
<1>7. \A i \in 0..L : d[i] = Step(d, i)
  BY <1>5
<1> HIDE DEF Is, L
<1>8. d[0] = f[0]
  BY <1>0, <1>3, <1>7 DEF Step
<1>9. \A i \in 1..L : d[i - 1] = f[i - 1] => d[i] = f[i]
  BY <1>0, <1>3, <1>7 DEF Step
<1>10. GoAlike(d, f, L)
  BY <1>8, <1>9 DEF GoAlike
<1>11. SameUpto(d, f, L)
  BY <1>0, <1>10, Agree
<1>12. d[L] = f[L]
  BY <1>0, <1>11 DEF SameUpto
<1>13. QED
  BY <1>2, <1>6, <1>12

\* The octets of a number that goes on.
Going(d) == [i \in 1..Len(d) |-> d[i] + 128]

\* Octets that go on, and one more.
LEMMA GoingAppend ==
  ASSUME NEW d \in Seq(Nat), NEW x \in Nat
  PROVE  /\ Going(Append(d, x)) = Going(d) \o <<x + 128>>
         /\ Going(d) \in Seq(Nat) /\ Len(Going(d)) = Len(d) /\ Len(d) \in Nat
<1> DEFINE e == Append(d, x)
           y == <<x + 128>>
<1>1. /\ e \in Seq(Nat) /\ Len(e) = Len(d) + 1 /\ Len(d) \in Nat
      /\ e[Len(d) + 1] = x /\ \A i \in 1..Len(d) : e[i] = d[i] /\ d[i] \in Nat
  BY AppendProperties, LenProperties, ElementOfSeq
<1>2. y \in Seq(Nat) /\ Len(y) = 1 /\ y[1] = x + 128
  OBVIOUS
<1> HIDE DEF e, y
<1>3. \A i \in 1..Len(e) : e[i] \in Nat
  BY <1>1, ElementOfSeq
<1>4. Going(d) \in Seq(Nat) /\ Len(Going(d)) = Len(d) /\ \A i \in 1..Len(d) : Going(d)[i] = d[i] + 128
  BY <1>1 DEF Going
<1>5. Going(e) \in Seq(Nat) /\ Len(Going(e)) = Len(e) /\ \A i \in 1..Len(e) : Going(e)[i] = e[i] + 128
  BY <1>1, <1>3 DEF Going
<1>6. /\ Going(d) \o y \in Seq(Nat) /\ Len(Going(d) \o y) = Len(Going(d)) + Len(y)
      /\ \A i \in 1..Len(Going(d)) : (Going(d) \o y)[i] = Going(d)[i]
      /\ \A i \in 1..Len(y) : (Going(d) \o y)[Len(Going(d)) + i] = y[i]
  <2>1. Going(d) \in Seq(Nat) /\ y \in Seq(Nat)
    BY <1>2, <1>4
  <2>2. QED
    BY <2>1, Joined
<1>7. Len(Going(e)) = Len(Going(d) \o y)
  BY <1>1, <1>2, <1>4, <1>5, <1>6
<1>8. ASSUME NEW i \in 1..Len(Going(e)) PROVE Going(e)[i] = (Going(d) \o y)[i]
  <2>1. i \in 1..Len(e) /\ (i \in 1..Len(d) \/ i = Len(d) + 1)
    BY <1>1, <1>5
  <2>2. CASE i \in 1..Len(d)
    <3>1. Going(e)[i] = e[i] + 128 /\ e[i] = d[i]
      BY <1>1, <1>5, <2>1, <2>2
    <3>2. (Going(d) \o y)[i] = Going(d)[i] /\ Going(d)[i] = d[i] + 128
      BY <1>4, <1>6, <2>2
    <3>3. QED
      BY <3>1, <3>2
  <2>3. CASE i = Len(d) + 1
    BY <1>1, <1>2, <1>4, <1>5, <1>6, <2>1, <2>3
  <2>4. QED
    BY <2>1, <2>2, <2>3
<1>9. Going(e) = Going(d) \o y
  BY <1>5, <1>6, <1>7, <1>8, SeqEqual
<1>10. QED
  BY <1>1, <1>4, <1>9 DEF e, y

\* One octet that goes on.
LEMMA GoingOne ==
  ASSUME NEW x \in Nat
  PROVE  Going(<<x>>) = <<x + 128>>
<1>1. Len(<<x>>) = 1 /\ <<x>>[1] = x
  OBVIOUS
<1>2. QED
  BY <1>1 DEF Going

\* The digits of a number, all going on, lead to that number being open.
LEMMA GoingTurns ==
  ASSUME NEW n \in Nat, NEW names
  PROVE  Turns(Going(Digits(n, 128)), Whole(names), Within128(names, n))
<1> DEFINE Good == {m \in Nat : Turns(Going(Digits(m, 128)), Whole(names), Within128(names, m))}
<1>1. ASSUME NEW m \in Nat, \A i \in 0..(m - 1) : i \in Good PROVE m \in Good
  <2> DEFINE q == m \div 128
             r == m % 128
  <2>0. /\ q \in Nat /\ r \in 0..(128 - 1) /\ m = q * 128 + r
        /\ m >= 128 => q < m
    BY DivFacts
  <2>1. /\ Digits(m, 128) = IF m < 128 THEN <<m>> ELSE Append(Digits(q, 128), r)
    BY DigitsIs, ZenonT(60)
  <2>2. \A k \in Nat : ~(k + 128 < 128) /\ k + 128 >= 128 /\ (k + 128) - 128 = k
    OBVIOUS
  <2> HIDE DEF q, r
  <2>3. CASE m < 128
    <3>1. Going(Digits(m, 128)) = <<m + 128>>
      BY <2>1, <2>3, GoingOne
    <3>2. ReadOctet(Whole(names), m + 128) = Within128(names, m)
      <4>1. 0 * 128 + m = m
        OBVIOUS
      <4>2. QED
        BY <2>2, <4>1 DEF ReadOctet, Whole, Within128
    <3>3. Turns(<<m + 128>>, Whole(names), Within128(names, m))
      BY <3>2, TurnsOne
    <3>4. QED
      BY <3>1, <3>3
  <2>4. CASE ~(m < 128)
    <3> DEFINE x == Going(Digits(q, 128))
               y == <<r + 128>>
    <3>1. r \in Nat /\ q \in 0..(m - 1)
      BY <2>0, <2>4
    <3>2. Digits(q, 128) \in Seq(Nat)
      BY <2>0, DigitsIs
    <3>3. Going(Digits(m, 128)) = x \o y /\ x \in Seq(Nat)
      BY <2>1, <2>4, <3>1, <3>2, GoingAppend, ZenonT(60)
    <3>4. Turns(x, Whole(names), Within128(names, q))
      BY <1>1, <3>1
    <3>5. ReadOctet(Within128(names, q), r + 128) = Within128(names, m)
      BY <2>0, <2>2, <3>1 DEF ReadOctet, Within128
    <3>6. Turns(y, Within128(names, q), Within128(names, m))
      BY <3>5, TurnsOne
    <3>7. y \in Seq(Nat)
      BY <3>1
    <3> HIDE DEF x, y
    <3>8. Turns(x \o y, Whole(names), Within128(names, m))
      BY <3>3, <3>4, <3>6, <3>7, TurnsBoth
    <3>9. QED
      BY <3>3, <3>8
  <2>5. QED
    BY <2>3, <2>4
<1> HIDE DEF Good
<1>2. \A m \in Nat : m \in Good
  BY <1>1, InductBelow
<1>3. QED
  BY <1>2 DEF Good

\* The octets before the last of a number, and the last.
LEMMA Base128Is ==
  ASSUME NEW n \in Nat
  PROVE  Base128(n) = IF n < 128 THEN <<n>>
                      ELSE Going(Digits(n \div 128, 128)) \o <<n % 128>>
<1> DEFINE q == n \div 128
           r == n % 128
           d == Digits(n, 128)
           e == Digits(q, 128)
           g(i) == IF i < Len(d) THEN d[i] + 128 ELSE d[i]
<1>1. q \in Nat /\ r \in 0..(128 - 1) /\ r \in Nat
  BY DivFacts
<1>2. d \in Seq(Nat) /\ d = IF n < 128 THEN <<n>> ELSE Append(e, r)
  BY DigitsIs, ZenonT(60)
<1>3. e \in Seq(Nat)
  BY <1>1, DigitsIs
<1>4. DOMAIN d = 1..Len(d) /\ Base128(n) = [i \in 1..Len(d) |-> g(i)]
  BY <1>2, LenProperties DEF Base128
<1> HIDE DEF d, e, q, r
<1>5. CASE n < 128
  <2>1. Len(d) = 1 /\ d[1] = n
    BY <1>2, <1>5
  <2>2. \A i \in 1..Len(d) : g(i) = n
    BY <2>1
  <2>3. [i \in 1..Len(d) |-> g(i)] = [i \in 1..1 |-> n]
    BY <2>1, <2>2
  <2>4. [i \in 1..1 |-> n] = <<n>>
    BY SMTT(40)
  <2>5. QED
    BY <1>4, <1>5, <2>3, <2>4
<1>6. CASE ~(n < 128)
  <2> DEFINE h == [i \in 1..Len(d) |-> g(i)]
             y == <<r>>
             c == Going(e) \o y
  <2>1. /\ Len(d) = Len(e) + 1 /\ Len(e) \in Nat
        /\ d[Len(e) + 1] = r /\ \A i \in 1..Len(e) : d[i] = e[i]
    BY <1>1, <1>2, <1>3, <1>6, AppendProperties, LenProperties
  <2>2. y \in Seq(Nat) /\ Len(y) = 1 /\ y[1] = r
    BY <1>1
  <2>3. Going(e) \in Seq(Nat) /\ Len(Going(e)) = Len(e)
    BY <1>1, <1>3, GoingAppend
  <2>4. \A i \in 1..Len(e) : Going(e)[i] = e[i] + 128
    BY DEF Going
  <2> HIDE DEF y
  <2>5. /\ c \in Seq(Nat) /\ Len(c) = Len(Going(e)) + Len(y)
        /\ \A i \in 1..Len(Going(e)) : c[i] = Going(e)[i]
        /\ \A i \in 1..Len(y) : c[Len(Going(e)) + i] = y[i]
    <3>1. Going(e) \in Seq(Nat) /\ y \in Seq(Nat)
      BY <2>2, <2>3
    <3>2. QED
      BY <3>1, Joined
  <2> HIDE DEF c
  <2>6. \A i \in 1..Len(d) : g(i) = c[i]
    <3> TAKE i \in 1..Len(d)
    <3>1. i \in 1..Len(e) \/ i = Len(e) + 1
      BY <2>1
    <3>2. CASE i \in 1..Len(e)
      BY <2>1, <2>3, <2>4, <2>5, <3>2
    <3>3. CASE i = Len(e) + 1
      BY <2>1, <2>2, <2>3, <2>5, <3>3
    <3>4. QED
      BY <3>1, <3>2, <3>3
  <2> HIDE DEF g
  <2>7. Len(c) = Len(d)
    BY <2>1, <2>2, <2>3, <2>5
  <2>8. h = c
    <3>1. \A i \in 1..Len(c) : c[i] \in Nat
      BY <2>5, ElementOfSeq
    <3>2. c = [i \in 1..Len(c) |-> c[i]]
      BY <2>5
    <3>3. QED
      BY <2>6, <2>7, <3>2
  <2>9. QED
    BY <1>4, <1>6, <2>8, ZenonT(60) DEF c, y, e, q, r
<1>7. QED
  BY <1>5, <1>6

\* A text that does not stop in the middle of a number.
Ends(x) == x # << >> /\ x[Len(x)] < 128

\* An arc as it is written leads to that arc being read.
LEMMA ArcTurns ==
  ASSUME NEW n \in Nat, NEW names
  PROVE  /\ Turns(Base128(n), Whole(names), Whole(Append(names, n)))
         /\ Ends(Base128(n))
<1> DEFINE q == n \div 128
           r == n % 128
<1>1. q \in Nat /\ r \in 0..(128 - 1) /\ n = q * 128 + r
  BY DivFacts
<1>2. Base128(n) = IF n < 128 THEN <<n>> ELSE Going(Digits(q, 128)) \o <<r>>
  BY Base128Is
<1> HIDE DEF q, r
<1>3. CASE n < 128
  <2>1. ~(n >= 128) /\ 0 * 128 + n = n
    BY <1>3
  <2>2. ReadOctet(Whole(names), n) = Whole(Append(names, n))
    BY <2>1 DEF ReadOctet, Whole
  <2>3. Turns(<<n>>, Whole(names), Whole(Append(names, n)))
    BY <2>2, TurnsOne
  <2>4. Ends(<<n>>)
    BY <1>3 DEF Ends
  <2>5. QED
    BY <1>2, <1>3, <2>3, <2>4
<1>4. CASE ~(n < 128)
  <2> DEFINE x == Going(Digits(q, 128))
             y == <<r>>
  <2>1. r \in Nat /\ r < 128 /\ ~(r >= 128)
    BY <1>1
  <2>2. x \in Seq(Nat)
    <3>1. Digits(q, 128) \in Seq(Nat)
      BY <1>1, DigitsIs
    <3>2. QED
      BY <2>1, <3>1, GoingAppend
  <2>3. Turns(x, Whole(names), Within128(names, q))
    BY <1>1, GoingTurns
  <2>4. ReadOctet(Within128(names, q), r) = Whole(Append(names, n))
    BY <1>1, <2>1 DEF ReadOctet, Whole, Within128
  <2>5. Turns(y, Within128(names, q), Whole(Append(names, n)))
    BY <2>4, TurnsOne
  <2>6. y \in Seq(Nat) /\ Len(y) = 1 /\ y[1] = r
    BY <2>1
  <2> HIDE DEF x, y
  <2>7. Turns(x \o y, Whole(names), Whole(Append(names, n)))
    BY <2>2, <2>3, <2>5, <2>6, TurnsBoth
  <2>8. Ends(x \o y)
    <3>1. y \in Seq(Nat)
      BY <2>6
    <3>2. /\ x \o y \in Seq(Nat) /\ Len(x \o y) = Len(x) + Len(y) /\ Len(x) \in Nat
          /\ \A i \in 1..Len(y) : (x \o y)[Len(x) + i] = y[i]
      BY <2>2, <3>1, Joined
    <3>3. (x \o y)[Len(x \o y)] = r
      BY <2>6, <3>2
    <3>4. x \o y # << >>
      BY <2>6, <3>2
    <3>5. QED
      BY <2>1, <3>3, <3>4 DEF Ends
  <2>9. QED
    BY <1>2, <1>4, <2>7, <2>8 DEF x, y
<1>5. QED
  BY <1>3, <1>4

-----------------------------------------------------------------------------
(* Names put together and read                                             *)

\* An item more is a sequence of one behind.
LEMMA AppendJoined ==
  ASSUME NEW s \in Seq(Nat), NEW t \in Seq(Nat), NEW x \in Nat
  PROVE  s \o Append(t, x) = Append(s \o t, x) /\ s \o t \in Seq(Nat)
<1> DEFINE y == <<x>>
<1>1. y \in Seq(Nat) /\ Append(t, x) = t \o y
  BY AppendIsConcat
<1>2. s \o t \in Seq(Nat)
  BY ConcatProperties
<1>3. Append(s \o t, x) = (s \o t) \o y
  BY <1>2, AppendIsConcat
<1> HIDE DEF y
<1>4. (s \o t) \o y = s \o (t \o y)
  BY <1>1, ConcatAssociative, SMTT(40)
<1>5. QED
  BY <1>1, <1>2, <1>3, <1>4

\* Texts put together end as the last of them does.
LEMMA EndsBoth ==
  ASSUME NEW x \in Seq(Byte), NEW y \in Seq(Byte), Ends(y)
  PROVE  Ends(x \o y)
<1>1. /\ x \o y \in Seq(Byte) /\ Len(x \o y) = Len(x) + Len(y) /\ Len(x) \in Nat /\ Len(y) \in Nat
      /\ \A i \in 1..Len(y) : (x \o y)[Len(x) + i] = y[i]
  BY Joined
<1>2. Len(y) # 0 /\ y[Len(y)] < 128
  BY EmptySeq DEF Ends
<1>3. (x \o y)[Len(x \o y)] = y[Len(y)] /\ x \o y # << >>
  BY <1>1, <1>2
<1>4. QED
  BY <1>2, <1>3 DEF Ends

\* Arcs as they are written lead to those arcs being read.
LEMMA ArcsTurn ==
  ASSUME NEW arcs \in Seq(Nat), NEW names \in Seq(Nat)
  PROVE  /\ Turns(Arcs128(arcs), Whole(names), Whole(names \o arcs))
         /\ Arcs128(arcs) \in Seq(Byte)
         /\ Arcs128(arcs) = << >> \/ Ends(Arcs128(arcs))
<1> DEFINE parts == [i \in DOMAIN arcs |-> Base128(arcs[i])]
           N == Len(arcs)
<1>1. N \in Nat /\ DOMAIN arcs = 1..N /\ \A i \in 1..N : arcs[i] \in Nat
  BY LenProperties, ElementOfSeq
<1> HIDE DEF N
<1>2. \A i \in 1..N : Base128(arcs[i]) \in Seq(Byte)
  BY <1>1, Base128Type
<1>3. parts \in Seq(Seq(Byte)) /\ Len(parts) = N /\ \A i \in 1..N : parts[i] = Base128(arcs[i])
  <2>1. parts = [i \in 1..N |-> Base128(arcs[i])]
    BY <1>1
  <2> HIDE DEF parts
  <2>2. QED
    BY <1>1, <1>2, <2>1
<1>4. Arcs128(arcs) = FlattenSeq(parts)
  BY DEF Arcs128
<1> HIDE DEF parts
<1>5. PICK f : /\ Covers(parts, f) /\ FlattenSeq(parts) = f[N]
               /\ \A i \in 0..N : f[i] \in Seq(Byte)
  <2>1. \E f : /\ Covers(parts, f) /\ FlattenSeq(parts) = f[Len(parts)]
               /\ \A i \in 0..Len(parts) : f[i] \in Seq(Byte)
    BY <1>3, FlattenRuns
  <2>2. QED
    BY <1>3, <2>1
<1>6. f[0] = << >> /\ \A i \in 1..N : f[i] = f[i - 1] \o parts[i]
  BY <1>3, <1>5 DEF Covers
<1> DEFINE Part(ns, n) ==
              /\ ns \in Seq(Nat) /\ Len(ns) = n /\ \A i \in 1..n : ns[i] = arcs[i]
              /\ Turns(f[n], Whole(names), Whole(names \o ns))
              /\ f[n] = << >> \/ Ends(f[n])
           Ready == {n \in Nat : n <= N => \E ns : Part(ns, n)}
<1>7. 0 \in Ready
  <2>1. names \o << >> = names
    BY ConcatEmptySeq
  <2>2. Turns(f[0], Whole(names), Whole(names \o << >>))
    BY <1>6, <2>1, TurnsNothing
  <2>3. Part(<< >>, 0)
    BY <1>6, <2>2, EmptySeq
  <2>4. QED
    BY <2>3
<1>8. ASSUME NEW n \in Nat, n \in Ready PROVE n + 1 \in Ready
  <2> SUFFICES ASSUME n + 1 <= N PROVE \E ns : Part(ns, n + 1)
    OBVIOUS
  <2> HIDE DEF Part
  <2>1. PICK ns : Part(ns, n)
    BY <1>1, <1>8
  <2>2. /\ ns \in Seq(Nat) /\ Len(ns) = n /\ \A i \in 1..n : ns[i] = arcs[i]
        /\ Turns(f[n], Whole(names), Whole(names \o ns))
    BY <2>1 DEF Part
  <2>3. n + 1 \in 1..N /\ (n + 1) - 1 = n /\ n \in 0..N
    BY <1>1
  <2> DEFINE x == arcs[n + 1]
             ms == Append(ns, x)
  <2>4. x \in Nat /\ f[n + 1] = f[n] \o Base128(x) /\ f[n] \in Seq(Byte)
    BY <1>1, <1>3, <1>5, <1>6, <2>3
  <2>5. Base128(x) \in Seq(Byte) /\ Ends(Base128(x))
        /\ Turns(Base128(x), Whole(names \o ns), Whole(Append(names \o ns, x)))
    BY <2>4, Base128Type, ArcTurns
  <2>6. names \o ms = Append(names \o ns, x)
    BY <2>2, <2>4, AppendJoined
  <2>7. ms \in Seq(Nat) /\ Len(ms) = n + 1 /\ \A i \in 1..(n + 1) : ms[i] = arcs[i]
    <3>1. /\ Append(ns, x) \in Seq(Nat) /\ Len(Append(ns, x)) = Len(ns) + 1
          /\ \A i \in 1..Len(ns) : Append(ns, x)[i] = ns[i]
          /\ Append(ns, x)[Len(ns) + 1] = x
      BY <2>2, <2>4, AppendProperties
    <3> HIDE DEF ms
    <3>2. ASSUME NEW i \in 1..(n + 1) PROVE ms[i] = arcs[i]
      <4>1. i \in 1..n \/ i = n + 1
        OBVIOUS
      <4>2. QED
        BY <2>2, <3>1, <4>1 DEF ms
    <3>3. QED
      BY <2>2, <3>1, <3>2 DEF ms
  <2> HIDE DEF x, ms
  <2>8. Turns(f[n + 1], Whole(names), Whole(names \o ms))
    <3>1. f[n] \in Seq(Nat) /\ Base128(x) \in Seq(Nat)
      BY <2>4, <2>5, Widened
    <3>2. QED
      BY <2>2, <2>4, <2>5, <2>6, <3>1, TurnsBoth
  <2>9. Ends(f[n + 1])
    BY <2>4, <2>5, EndsBoth
  <2>10. Part(ms, n + 1)
    BY <2>7, <2>8, <2>9 DEF Part
  <2>11. QED
    BY <2>10
<1> HIDE DEF Ready
<1>9. \A n \in Nat : n \in Ready
  BY <1>7, <1>8, Induct
<1> HIDE DEF Part
<1>10. PICK ns : Part(ns, N)
  <2>1. N \in Ready /\ N <= N
    BY <1>1, <1>9
  <2>2. \E ns : Part(ns, N)
    BY <2>1 DEF Ready
  <2>3. QED
    BY <2>2
<1>11. ns = arcs
  <2>1. ns \in Seq(Nat) /\ Len(ns) = Len(arcs) /\ \A i \in 1..Len(ns) : ns[i] = arcs[i]
    BY <1>10 DEF N, Part
  <2>2. QED
    BY <2>1, SeqEqual
<1>12. f[N] \in Seq(Byte)
  BY <1>1, <1>5
<1>13. QED
  BY <1>4, <1>5, <1>10, <1>11, <1>12 DEF Part

\* An OID: two arcs at least, under 0 to 2, forty of them under 0 and 1.
Oid(arcs) == /\ arcs \in Seq(Nat) /\ Len(arcs) >= 2 /\ arcs[1] <= 2
             /\ arcs[1] < 2 => arcs[2] <= 39

\* A name is its first two arcs and those beyond.
LEMMA OidParts ==
  ASSUME NEW arcs, Oid(arcs)
  PROVE  /\ Len(arcs) \in Nat /\ arcs[1] \in Nat /\ arcs[2] \in Nat
         /\ Roots(arcs) = arcs[1] * 40 + arcs[2] /\ Roots(arcs) \in Nat
         /\ Beyond(arcs) \in Seq(Nat) /\ <<arcs[1], arcs[2]>> \o Beyond(arcs) = arcs
<1>1. arcs \in Seq(Nat) /\ Len(arcs) >= 2 /\ Len(arcs) \in Nat
  BY LenProperties DEF Oid
<1>2. Roots(arcs) \in Nat /\ Beyond(arcs) \in Seq(Nat)
  BY <1>1, BeyondType
<1>3. arcs[1] \in Nat /\ arcs[2] \in Nat
  BY <1>1, ElementOfSeq
<1> DEFINE y == <<arcs[1], arcs[2]>>
           b == SubSeq(arcs, 3, Len(arcs))
<1>4. y \in Seq(Nat) /\ Len(y) = 2 /\ y[1] = arcs[1] /\ y[2] = arcs[2]
  BY <1>3
<1>5. /\ b \in Seq(Nat) /\ Len(b) = Len(arcs) - 2
      /\ \A i \in 1..Len(arcs) - 2 : b[i] = arcs[2 + i]
  <2> DEFINE L == Len(arcs)
  <2>1. \A i \in 3..L : arcs[i] \in Nat
    BY <1>1, ElementOfSeq
  <2> HIDE DEF L
  <2>a. L \in Nat /\ L >= 2
    BY <1>1 DEF L
  <2>2. L \in Int /\ L - 3 + 1 = L - 2 /\ (3 <= L <=> L - 2 # 0) /\ L - 2 \in Nat
    BY <2>a
  <2>3. /\ SubSeq(arcs, 3, L) \in Seq(Nat)
        /\ Len(SubSeq(arcs, 3, L)) = IF 3 <= L THEN L - 3 + 1 ELSE 0
        /\ \A i \in 1..L - 3 + 1 : SubSeq(arcs, 3, L)[i] = arcs[3 + i - 1]
    BY <2>1, <2>2, SubSeqProperties
  <2>4. \A i \in 1..L - 2 : 3 + i - 1 = 2 + i
    OBVIOUS
  <2>5. QED
    BY <2>2, <2>3, <2>4 DEF L
<1> HIDE DEF y, b
<1> DEFINE c == y \o b
<1>6. /\ c \in Seq(Nat) /\ Len(c) = Len(y) + Len(b)
      /\ \A i \in 1..Len(y) : c[i] = y[i]
      /\ \A i \in 1..Len(b) : c[Len(y) + i] = b[i]
  <2>1. y \in Seq(Nat) /\ b \in Seq(Nat)
    BY <1>4, <1>5
  <2>2. QED
    BY <2>1, Joined
<1> HIDE DEF c
<1>7. Len(c) = Len(arcs)
  BY <1>1, <1>4, <1>5, <1>6
<1>8. ASSUME NEW i \in 1..Len(c) PROVE c[i] = arcs[i]
  <2>1. i = 1 \/ i = 2 \/ i > 2
    OBVIOUS
  <2>2. CASE i = 1
    BY <1>4, <1>6, <2>2
  <2>3. CASE i = 2
    BY <1>4, <1>6, <2>3
  <2>4. CASE i > 2
    <3>1. PICK k \in Nat : k = i - 2
      BY <2>4
    <3>2. k \in 1..Len(b) /\ i = 2 + k
      BY <1>1, <1>5, <1>7, <2>4, <3>1
    <3>3. QED
      BY <1>1, <1>4, <1>5, <1>6, <3>2
  <2>5. QED
    BY <2>1, <2>2, <2>3, <2>4
<1>9. c = arcs
  BY <1>1, <1>6, <1>7, <1>8, SeqEqual
<1>10. QED
  BY <1>1, <1>2, <1>3, <1>9 DEF c, y, b, Beyond, Roots

\* What the name of a trap is written as.
LEMMA TrapNameIs ==
  ASSUME NEW arcs, Oid(arcs)
  PROVE  TrapName(arcs) = Base128(Roots(arcs)) \o Arcs128(Beyond(arcs))
<1>1. ~(Len(arcs) < 2 \/ arcs[1] > 2 \/ (arcs[1] < 2 /\ arcs[2] > 39))
  BY OidParts DEF Oid
<1>2. QED
  BY <1>1, Zenon DEF TrapName

\* The first octet, and those behind it.
LEMMA ConsParts ==
  ASSUME NEW r \in Nat, NEW b \in Seq(Nat)
  PROVE  (<<r>> \o b)[1] = r /\ Tail(<<r>> \o b) = b /\ <<r>> \o b \in Seq(Nat)
<1> DEFINE y == <<r>>
           s == y \o b
<1>1. y \in Seq(Nat) /\ Len(y) = 1 /\ y[1] = r
  OBVIOUS
<1> HIDE DEF y
<1>2. /\ s \in Seq(Nat) /\ Len(s) = Len(y) + Len(b)
      /\ \A i \in 1..Len(y) : s[i] = y[i]
      /\ \A i \in 1..Len(b) : s[Len(y) + i] = b[i]
  <2>1. y \in Seq(Nat) /\ b \in Seq(Nat)
    BY <1>1
  <2>2. QED
    BY <2>1, Joined
<1> HIDE DEF s
<1>3. s[1] = r /\ s # << >> /\ Len(b) \in Nat
  BY <1>1, <1>2, LenProperties
<1>4. /\ Tail(s) \in Seq(Nat) /\ Len(Tail(s)) = Len(s) - 1
      /\ \A i \in 1..Len(Tail(s)) : Tail(s)[i] = s[i + 1]
  BY <1>2, <1>3, HeadTailProperties
<1>5. Tail(s) = b
  <2>1. Len(Tail(s)) = Len(b)
    BY <1>1, <1>2, <1>3, <1>4
  <2>2. \A i \in 1..Len(Tail(s)) : Tail(s)[i] = b[i]
    BY <1>1, <1>2, <1>3, <1>4, <2>1, SMTT(40)
  <2>3. QED
    BY <1>4, <2>1, <2>2, SeqEqual
<1>6. QED
  BY <1>2, <1>3, <1>5 DEF s, y

\* The receiver reads a name as it was written.
LEMMA TrapNameRead ==
  ASSUME NEW arcs, Oid(arcs)
  PROVE  /\ NameOfTrap(TrapName(arcs)) = arcs
         /\ TrapName(arcs) \in Seq(Byte) /\ Ends(TrapName(arcs))
<1> DEFINE r == Roots(arcs)
           b == Beyond(arcs)
           x == Base128(r)
           y == Arcs128(b)
           raw == x \o y
<1>1. /\ Len(arcs) \in Nat /\ arcs[1] \in Nat /\ arcs[2] \in Nat
      /\ r = arcs[1] * 40 + arcs[2] /\ r \in Nat
      /\ b \in Seq(Nat) /\ <<arcs[1], arcs[2]>> \o b = arcs
  BY OidParts
<1>2. TrapName(arcs) = raw
  BY TrapNameIs
<1> HIDE DEF r, b
<1>3. /\ x \in Seq(Byte) /\ Ends(x)
      /\ Turns(x, Whole(<< >>), Whole(Append(<< >>, r)))
  BY <1>1, Base128Type, ArcTurns
<1>4. Append(<< >>, r) = <<r>> /\ <<r>> \in Seq(Nat)
  BY <1>1
<1>5. /\ Turns(y, Whole(<<r>>), Whole(<<r>> \o b)) /\ y \in Seq(Byte)
      /\ y = << >> \/ Ends(y)
  BY <1>1, <1>4, ArcsTurn
<1> HIDE DEF x, y
<1>6. Turns(raw, Whole(<< >>), Whole(<<r>> \o b))
  BY <1>3, <1>4, <1>5, TurnsBoth, Widened
<1>7. raw \in Seq(Byte) /\ Ends(raw)
  <2>1. raw \in Seq(Byte)
    BY <1>3, <1>5, ConcatProperties
  <2>2. CASE y = << >>
    <3>1. raw = x
      BY <1>3, <2>2, ConcatEmptySeq
    <3>2. QED
      BY <1>3, <2>1, <3>1
  <2>3. CASE Ends(y)
    BY <1>3, <1>5, <2>1, <2>3, EndsBoth
  <2>4. QED
    BY <1>5, <2>2, <2>3
<1> HIDE DEF raw
<1>8. Subidentifiers(raw) = <<r>> \o b
  <2>1. Subidentifiers(raw) = Whole(<<r>> \o b).done
    BY <1>6, <1>7, Widened, TurnsEnd
  <2>2. QED
    BY <2>1 DEF Whole
<1>9. ~Truncated(raw)
  <2>1. raw[Len(raw)] \in Nat
    <3>1. Len(raw) \in 1..Len(raw)
      BY <1>7, EmptySeq, LenProperties DEF Ends
    <3>2. QED
      BY <1>7, <3>1, ElementOfSeq, ByteNat
  <2>2. QED
    BY <1>7, <2>1 DEF Truncated, Ends, Last
<1> DEFINE s == <<r>> \o b
<1>10. s[1] = r /\ Tail(s) = b
  BY <1>1, ConsParts
<1> HIDE DEF s
<1>11. Unrooted(s) = <<arcs[1], arcs[2]>> \o b
  <2>1. arcs[1] \in 0..2 /\ (arcs[1] < 2 => arcs[2] <= 39)
    BY <1>1, SMTT(40) DEF Oid
  <2>2. CASE arcs[1] = 0
    <3>1. r < 40 /\ arcs[2] = r
      BY <1>1, <2>1, <2>2
    <3>2. QED
      BY <1>10, <2>2, <3>1 DEF Unrooted
  <2>3. CASE arcs[1] = 1
    <3>1. ~(r < 40) /\ r < 80 /\ arcs[2] = r - 40
      BY <1>1, <2>1, <2>3
    <3>2. QED
      BY <1>10, <2>3, <3>1 DEF Unrooted
  <2>4. CASE arcs[1] = 2
    <3>1. ~(r < 40) /\ ~(r < 80) /\ arcs[2] = r - 80
      BY <1>1, <2>1, <2>4
    <3>2. QED
      BY <1>10, <2>4, <3>1 DEF Unrooted
  <2>5. QED
    BY <2>1, <2>2, <2>3, <2>4
<1>12. NameOfTrap(raw) = arcs
  BY <1>1, <1>8, <1>9, <1>11 DEF NameOfTrap, s
<1>13. QED
  BY <1>2, <1>7, <1>12

-----------------------------------------------------------------------------
(* Datagrams that lost their end                                           *)

HeadOf(tag, p) == <<tag>> \o Length(Len(p))

\* The head of an element comes before its value.
LEMMA HeadIs ==
  ASSUME NEW tag \in Byte, NEW p \in Seq(Byte), Len(p) <= Datagram
  PROVE  LET h == HeadOf(tag, p)
             l == Length(Len(p)) IN
         /\ Tlv(tag, p) = h \o p /\ h \in Seq(Byte)
         /\ l \in Seq(Byte) /\ Len(l) \in Nat /\ Len(h) = 1 + Len(l)
         /\ h[1] = tag /\ \A i \in 1..Len(l) : h[1 + i] = l[i]
<1> DEFINE x == <<tag>>
           l == Length(Len(p))
<1>1. l \in Seq(Byte)
  BY LengthType, LenProperties
<1>2. x \in Seq(Byte) /\ Len(x) = 1 /\ x[1] = tag
  OBVIOUS
<1>3. Tlv(tag, p) = (x \o l) \o p /\ HeadOf(tag, p) = x \o l
  BY DEF Tlv, HeadOf
<1> HIDE DEF x, l
<1>4. x \in Seq(Byte)
  BY <1>2
<1>5. /\ x \o l \in Seq(Byte) /\ Len(x \o l) = Len(x) + Len(l) /\ Len(l) \in Nat
      /\ \A i \in 1..Len(x) : (x \o l)[i] = x[i]
      /\ \A i \in 1..Len(l) : (x \o l)[Len(x) + i] = l[i]
  BY <1>1, <1>4, Joined
<1>6. QED
  BY <1>1, <1>2, <1>3, <1>5 DEF l

\* What the last element of a text holds is read from the place it says.
LEMMA InsideLast ==
  ASSUME NEW a \in Seq(Byte), NEW tag \in Byte, NEW p, NEW items, Reads(p, items),
         Len(p) <= Datagram, NEW most \in Widths
  PROVE  LET raw == a \o Tlv(tag, p) IN
         Like(Elements(raw, Len(raw) + 1 - Len(p), most), items, Len(raw) + 1)
<1> DEFINE h == HeadOf(tag, p)
           b == a \o h
<1>1. p \in Seq(Byte)
  BY DEF Reads
<1>2. Tlv(tag, p) = h \o p /\ h \in Seq(Byte)
  BY <1>1, HeadIs
<1> HIDE DEF h
<1>3. b \in Seq(Byte)
  BY <1>2, Joined
<1>4. a \o Tlv(tag, p) = b \o p
  BY <1>1, <1>2, Assoc, SMTT(40)
<1> HIDE DEF b
<1>5. Len(b \o p) = Len(b) + Len(p) /\ Len(b) \in Nat /\ Len(p) \in Nat
  BY <1>1, <1>3, Joined
<1>6. Like(Elements(b \o p, Len(b) + 1, most), items, Len(b \o p) + 1)
  BY <1>3, ReadsLast
<1>7. Len(b) + 1 = Len(b \o p) + 1 - Len(p)
  BY <1>5
<1>8. QED
  BY <1>4, <1>6, <1>7

-----------------------------------------------------------------------------
(* A packet that lost its end                                               *)

\* The first m octets of a text, whose parts are h and p.
LEMMA CutParts ==
  ASSUME NEW h \in Seq(Byte), NEW p \in Seq(Byte), NEW m \in Nat, m < Len(h \o p)
  PROVE  LET raw == SubSeq(h \o p, 1, m) IN
         /\ raw \in Seq(Byte) /\ Len(raw) = m
         /\ \A i \in 1..m : i <= Len(h) => raw[i] = h[i]
         /\ m >= Len(h) => \E c \in Seq(Byte) : raw = h \o c /\ Len(c) < Len(p)
<1> DEFINE x == h \o p
           raw == SubSeq(x, 1, m)
<1>1. /\ x \in Seq(Byte) /\ Len(x) = Len(h) + Len(p) /\ Len(h) \in Nat /\ Len(p) \in Nat
      /\ \A i \in 1..Len(h) : x[i] = h[i]
      /\ \A i \in 1..Len(p) : x[Len(h) + i] = p[i]
  BY Joined
<1> HIDE DEF x
<1>2. m < Len(x)
  BY DEF x
<1>3. \A i \in 1..m : x[i] \in Byte
  BY <1>1, <1>2, ElementOfSeq
<1>4. /\ SubSeq(x, 1, m) \in Seq(Byte)
      /\ Len(SubSeq(x, 1, m)) = IF 1 <= m THEN m - 1 + 1 ELSE 0
      /\ \A i \in 1..m - 1 + 1 : SubSeq(x, 1, m)[i] = x[1 + i - 1]
  BY <1>3, SubSeqProperties
<1>5. raw \in Seq(Byte) /\ Len(raw) = m /\ \A i \in 1..m : raw[i] = x[i]
  BY <1>4
<1> HIDE DEF raw
<1>6. \A i \in 1..m : i <= Len(h) => raw[i] = h[i]
  BY <1>1, <1>5
<1>7. ASSUME m >= Len(h) PROVE \E c \in Seq(Byte) : raw = h \o c /\ Len(c) < Len(p)
  <2> DEFINE k == m - Len(h)
             c == SubSeq(p, 1, k)
  <2>1. k \in Nat /\ k < Len(p) /\ m = Len(h) + k
    BY <1>1, <1>2, <1>7
  <2> HIDE DEF k
  <2>2. \A i \in 1..k : p[i] \in Byte
    BY <1>1, <2>1, ElementOfSeq
  <2>3. /\ SubSeq(p, 1, k) \in Seq(Byte)
        /\ Len(SubSeq(p, 1, k)) = IF 1 <= k THEN k - 1 + 1 ELSE 0
        /\ \A i \in 1..k - 1 + 1 : SubSeq(p, 1, k)[i] = p[1 + i - 1]
    BY <2>1, <2>2, SubSeqProperties
  <2>4. c \in Seq(Byte) /\ Len(c) = k /\ \A i \in 1..k : c[i] = p[i]
    BY <2>1, <2>3
  <2> HIDE DEF c
  <2> DEFINE y == h \o c
  <2>5. /\ y \in Seq(Byte) /\ Len(y) = Len(h) + Len(c)
        /\ \A i \in 1..Len(h) : y[i] = h[i]
        /\ \A i \in 1..Len(c) : y[Len(h) + i] = c[i]
    <3>1. c \in Seq(Byte)
      BY <2>4
    <3>2. QED
      BY <3>1, Joined
  <2> HIDE DEF y
  <2>6. ASSUME NEW i \in 1..Len(raw) PROVE raw[i] = y[i]
    <3>1. CASE i <= Len(h)
      BY <1>1, <1>5, <2>1, <2>5, <3>1
    <3>2. CASE ~(i <= Len(h))
      <4>1. i \in Int /\ Len(h) \in Int
        BY <1>1
      <4>2. i - Len(h) \in Int
        BY <4>1
      <4>3. PICK j \in Int : j = i - Len(h)
        BY <4>2
      <4>4. i = Len(h) + j /\ j \in 1..k /\ i \in 1..m
        BY <1>1, <1>5, <2>1, <3>2, <4>3
      <4>5. j \in 1..Len(p) /\ j \in 1..Len(c)
        BY <1>1, <2>1, <2>4, <4>4
      <4>6. raw[i] = p[j] /\ y[i] = c[j] /\ c[j] = p[j]
        BY <1>1, <1>5, <2>4, <2>5, <4>4, <4>5
      <4>7. QED
        BY <4>6
    <3>3. QED
      BY <3>1, <3>2
  <2>7. raw = y
    <3>1. Len(raw) = Len(y)
      BY <1>5, <2>1, <2>4, <2>5
    <3>2. QED
      BY <1>5, <2>5, <2>6, <3>1, SeqEqual
  <2>8. QED
    BY <2>1, <2>4, <2>7 DEF y
<1>8. QED
  BY <1>5, <1>6, <1>7 DEF raw, x

\* More than one.
LEMMA NotOne == \A m, a \in Nat : \A b : m >= 2 /\ m < b /\ b = 1 + a => a # 1
  OBVIOUS

\* Of an element that lost its end nothing is read.
LEMMA CutRead ==
  ASSUME NEW tag \in Byte, NEW p \in Seq(Byte), Len(p) <= Datagram, NEW most \in Widths,
         NEW m \in Nat, m < Len(Tlv(tag, p))
  PROVE  ReadTlv(SubSeq(Tlv(tag, p), 1, m), 1, most) = NoElement
<1> DEFINE h == HeadOf(tag, p)
           n == Len(p)
           l == Length(n)
           raw == SubSeq(Tlv(tag, p), 1, m)
<1>1. /\ Tlv(tag, p) = h \o p /\ h \in Seq(Byte)
      /\ l \in Seq(Byte) /\ Len(l) \in Nat /\ Len(h) = 1 + Len(l)
      /\ h[1] = tag /\ \A i \in 1..Len(l) : h[1 + i] = l[i]
  BY HeadIs
<1>2. h = <<tag>> \o l
  BY DEF HeadOf
<1>3. n \in Nat /\ n <= Datagram
  BY LenProperties
<1>4. (n < 128 /\ l = <<n>>) \/ \E d \in Seq(Byte) : Len(d) # 0 /\ LongLength(n, d)
  BY <1>3, LengthForms
<1> HIDE DEF h, l
<1>5. /\ raw \in Seq(Byte) /\ Len(raw) = m
      /\ \A i \in 1..m : i <= Len(h) => raw[i] = h[i]
      /\ m >= Len(h) => \E c \in Seq(Byte) : raw = h \o c /\ Len(c) < Len(p)
  <2>1. h \in Seq(Byte) /\ m < Len(h \o p) /\ raw = SubSeq(h \o p, 1, m)
    BY <1>1
  <2> HIDE DEF raw
  <2>2. /\ SubSeq(h \o p, 1, m) \in Seq(Byte) /\ Len(SubSeq(h \o p, 1, m)) = m
        /\ \A i \in 1..m : i <= Len(h) => SubSeq(h \o p, 1, m)[i] = h[i]
        /\ m >= Len(h) => \E c \in Seq(Byte) :
              SubSeq(h \o p, 1, m) = h \o c /\ Len(c) < Len(p)
    BY <2>1, CutParts, ZenonT(60)
  <2>3. QED
    BY <2>1, <2>2
<1> HIDE DEF raw
<1>6. CASE m < 2
  <2>1. 1 + 1 > Len(raw)
    BY <1>5, <1>6
  <2>2. QED
    BY <2>1 DEF ReadTlv, raw
<1>7. CASE m >= 2 /\ m < Len(h)
  <2>1. l # <<n>>
    <3>1. Len(l) \in Nat /\ Len(h) = 1 + Len(l)
      BY <1>1
    <3>2. m >= 2 /\ m < Len(h)
      BY <1>7
    <3>3. Len(l) # 1
      BY <3>1, <3>2, NotOne
    <3>4. QED
      BY <3>3
  <2>2. PICK d \in Seq(Byte) : Len(d) # 0 /\ LongLength(n, d)
    BY <1>4, <2>1
  <2>3. PICK k \in Nat : k = Len(d)
    BY LenProperties
  <2>4. k # 0 /\ k <= 2 /\ l = <<128 + k>> \o d
    BY <2>2, <2>3 DEF LongLength, l
  <2>5. Len(l) = 1 + k /\ l[1] = 128 + k
    <3> DEFINE y == <<128 + k>>
    <3>1. y \in Seq(Nat) /\ Len(y) = 1 /\ y[1] = 128 + k
      OBVIOUS
    <3>2. y \in Seq(Nat) /\ d \in Seq(Nat)
      BY <3>1, Widened
    <3>3. l = y \o d
      BY <2>4
    <3> HIDE DEF y
    <3>4. /\ Len(y \o d) = Len(y) + Len(d)
          /\ \A i \in 1..Len(y) : (y \o d)[i] = y[i]
      BY <3>2, Joined
    <3>5. QED
      BY <2>3, <3>1, <3>3, <3>4
  <2>6. raw[1 + 1] = 128 + k
    <3>1. raw[2] = h[2] /\ h[1 + 1] = l[1]
      BY <1>1, <1>5, <1>7, <2>5
    <3>2. QED
      BY <2>5, <3>1
  <2> DEFINE start == 1 + raw[1 + 1] - 126
  <2>7. start > Len(raw) + 1 /\ ~(raw[1 + 1] < 128) /\ ~(1 + 1 > Len(raw))
    BY <1>1, <1>5, <1>7, <2>4, <2>5, <2>6
  <2>8. QED
    BY <2>7, Zenon DEF ReadTlv, raw
<1>8. CASE m >= Len(h)
  <2>1. PICK c \in Seq(Byte) : raw = h \o c /\ Len(c) < n
    BY <1>5, <1>8
  <2>2. HeadRead((<< >> \o h) \o c, Len(<< >>), most, l, n)
    <3>1. << >> \in Seq(Byte)
      BY EmptySeq
    <3>2. QED
      BY <1>2, <1>3, <3>1, ReadHead DEF l
  <2>3. << >> \o h = h /\ Len(<< >>) = 0
    BY <1>1, ConcatEmptySeq, EmptySeq
  <2>4. ReadTlv(raw, 0 + 1, most) = ElementFrom(raw, 0 + 1, 0 + 2 + Len(l), n)
    BY <2>1, <2>2, <2>3 DEF HeadRead
  <2>5. Len(raw) = Len(h) + Len(c) /\ Len(c) \in Nat
    BY <1>1, <2>1, Joined
  <2>6. 0 + 2 + Len(l) + n > Len(raw) + 1 /\ 0 + 1 = 1
    BY <1>1, <1>3, <2>1, <2>5
  <2>7. QED
    BY <2>4, <2>6 DEF ElementFrom, raw
<1>9. QED
  BY <1>1, <1>6, <1>7, <1>8

-----------------------------------------------------------------------------
(* What is told by a list of varbinds                                       *)

\* The items, taken one after another, lead from what is known to what is known then.
Takes(x, s, t) ==
    \E f : /\ f[0] = s /\ f[Len(x)] = t
           /\ \A i \in 1..Len(x) : f[i] = TakeBind(f[i - 1], x[i])

\* No varbinds leave everything as it is known.
LEMMA TakesNothing == \A s : Takes(<< >>, s, s)
<1> TAKE s
<1> DEFINE f == [i \in 0..0 |-> s]
<1>1. f[0] = s /\ Len(<< >>) = 0
  OBVIOUS
<1> HIDE DEF f
<1>2. QED
  BY <1>1 DEF Takes

\* One varbind is one step.
LEMMA TakesOne ==
  ASSUME NEW x, NEW s
  PROVE  Takes(<<x>>, s, TakeBind(s, x))
<1> DEFINE t == TakeBind(s, x)
           f == [i \in 0..1 |-> IF i = 0 THEN s ELSE t]
           y == <<x>>
<1>1. f[0] = s /\ f[1] = t /\ Len(y) = 1 /\ y[1] = x
  OBVIOUS
<1> HIDE DEF f, y
<1>2. \A i \in 1..Len(y) : f[i] = TakeBind(f[i - 1], y[i])
  BY <1>1
<1> HIDE DEF t
<1>3. Takes(y, s, t)
  BY <1>1, <1>2 DEF Takes
<1>4. QED
  BY <1>3 DEF t, y

\* Varbinds put together lead where the second lead from where the first do.
LEMMA TakesBoth ==
  ASSUME NEW x \in Seq(FitItem), NEW y \in Seq(FitItem), NEW s, NEW t, NEW u,
         Takes(x, s, t), Takes(y, t, u)
  PROVE  Takes(x \o y, s, u)
<1>1. PICK f : /\ f[0] = s /\ f[Len(x)] = t
               /\ \A i \in 1..Len(x) : f[i] = TakeBind(f[i - 1], x[i])
  BY DEF Takes
<1>2. PICK g : /\ g[0] = t /\ g[Len(y)] = u
               /\ \A i \in 1..Len(y) : g[i] = TakeBind(g[i - 1], y[i])
  BY DEF Takes
<1> DEFINE c == x \o y
           h == [i \in 0..Len(c) |-> IF i <= Len(x) THEN f[i] ELSE g[i - Len(x)]]
<1>3. /\ c \in Seq(FitItem) /\ Len(c) = Len(x) + Len(y) /\ Len(x) \in Nat /\ Len(y) \in Nat
      /\ \A i \in 1..Len(x) : c[i] = x[i]
      /\ \A i \in 1..Len(y) : c[Len(x) + i] = y[i]
  BY Joined
<1> HIDE DEF c
<1>4. h[0] = s /\ h[Len(c)] = u
  <2>1. h[0] = s
    BY <1>1, <1>3
  <2>2. h[Len(c)] = u
    <3>1. CASE Len(y) = 0
      BY <1>1, <1>2, <1>3, <3>1
    <3>2. CASE Len(y) # 0
      BY <1>2, <1>3, <3>2
    <3>3. QED
      BY <3>1, <3>2
  <2>3. QED
    BY <2>1, <2>2
<1>5. ASSUME NEW i \in 1..Len(c) PROVE h[i] = TakeBind(h[i - 1], c[i])
  <2>1. CASE i <= Len(x)
    <3>1. i \in 1..Len(x) /\ h[i] = f[i] /\ h[i - 1] = f[i - 1]
      BY <1>3, <2>1
    <3> HIDE DEF h
    <3>2. QED
      BY <1>1, <1>3, <3>1
  <2>2. CASE ~(i <= Len(x))
    <3>1. PICK k \in Int : k = i - Len(x)
      <4>1. i \in Int /\ Len(x) \in Int
        BY <1>3
      <4>2. i - Len(x) \in Int
        BY <4>1
      <4>3. QED
        BY <4>2
    <3>2. k \in 1..Len(y) /\ i = Len(x) + k /\ h[i] = g[k]
      BY <1>3, <2>2, <3>1
    <3>3. h[i - 1] = g[k - 1]
      <4>1. CASE k = 1
        BY <1>1, <1>2, <1>3, <3>2, <4>1
      <4>2. CASE k # 1
        BY <1>3, <3>2, <4>2
      <4>3. QED
        BY <4>1, <4>2
    <3>4. g[k] = TakeBind(g[k - 1], y[k]) /\ c[i] = y[k]
      BY <1>2, <1>3, <3>2
    <3> HIDE DEF h
    <3>5. QED
      BY <3>2, <3>3, <3>4
  <2>3. QED
    BY <2>1, <2>2
<1> HIDE DEF h
<1>6. QED
  BY <1>4, <1>5 DEF Takes, c

\* TakeBinds is where the varbinds lead.
LEMMA TakesEnd ==
  ASSUME NEW x \in Seq(FitItem), NEW start, NEW t, Takes(x, start, t), NEW es,
         Len(es) = Len(x), \A i \in 1..Len(x) : HasItem(es[i], x[i])
  PROVE  TakeBinds(start, es) = t
<1> DEFINE L == Len(x)
           Step(g, i) == IF i = 0 THEN start ELSE TakeBind(g[i - 1], es[i])
           Is(g) == g = [i \in 0..L |-> Step(g, i)]
           d == CHOOSE g : Is(g)
<1>0. L \in Nat /\ L = Len(es) /\ \A i \in 1..L : \A k : TakeBind(k, es[i]) = TakeBind(k, x[i])
  <2>1. \A i \in 1..L : \A k : TakeBind(k, es[i]) = TakeBind(k, x[i])
    BY Zenon DEF HasItem, TakeBind
  <2>2. QED
    BY <2>1, LenProperties
<1>1. PICK f0 : /\ f0[0] = start /\ f0[L] = t
                /\ \A i \in 1..L : f0[i] = TakeBind(f0[i - 1], x[i])
  BY DEF Takes
<1> DEFINE f == [i \in 0..L |-> f0[i]]
<1>2. /\ f[0] = start /\ f[L] = t /\ f = [i \in 0..L |-> f[i]]
      /\ \A i \in 1..L : f[i] = f0[i] /\ f[i - 1] = f0[i - 1]
  BY <1>0, <1>1
<1> HIDE DEF f
<1>3. \A i \in 0..L : f[i] = Step(f, i)
  <2> TAKE i \in 0..L
  <2>1. CASE i = 0
    BY <1>2, <2>1
  <2>2. CASE i # 0
    <3>1. i \in 1..L
      BY <1>0, <2>2
    <3>2. QED
      BY <1>0, <1>1, <1>2, <2>2, <3>1, ZenonT(60)
  <2>3. QED
    BY <2>1, <2>2
<1> HIDE DEF Step
<1>4. Is(f)
  BY <1>2, <1>3
<1>5. Is(d)
  <2> HIDE DEF Is
  <2>1. QED
    BY <1>4
<1>6. TakeBinds(start, es) = d[L]
  BY <1>0 DEF TakeBinds, Step
<1> HIDE DEF d
<1>7. \A i \in 0..L : d[i] = Step(d, i)
  BY <1>5
<1> HIDE DEF Is, L
<1>8. d[0] = f[0]
  BY <1>0, <1>3, <1>7 DEF Step
<1>9. \A i \in 1..L : d[i - 1] = f[i - 1] => d[i] = f[i]
  BY <1>0, <1>3, <1>7 DEF Step
<1>10. GoAlike(d, f, L)
  BY <1>8, <1>9 DEF GoAlike
<1>11. SameUpto(d, f, L)
  BY <1>0, <1>10, Agree
<1>12. d[L] = f[L]
  BY <1>0, <1>11 DEF SameUpto
<1>13. QED
  BY <1>2, <1>6, <1>12

\* Of x, if it fits into a datagram, varbinds are read that lead from s to t.
Says(x, s, t) ==
    \E items : /\ Told(x, items) /\ (items = << >> => x = << >>)
               /\ Len(x) <= Datagram => Takes(items, s, t)

\* The empty text says nothing.
LEMMA SaysNothing == \A s : Says(<< >>, s, s)
  BY ToldNothing, TakesNothing DEF Says

\* What two texts put together say.
LEMMA SaysBoth ==
  ASSUME NEW x, NEW y, NEW s, NEW t, NEW u, Says(x, s, t), Says(y, t, u)
  PROVE  Says(x \o y, s, u)
<1>1. PICK is : /\ Told(x, is) /\ (is = << >> => x = << >>)
                /\ Len(x) <= Datagram => Takes(is, s, t)
  BY DEF Says
<1>2. PICK js : /\ Told(y, js) /\ (js = << >> => y = << >>)
                /\ Len(y) <= Datagram => Takes(js, t, u)
  BY DEF Says
<1>3. /\ x \in Seq(Nat) /\ y \in Seq(Nat)
      /\ is \in Seq(FitItem) /\ js \in Seq(FitItem)
  BY <1>1, <1>2 DEF Told, Fit
<1>4. Told(x \o y, is \o js)
  BY <1>1, <1>2, ToldBoth
<1>5. is \o js = << >> => x \o y = << >>
  BY <1>1, <1>2, <1>3, ConcatEqualIffEmpty
<1>6. ASSUME Len(x \o y) <= Datagram PROVE Takes(is \o js, s, u)
  <2>1. Len(x \o y) = Len(x) + Len(y) /\ Len(x) \in Nat /\ Len(y) \in Nat
    BY <1>3, Joined
  <2>2. Len(x) <= Datagram /\ Len(y) <= Datagram
    BY <1>6, <2>1 DEF Datagram
  <2>3. Takes(is, s, t) /\ Takes(js, t, u)
    BY <1>1, <1>2, <2>2
  <2>4. QED
    BY <1>3, <2>3, TakesBoth
<1>7. QED
  BY <1>4, <1>5, <1>6 DEF Says

\* What a text says that may be absent.
LEMMA SaysWhen ==
  ASSUME NEW p, NEW x, NEW s, NEW t, NEW u,
         p => Says(x, s, t), u = IF p THEN t ELSE s
  PROVE  Says(When(p, x), s, u)
<1>1. CASE p
  BY <1>1 DEF When
<1>2. CASE ~p
  BY <1>2, SaysNothing DEF When
<1>3. QED
  BY <1>1, <1>2

\* What a varbind of this name, tag and octets tells.
Learnt(known, arcs, tag, raw) ==
    Learn(known, arcs, [ok |-> TRUE, tag |-> tag, value |-> raw], NumberOf(tag, raw))

\* A varbind is taken for its name, tag and value.
LEMMA BindTaken ==
  ASSUME NEW arcs, Oid(arcs), NEW tag \in Byte, NEW p \in Seq(Byte), NEW known,
         Len(Tlv(6, TrapName(arcs)) \o Tlv(tag, p)) <= Datagram
  PROVE  TakeBind(known, Item(48, Tlv(6, TrapName(arcs)) \o Tlv(tag, p)))
            = Learnt(known, arcs, tag, p)
<1> DEFINE name == TrapName(arcs)
           x == Tlv(6, name)
           y == Tlv(tag, p)
           raw == x \o y
<1>1. /\ NameOfTrap(name) = arcs /\ name \in Seq(Byte)
  BY TrapNameRead
<1>2. 6 \in Byte /\ 3 \in Widths
  BY DEF Byte, Widths
<1>3. name \in Fit /\ p \in Fit
  BY <1>1, BytesFit
<1>4. /\ Len(name) \in Nat /\ Len(x) \in Nat /\ Len(name) + 2 <= Len(x)
      /\ Len(p) \in Nat /\ Len(y) \in Nat /\ Len(p) + 2 <= Len(y)
  BY <1>2, <1>3, TlvLonger
<1>5. x \in Seq(Nat) /\ y \in Seq(Nat)
  BY <1>2, <1>3, TlvFits DEF Fit
<1> HIDE DEF name
<1>6. Len(raw) = Len(x) + Len(y) /\ Len(raw) <= Datagram
  BY <1>5, Joined DEF name
<1>7. Len(name) <= Datagram /\ Len(p) <= Datagram /\ Len(x) <= Datagram /\ Len(y) <= Datagram
  BY <1>4, <1>6 DEF Datagram
<1>8. x \in Seq(Byte) /\ y \in Seq(Byte) /\ << >> \in Seq(Byte)
  BY <1>2, <1>3, <1>7, TlvFits, EmptySeq DEF Fit
<1>9. ReadAs((<< >> \o x) \o y, Len(<< >>) + 1, 3, Element(6, name, Len(<< >>) + Len(x) + 1))
  <2> HIDE DEF y
  <2>1. QED
    BY <1>1, <1>2, <1>7, <1>8, ReadOne
<1>10. ReadAs((x \o y) \o << >>, Len(x) + 1, 3, Element(tag, p, Len(x) + Len(y) + 1))
  <2> HIDE DEF x
  <2>1. QED
    BY <1>2, <1>7, <1>8, ReadOne
<1> HIDE DEF x, y
<1>11. << >> \o x = x /\ Len(<< >>) = 0
  BY <1>8, ConcatEmptySeq, EmptySeq
<1>12. raw \o << >> = raw
  <2>1. raw \in Seq(Byte)
    BY <1>8, Joined
  <2> HIDE DEF raw
  <2>2. QED
    BY <2>1, ConcatEmptySeq
<1>13. ReadTlv(raw, 1, 3) = Element(6, name, Len(x) + 1)
  BY <1>4, <1>9, <1>11 DEF ReadAs
<1>14. ReadTlv(raw, Len(x) + 1, 3) = Element(tag, p, Len(x) + Len(y) + 1)
  BY <1>10, <1>12 DEF ReadAs
<1> HIDE DEF raw
<1> DEFINE e == Len(x) + 1
           f == Len(x) + Len(y) + 1
<1> HIDE DEF e, f
<1>15. /\ Element(6, name, e).ok /\ Element(6, name, e).tag = 6
       /\ Element(6, name, e).value = name /\ Element(6, name, e).end = e
       /\ Element(tag, p, f).ok = TRUE /\ Element(tag, p, f).tag = tag
       /\ Element(tag, p, f).value = p
  BY DEF Element
<1>16. TakeBind(known, Item(48, raw)) = LearnFrom(known, arcs, Element(tag, p, f))
  <2>1. Item(48, raw).tag = 48 /\ Item(48, raw).value = raw
    BY DEF Item
  <2>2. QED
    BY <1>1, <1>13, <1>14, <1>15, <2>1 DEF TakeBind, e, f
<1>17. LearnFrom(known, arcs, Element(tag, p, f)) = Learnt(known, arcs, tag, p)
  <2> DEFINE v == Element(tag, p, f)
             w == [ok |-> TRUE, tag |-> tag, value |-> p]
  <2>1. v.ok = w.ok /\ v.tag = w.tag /\ v.value = w.value /\ w.ok /\ w.tag = tag /\ w.value = p
    BY <1>15
  <2> HIDE DEF v, w
  <2>2. LearnFrom(known, arcs, v) = Learn(known, arcs, v, NumberOf(tag, p))
    BY <2>1 DEF LearnFrom
  <2>3. \A n : Learn(known, arcs, v, n) = Learn(known, arcs, w, n)
    BY <2>1, Zenon DEF Learn
  <2>4. QED
    BY <2>2, <2>3 DEF Learnt, w, v
<1>18. QED
  BY <1>16, <1>17 DEF raw, x, y, name

\* What the text of one varbind says.
LEMMA SaysBind ==
  ASSUME NEW arcs, Oid(arcs), NEW tag \in Byte, NEW p \in Fit, NEW known, NEW t,
         Learnt(known, arcs, tag, p) = t
  PROVE  Says(Bind(arcs, tag, p), known, t)
<1> DEFINE body == Tlv(6, TrapName(arcs)) \o Tlv(tag, p)
           x == Tlv(48, body)
           item == Item(48, body)
<1>1. 6 \in Byte /\ 48 \in Byte
  BY DEF Byte
<1>2. TrapName(arcs) \in Fit
  BY TrapNameRead, BytesFit
<1>3. Tlv(6, TrapName(arcs)) \in Fit /\ Tlv(tag, p) \in Fit
  BY <1>1, <1>2, TlvFits
<1>4. body \in Fit
  BY <1>3, BothFit
<1>5. ASSUME Len(x) <= Datagram PROVE TakeBind(known, item) = t
  <2> HIDE DEF body
  <2>1. Len(body) <= Datagram
    BY <1>1, <1>4, <1>5, TlvLonger DEF Datagram
  <2>2. p \in Seq(Byte)
    <3>1. Tlv(6, TrapName(arcs)) \in Seq(Nat) /\ Tlv(tag, p) \in Seq(Nat)
      BY <1>3 DEF Fit
    <3>2. /\ Len(body) = Len(Tlv(6, TrapName(arcs))) + Len(Tlv(tag, p))
          /\ Len(Tlv(6, TrapName(arcs))) \in Nat
      BY <3>1, Joined DEF body
    <3>3. Len(p) \in Nat /\ Len(Tlv(tag, p)) \in Nat /\ Len(p) + 2 <= Len(Tlv(tag, p))
      BY TlvLonger
    <3>4. Len(p) <= Datagram
      BY <2>1, <3>2, <3>3 DEF Datagram
    <3>5. QED
      BY <3>4 DEF Fit
  <2>3. QED
    BY <2>1, <2>2, BindTaken DEF body
<1> HIDE DEF body
<1>6. Told(x, <<item>>)
  BY <1>1, <1>4, ToldOne
<1>7. Takes(<<item>>, known, TakeBind(known, item))
  BY TakesOne
<1> HIDE DEF item, x
<1>8. <<item>> # << >>
  OBVIOUS
<1>9. Says(x, known, t)
  BY <1>5, <1>6, <1>7, <1>8 DEF Says
<1>10. QED
  BY <1>9 DEF Bind, x, body

\* The varbinds of a packet, which are its last element.
LEMMA SaysEnd ==
  ASSUME NEW a \in Seq(Byte), NEW tag \in Byte, NEW p, Len(p) <= Datagram,
         NEW s, NEW t, Says(p, s, t)
  PROVE  LET raw == a \o Tlv(tag, p) IN
         TakeBinds(s, Elements(raw, Len(raw) + 1 - Len(p), 3)) = t
<1> DEFINE raw == a \o Tlv(tag, p)
           es == Elements(raw, Len(raw) + 1 - Len(p), 3)
<1>1. PICK items : Told(p, items) /\ Takes(items, s, t)
  BY DEF Says
<1>2. Reads(p, items) /\ items \in Seq(FitItem) /\ 3 \in Widths
  BY <1>1 DEF Told, Widths
<1>3. Like(es, items, Len(raw) + 1)
  BY <1>2, InsideLast
<1> HIDE DEF es, raw
<1>4. Len(es) = Len(items) /\ \A i \in 1..Len(items) : HasItem(es[i], items[i])
  BY <1>3 DEF Like
<1>5. TakeBinds(s, es) = t
  BY <1>1, <1>2, <1>4, TakesEnd
<1>6. QED
  BY <1>5 DEF es, raw

-----------------------------------------------------------------------------
(* What the varbinds of a trap tell                                         *)

\* No prefix differs from what it is a prefix of.
LEMMA Differs ==
  ASSUME NEW s \in Seq(Nat), NEW t \in Seq(Nat), NEW i \in 1..Len(s), s[i] # t[i]
  PROVE  ~IsPrefix(s, t)
<1> SUFFICES ASSUME IsPrefix(s, t) PROVE FALSE
  OBVIOUS
<1> DEFINE L == Len(s)
<1>1. /\ L \in Nat /\ Len(t) \in Nat /\ L <= Len(t)
      /\ SubSeq(s, 1, L) = SubSeq(t, 1, L)
  BY LenProperties DEF IsPrefix
<1>2. /\ \A k \in 1..L : s[k] \in Nat /\ t[k] \in Nat
      /\ i \in 1..L
  BY <1>1, ElementOfSeq
<1> HIDE DEF L
<1>3. \A k \in 1..L - 1 + 1 : SubSeq(s, 1, L)[k] = s[1 + k - 1]
  BY <1>1, <1>2, SubSeqProperties
<1>4. \A k \in 1..L - 1 + 1 : SubSeq(t, 1, L)[k] = t[1 + k - 1]
  BY <1>1, <1>2, SubSeqProperties
<1>5. i \in 1..L - 1 + 1 /\ 1 + i - 1 = i
  BY <1>1, <1>2
<1>6. s[i] = t[i]
  BY <1>1, <1>3, <1>4, <1>5
<1>7. QED
  BY <1>6

\* No prefix is longer than what it is a prefix of.
LEMMA Longer ==
  ASSUME NEW s, NEW t, Len(t) < Len(s), Len(t) \in Nat, Len(s) \in Nat
  PROVE  ~IsPrefix(s, t)
  BY DEF IsPrefix

\* A sequence is a prefix of what it begins.
LEMMA PrefixJoined ==
  ASSUME NEW s \in Seq(Nat), NEW t \in Seq(Nat), t # << >>
  PROVE  IsPrefix(s, s \o t) /\ IsStrictPrefix(s, s \o t)
<1> DEFINE x == s \o t
<1>1. /\ x \in Seq(Nat) /\ Len(x) = Len(s) + Len(t) /\ Len(s) \in Nat /\ Len(t) \in Nat
      /\ \A i \in 1..Len(s) : x[i] = s[i]
  BY Joined
<1>2. x # s
  BY ConcatEqualIffEmpty
<1> HIDE DEF x
<1>3. SubSeq(x, 0 + 1, 0 + Len(s)) = s
  <2>1. 0 \in Nat /\ 0 + Len(s) <= Len(x) /\ \A i \in 1..Len(s) : x[0 + i] = s[i]
    BY <1>1
  <2>2. QED
    BY <1>1, <2>1, Excerpt
<1>4. SubSeq(s, 1, Len(s)) = s
  BY SubSeqFull
<1>5. 0 + 1 = 1 /\ 0 + Len(s) = Len(s) /\ Len(s) <= Len(x)
  BY <1>1
<1>6. IsPrefix(s, x)
  BY <1>3, <1>4, <1>5 DEF IsPrefix
<1>7. QED
  BY <1>2, <1>6 DEF IsStrictPrefix, x

\* The names of the varbinds, as far as they tell them apart.
LEMMA NameFacts ==
  /\ Len(SysUptime) = 9 /\ SysUptime[1] = 1 /\ SysUptime[2] = 3
  /\ Len(SnmpTrapOid) = 11 /\ SnmpTrapOid[1] = 1 /\ SnmpTrapOid[2] = 3 /\ SnmpTrapOid[5] = 6
  /\ Len(IfIndex) = 10 /\ IfIndex[1] = 1 /\ IfIndex[2] = 3 /\ IfIndex[5] = 2 /\ IfIndex[10] = 1
  /\ Len(IfOper) = 10 /\ IfOper[1] = 1 /\ IfOper[2] = 3 /\ IfOper[5] = 2 /\ IfOper[10] = 10
  /\ Len(IfDescr) = 10 /\ IfDescr[1] = 1 /\ IfDescr[2] = 3 /\ IfDescr[5] = 2
  /\ Len(Enterprise) = 8 /\ Enterprise[1] = 1 /\ Enterprise[2] = 3
  /\ Len(Description) = 8 /\ Description[1] = 1 /\ Description[2] = 3
  /\ Len(TrapBase) = 9 /\ TrapBase[1] = 1 /\ TrapBase[2] = 3
  BY SMT DEF SysUptime, SnmpTrapOid, IfIndex, IfOper, IfDescr, TrapBase, Enterprise, Description

\* The name of a column of the interface table, at a port.
LEMMA PortName ==
  ASSUME NEW s \in {IfIndex, IfOper, IfDescr}, NEW n \in Nat
  PROVE  LET x == s \o <<n>> IN
         /\ x \in Seq(Nat) /\ Len(x) = 11 /\ Last(x) = n /\ Oid(x)
         /\ x[5] = 2 /\ x[10] = s[10]
         /\ IsPrefix(s, x) /\ IsStrictPrefix(s, x)
<1> DEFINE y == <<n>>
           x == s \o y
<1>1. s \in Seq(Nat) /\ Len(s) = 10 /\ s[1] = 1 /\ s[2] = 3 /\ s[5] = 2
  BY NamesType, NameFacts
<1>2. y \in Seq(Nat) /\ Len(y) = 1 /\ y[1] = n /\ y # << >>
  OBVIOUS
<1> HIDE DEF y
<1>3. s \in Seq(Nat) /\ y \in Seq(Nat)
  BY <1>1, <1>2
<1>4. /\ x \in Seq(Nat) /\ Len(x) = Len(s) + Len(y)
      /\ \A i \in 1..Len(s) : x[i] = s[i]
      /\ \A i \in 1..Len(y) : x[Len(s) + i] = y[i]
  BY <1>3, Joined
<1>5. IsPrefix(s, x) /\ IsStrictPrefix(s, x)
  BY <1>2, <1>3, PrefixJoined
<1> HIDE DEF x
<1>6. Len(x) = 11 /\ x[1] = 1 /\ x[2] = 3 /\ x[5] = 2 /\ x[10] = s[10] /\ x[11] = n
  <2>1. 1 \in 1..10 /\ 2 \in 1..10 /\ 5 \in 1..10 /\ 10 \in 1..10 /\ 1 \in 1..1 /\ 10 + 1 = 11
    OBVIOUS
  <2>2. QED
    BY <1>1, <1>2, <1>4, <2>1
<1>7. QED
  BY <1>4, <1>5, <1>6 DEF Oid, Last, x, y

\* What is known of a trap.
Known(u, o, p, q) == [uptime |-> u, trap_oid |-> o, port |-> p, oper |-> q]

\* What a varbind of this name, tag and octets makes of what is known.
Outcome(arcs, tag, raw, u, o, p, q, a, b, c, d) ==
    /\ a = IF arcs = SysUptime /\ NumberOf(tag, raw) # << >> THEN NumberOf(tag, raw) ELSE u
    /\ b = IF arcs = SnmpTrapOid THEN ValueOf(tag, raw) ELSE o
    /\ c = IF /\ NumberOf(tag, raw) # << >> /\ p = << >>
              /\ IsPrefix(IfIndex, arcs) /\ Len(arcs) = Len(IfIndex) + 1
           THEN <<Last(arcs)>> ELSE p
    /\ d = IF NumberOf(tag, raw) # << >> /\ IsStrictPrefix(IfOper, arcs)
           THEN NumberOf(tag, raw) ELSE q

\* The fields of what is known.
LEMMA KnownFields ==
  ASSUME NEW u, NEW o, NEW p, NEW q
  PROVE  /\ Known(u, o, p, q).uptime = u /\ Known(u, o, p, q).trap_oid = o
         /\ Known(u, o, p, q).port = p /\ Known(u, o, p, q).oper = q
  BY DEF Known

\* What is learnt of a varbind with a certain outcome.
LEMMA LearntIs ==
  ASSUME NEW u, NEW o, NEW p, NEW q, NEW arcs, NEW tag, NEW raw,
         NEW a, NEW b, NEW c, NEW d, Outcome(arcs, tag, raw, u, o, p, q, a, b, c, d)
  PROVE  Learnt(Known(u, o, p, q), arcs, tag, raw) = Known(a, b, c, d)
<1> DEFINE v == [ok |-> TRUE, tag |-> tag, value |-> raw]
           n == NumberOf(tag, raw)
           k == Known(u, o, p, q)
<1>1. v.ok = TRUE /\ v.tag = tag /\ v.value = raw
  OBVIOUS
<1> HIDE DEF v
<1>2. Learnt(k, arcs, tag, raw) = Learn(k, arcs, v, n)
  BY DEF Learnt, v
<1> DEFINE A == arcs = SysUptime /\ n # << >>
           B == arcs = SnmpTrapOid
           C == IsPrefix(IfIndex, arcs) /\ Len(arcs) = Len(IfIndex) + 1
           D == n # << >> /\ IsStrictPrefix(IfOper, arcs)
           N == n # << >>
           w == ValueOf(tag, raw)
           l == <<Last(arcs)>>
<1>3. k.uptime = u /\ k.trap_oid = o /\ k.port = p /\ k.oper = q
  BY KnownFields
<1> HIDE DEF k
<1>4. /\ a = IF A THEN n ELSE k.uptime
      /\ b = IF B THEN w ELSE k.trap_oid
      /\ c = IF N /\ k.port = << >> /\ C THEN l ELSE k.port
      /\ d = IF D THEN n ELSE k.oper
  BY <1>3, Zenon DEF Outcome
<1>5. Learn(k, arcs, v, n) = [uptime |-> IF A THEN n ELSE k.uptime,
                              trap_oid |-> IF B THEN w ELSE k.trap_oid,
                              port |-> IF N /\ k.port = << >> /\ C THEN l ELSE k.port,
                              oper |-> IF D THEN n ELSE k.oper]
  <2>1. v.ok /\ ValueOf(v.tag, v.value) = w
    BY <1>1
  <2>2. QED
    BY <2>1, Zenon DEF Learn
<1> HIDE DEF A, B, C, D, N, w, l, n
<1>6. Learn(k, arcs, v, n) = [uptime |-> a, trap_oid |-> b, port |-> c, oper |-> d]
  BY <1>4, <1>5, Zenon
<1>7. QED
  BY <1>2, <1>6 DEF k, Known, n

\* Which values are numbers.
LEMMA Numbered ==
  ASSUME NEW n \in Nat
  PROVE  /\ NumberOf(2, Octets(n)) = <<n>> /\ NumberOf(67, Octets(n)) = <<n>>
         /\ \A raw : NumberOf(4, raw) = << >> /\ NumberOf(6, raw) = << >>
         /\ <<n>> # << >>
  BY OctetsRead DEF NumberOf

\* The uptime is told by its varbind.
LEMMA UptimeTold ==
  ASSUME NEW n \in Nat, NEW u, NEW o, NEW p, NEW q
  PROVE  Learnt(Known(u, o, p, q), SysUptime, 67, Octets(n)) = Known(<<n>>, o, p, q)
<1>1. NumberOf(67, Octets(n)) = <<n>> /\ <<n>> # << >>
  BY Numbered
<1>2. SysUptime # SnmpTrapOid /\ ~IsPrefix(IfIndex, SysUptime) /\ ~IsStrictPrefix(IfOper, SysUptime)
  <2>1. ~IsPrefix(IfIndex, SysUptime) /\ ~IsPrefix(IfOper, SysUptime)
    BY NameFacts DEF IsPrefix
  <2>2. QED
    BY <2>1, NameFacts DEF IsStrictPrefix
<1>3. Outcome(SysUptime, 67, Octets(n), u, o, p, q, <<n>>, o, p, q)
  BY <1>1, <1>2 DEF Outcome
<1>4. QED
  BY <1>3, LearntIs

\* The snmpTrapOID is told by its varbind.
LEMMA TrapOidTold ==
  ASSUME NEW arcs, Oid(arcs), NEW u, NEW o, NEW p, NEW q
  PROVE  Learnt(Known(u, o, p, q), SnmpTrapOid, 6, TrapName(arcs)) = Known(u, arcs, p, q)
<1>1. NumberOf(6, TrapName(arcs)) = << >>
  BY DEF NumberOf
<1>2. ValueOf(6, TrapName(arcs)) = arcs
  BY TrapNameRead DEF ValueOf
<1>3. SnmpTrapOid # SysUptime
  BY NameFacts
<1>4. Outcome(SnmpTrapOid, 6, TrapName(arcs), u, o, p, q, u, arcs, p, q)
  BY <1>1, <1>2, <1>3, Zenon DEF Outcome
<1>5. QED
  BY <1>4, LearntIs

\* The port is told by the name of the interface's index.
LEMMA PortTold ==
  ASSUME NEW n \in Nat, NEW u, NEW o, NEW q
  PROVE  Learnt(Known(u, o, << >>, q), IfIndex \o <<n>>, 2, Octets(n)) = Known(u, o, <<n>>, q)
<1> DEFINE x == IfIndex \o <<n>>
<1>1. NumberOf(2, Octets(n)) = <<n>> /\ <<n>> # << >>
  BY Numbered
<1>2. /\ x \in Seq(Nat) /\ Len(x) = 11 /\ Last(x) = n /\ x[5] = 2 /\ x[10] = IfIndex[10]
      /\ IsPrefix(IfIndex, x)
  BY PortName
<1> HIDE DEF x
<1>3. x # SysUptime /\ x # SnmpTrapOid /\ Len(x) = Len(IfIndex) + 1
  <2>1. Len(SysUptime) = 9 /\ SnmpTrapOid[5] = 6 /\ Len(IfIndex) = 10
    BY NameFacts
  <2>2. Len(x) = Len(IfIndex) + 1
    BY <1>2, <2>1
  <2>3. x # SysUptime
    <3>1. Len(x) # Len(SysUptime)
      BY <1>2, <2>1
    <3>2. QED
      BY <3>1
  <2>4. x # SnmpTrapOid
    BY <1>2, <2>1
  <2>5. QED
    BY <2>2, <2>3, <2>4
<1>4. ~IsStrictPrefix(IfOper, x)
  <2>1. IfOper \in Seq(Nat) /\ 10 \in 1..Len(IfOper) /\ IfOper[10] # x[10]
    BY <1>2, NamesType, NameFacts
  <2>2. QED
    BY <1>2, <2>1, Differs DEF IsStrictPrefix
<1> DEFINE e == << >>
<1>5. Outcome(x, 2, Octets(n), u, o, e, q, u, o, <<n>>, q)
  BY <1>1, <1>2, <1>3, <1>4, Zenon DEF Outcome
<1> HIDE DEF e
<1>a. Learnt(Known(u, o, e, q), x, 2, Octets(n)) = Known(u, o, <<n>>, q)
  BY <1>5, LearntIs
<1>6. QED
  BY <1>a DEF x, e

\* The state is told by the varbind that has it.
LEMMA OperTold ==
  ASSUME NEW n \in Nat, NEW m \in Nat, NEW u, NEW o, NEW p, NEW q
  PROVE  Learnt(Known(u, o, p, q), IfOper \o <<n>>, 2, Octets(m)) = Known(u, o, p, <<m>>)
<1> DEFINE x == IfOper \o <<n>>
<1>1. NumberOf(2, Octets(m)) = <<m>> /\ <<m>> # << >>
  BY Numbered
<1>2. /\ x \in Seq(Nat) /\ Len(x) = 11 /\ x[5] = 2 /\ x[10] = IfOper[10]
      /\ IsStrictPrefix(IfOper, x)
  BY PortName
<1> HIDE DEF x
<1>3. x # SysUptime /\ x # SnmpTrapOid
  <2>1. Len(SysUptime) = 9 /\ SnmpTrapOid[5] = 6
    BY NameFacts
  <2>2. Len(x) # Len(SysUptime) /\ x[5] # SnmpTrapOid[5]
    BY <1>2, <2>1
  <2>3. QED
    BY <2>2
<1>4. ~IsPrefix(IfIndex, x)
  <2>1. IfIndex \in Seq(Nat) /\ 10 \in 1..Len(IfIndex) /\ IfIndex[10] # x[10]
    BY <1>2, NamesType, NameFacts
  <2>2. QED
    BY <1>2, <2>1, Differs
<1>a. Outcome(x, 2, Octets(m), u, o, p, q, u, o, p, <<m>>)
  BY <1>1, <1>2, <1>3, <1>4, Zenon DEF Outcome
<1>5. Learnt(Known(u, o, p, q), x, 2, Octets(m)) = Known(u, o, p, <<m>>)
  BY <1>a, LearntIs
<1>6. QED
  BY <1>5 DEF x

\* Texts tell nothing.
LEMMA TextTold ==
  ASSUME NEW arcs, arcs # SnmpTrapOid, NEW raw, NEW u, NEW o, NEW p, NEW q
  PROVE  Learnt(Known(u, o, p, q), arcs, 4, raw) = Known(u, o, p, q)
<1>1. NumberOf(4, raw) = << >>
  BY DEF NumberOf
<1>2. Outcome(arcs, 4, raw, u, o, p, q, u, o, p, q)
  BY <1>1, Zenon DEF Outcome
<1>3. QED
  BY <1>2, LearntIs

-----------------------------------------------------------------------------
(* Messages                                                                 *)

\* The tags in use are octets.
LEMMA TagBytes ==
  /\ 0 \in Byte /\ 1 \in Byte /\ 2 \in Byte /\ 4 \in Byte /\ 6 \in Byte /\ 48 \in Byte
  /\ 64 \in Byte /\ 67 \in Byte /\ 127 \in Byte /\ 162 \in Byte /\ 164 \in Byte /\ 167 \in Byte
  /\ 3 \in Widths /\ 4 \in Widths
  BY DEF Byte, Widths

\* The list js is is, and one item more.
Extended(is, item, js) ==
    /\ js \in Seq(FitItem) /\ Len(js) = Len(is) + 1 /\ js[Len(is) + 1] = item
    /\ \A i \in 1..Len(is) : js[i] = is[i]

\* A text with one element more tells one item more.
LEMMA ToldNext ==
  ASSUME NEW x, NEW is, Told(x, is), NEW tag \in Byte, NEW p \in Fit,
         NEW js, Extended(is, Item(tag, p), js)
  PROVE  Told(x \o Tlv(tag, p), js)
<1> DEFINE y == <<Item(tag, p)>>
<1>1. Told(Tlv(tag, p), y)
  BY ToldOne
<1>2. y # << >> /\ y \in Seq(FitItem) /\ Len(y) = 1 /\ y[1] = Item(tag, p)
  BY <1>1 DEF Told
<1> HIDE DEF y
<1>3. Told(x \o Tlv(tag, p), is \o y)
  BY <1>1, <1>2, ToldBoth
<1>4. is \in Seq(FitItem) /\ y \in Seq(FitItem)
  BY <1>2 DEF Told
<1>5. /\ is \o y \in Seq(FitItem) /\ Len(is \o y) = Len(is) + Len(y) /\ Len(is) \in Nat
      /\ \A i \in 1..Len(is) : (is \o y)[i] = is[i]
      /\ \A i \in 1..Len(y) : (is \o y)[Len(is) + i] = y[i]
  BY <1>4, Joined
<1>6. js = is \o y
  <2> DEFINE z == is \o y
  <2>1. z \in Seq(FitItem) /\ js \in Seq(FitItem) /\ Len(z) = Len(js)
    BY <1>2, <1>5 DEF Extended
  <2>2. ASSUME NEW i \in 1..Len(js) PROVE js[i] = z[i]
    <3>1. i \in 1..Len(is) \/ i = Len(is) + 1
      BY <1>5 DEF Extended
    <3>2. z[Len(is) + 1] = Item(tag, p)
      BY <1>2, <1>5
    <3>3. QED
      BY <1>5, <3>1, <3>2 DEF Extended
  <2> HIDE DEF z
  <2>3. js = z
    BY <2>1, <2>2, SeqEqual
  <2>4. QED
    BY <2>3 DEF z
<1>7. QED
  BY <1>3, <1>6

\* Lists of up to three items, each one longer.
LEMMA Lists ==
  ASSUME NEW a \in FitItem, NEW b \in FitItem, NEW c \in FitItem
  PROVE  Extended(<<a>>, b, <<a, b>>) /\ Extended(<<a, b>>, c, <<a, b, c>>)
<1>1. <<a, b>> \in Seq(FitItem) /\ <<a, b, c>> \in Seq(FitItem)
  OBVIOUS
<1>2. Len(<<a>>) = 1 /\ Len(<<a, b>>) = 2 /\ Len(<<a, b, c>>) = 3
  OBVIOUS
<1>3. \A i \in 1..1 : i = 1
  OBVIOUS
<1>4. \A i \in 1..2 : i = 1 \/ i = 2
  OBVIOUS
<1>5. QED
  BY <1>1, <1>2, <1>3, <1>4 DEF Extended

\* Lists of up to six items, each one longer.
LEMMA LongLists ==
  ASSUME NEW a \in FitItem, NEW b \in FitItem, NEW c \in FitItem, NEW d \in FitItem,
         NEW e \in FitItem, NEW f \in FitItem
  PROVE  /\ Extended(<<a, b, c>>, d, <<a, b, c, d>>)
         /\ Extended(<<a, b, c, d>>, e, <<a, b, c, d, e>>)
         /\ Extended(<<a, b, c, d, e>>, f, <<a, b, c, d, e, f>>)
<1> DEFINE s == <<a, b, c>>
           t == <<a, b, c, d>>
           u == <<a, b, c, d, e>>
           v == <<a, b, c, d, e, f>>
<1>1. t \in Seq(FitItem) /\ u \in Seq(FitItem) /\ v \in Seq(FitItem)
  OBVIOUS
<1>2. Len(s) = 3 /\ Len(t) = 4 /\ Len(u) = 5 /\ Len(v) = 6
  OBVIOUS
<1>3. /\ \A i \in 1..3 : i = 1 \/ i = 2 \/ i = 3
      /\ \A i \in 1..4 : i = 1 \/ i = 2 \/ i = 3 \/ i = 4
      /\ \A i \in 1..5 : i = 1 \/ i = 2 \/ i = 3 \/ i = 4 \/ i = 5
  OBVIOUS
<1>4. /\ t[1] = s[1] /\ t[2] = s[2] /\ t[3] = s[3] /\ t[4] = d
      /\ u[1] = t[1] /\ u[2] = t[2] /\ u[3] = t[3] /\ u[4] = t[4] /\ u[5] = e
      /\ v[1] = u[1] /\ v[2] = u[2] /\ v[3] = u[3] /\ v[4] = u[4] /\ v[5] = u[5] /\ v[6] = f
  OBVIOUS
<1> HIDE DEF s, t, u, v
<1>5. Extended(s, d, t)
  BY <1>1, <1>2, <1>3, <1>4 DEF Extended
<1>6. Extended(t, e, u)
  BY <1>1, <1>2, <1>3, <1>4 DEF Extended
<1>7. Extended(u, f, v)
  BY <1>1, <1>2, <1>3, <1>4 DEF Extended
<1>8. QED
  BY <1>5, <1>6, <1>7 DEF s, t, u, v

\* Elements that have certain tags start with them.
LEMMA StartsIs ==
  ASSUME NEW es \in Seq(ElementSet), NEW tags \in Seq(Nat), Len(tags) <= Len(es),
         \A i \in 1..Len(tags) : es[i].tag = tags[i]
  PROVE  Starts(es, tags)
<1> DEFINE all == Tags(es)
           L == Len(es)
           k == Len(tags)
<1>1. L \in Nat /\ DOMAIN es = 1..L /\ k \in Nat
  BY LenProperties
<1>2. \A i \in 1..L : es[i].tag \in Byte
  <2> TAKE i \in 1..L
  <2>1. es[i] \in ElementSet
    BY ElementOfSeq
  <2>2. QED
    BY <2>1 DEF ElementSet
<1>3. all = [i \in 1..L |-> es[i].tag]
  BY <1>1 DEF Tags
<1> HIDE DEF all
<1>4. all \in Seq(Nat) /\ Len(all) = L /\ \A i \in 1..L : all[i] = es[i].tag
  <2> HIDE DEF L
  <2>1. \A i \in 1..L : es[i].tag \in Nat
    BY <1>2, ByteNat
  <2>2. QED
    BY <1>1, <1>3, <2>1
<1>5. SubSeq(all, 0 + 1, 0 + Len(tags)) = tags
  <2>1. all \in Seq(Nat) /\ 0 \in Nat /\ 0 + Len(tags) <= Len(all)
    BY <1>1, <1>4
  <2>2. \A i \in 1..Len(tags) : all[0 + i] = tags[i]
    BY <1>1, <1>4
  <2>3. QED
    BY <2>1, <2>2, Excerpt
<1>6. SubSeq(tags, 1, Len(tags)) = tags
  BY SubSeqFull
<1>7. 0 + 1 = 1 /\ 0 + Len(tags) = Len(tags) /\ Len(tags) <= Len(all)
  BY <1>1, <1>4
<1>8. QED
  BY <1>5, <1>6, <1>7 DEF Starts, IsPrefix, all

\* What a message is read as: the message, its element, and its parts.
MessageParts(version, community, tag, pdu) ==
    <<Item(2, <<version>>), Item(4, community), Item(tag, pdu)>>
MessageBody(version, community, tag, pdu) ==
    Tlv(2, <<version>>) \o Tlv(4, community) \o Tlv(tag, pdu)

\* The body of a message tells its three parts.
LEMMA BodyTold ==
  ASSUME NEW version \in Byte, NEW community \in Seq(Byte), NEW tag \in Byte, NEW pdu \in Fit
  PROVE  Told(MessageBody(version, community, tag, pdu),
              MessageParts(version, community, tag, pdu))
<1> DEFINE a == Item(2, <<version>>)
           b == Item(4, community)
           c == Item(tag, pdu)
           p == <<version>>
<1>1. 2 \in Byte /\ 4 \in Byte /\ p \in Fit /\ community \in Fit
  BY TagBytes, OneFits, BytesFit
<1>2. a \in FitItem /\ b \in FitItem /\ c \in FitItem
  BY <1>1 DEF Item, FitItem
<1> HIDE DEF p
<1>3. Told(Tlv(2, p), <<Item(2, p)>>)
  BY <1>1, ToldOne
<1>4. Extended(<<a>>, b, <<a, b>>) /\ Extended(<<a, b>>, c, <<a, b, c>>)
  <2> HIDE DEF a, b, c
  <2>1. QED
    BY <1>2, Lists
<1>5. Told(Tlv(2, p) \o Tlv(4, community), <<a, b>>)
  BY <1>1, <1>3, <1>4, ToldNext DEF p
<1>6. Told((Tlv(2, p) \o Tlv(4, community)) \o Tlv(tag, pdu), <<a, b, c>>)
  BY <1>1, <1>4, <1>5, ToldNext
<1>7. QED
  BY <1>6 DEF MessageBody, MessageParts, p

\* What is read of a message data whose PDU is pdu.
MessageSeen(data, body, parts, pdu, most) ==
    /\ data = Tlv(48, body) /\ data \in Seq(Byte) /\ body \in Seq(Byte)
    /\ Len(body) \in Nat /\ Len(body) <= Datagram
    /\ ReadTlv(data, 1, most) = Element(48, body, Len(data) + 1)
    /\ Like(Elements(data, Len(data) + 1 - Len(body), most), parts, Len(data) + 1)
    /\ Like(Elements(body, 1, most), parts, Len(body) + 1)
    /\ Like(Elements(data, 1, most), <<Item(48, body)>>, Len(data) + 1)
    /\ pdu \in Seq(Byte) /\ Len(pdu) \in Nat /\ Len(pdu) <= Datagram

\* A message is read as it was built.
LEMMA MessageRead ==
  ASSUME NEW version \in Byte, NEW community \in Seq(Byte), NEW tag \in Byte, NEW pdu \in Fit,
         Len(Message(version, community, tag, pdu)) <= Datagram, NEW most \in Widths
  PROVE  MessageSeen(Message(version, community, tag, pdu),
                     MessageBody(version, community, tag, pdu),
                     MessageParts(version, community, tag, pdu), pdu, most)
<1> DEFINE body == MessageBody(version, community, tag, pdu)
           parts == MessageParts(version, community, tag, pdu)
           data == Tlv(48, body)
<1>1. Message(version, community, tag, pdu) = data
  BY DEF Message, MessageBody
<1>2. Told(body, parts) /\ 48 \in Byte
  BY TagBytes, BodyTold
<1>3. body \in Fit
  BY <1>2 DEF Told
<1>4. /\ Len(body) \in Nat /\ Len(body) + 2 <= Len(data) /\ Len(data) \in Nat
      /\ Len(data) <= Datagram
  BY <1>1, <1>2, <1>3, TlvLonger
<1>5. Len(body) <= Datagram
  BY <1>4 DEF Datagram
<1>6. body \in Seq(Byte) /\ data \in Seq(Byte) /\ << >> \in Seq(Byte)
  BY <1>2, <1>3, <1>4, <1>5, TlvFits, EmptySeq DEF Fit
<1>7. Reads(body, parts)
  BY <1>2, <1>5 DEF Told
<1>8. Reads(data, <<Item(48, body)>>)
  BY <1>2, <1>5, <1>6, ReadsOne
<1>9. ReadAs((<< >> \o data) \o << >>, Len(<< >>) + 1, most,
           Element(48, body, Len(<< >>) + Len(data) + 1))
  <2> HIDE DEF body
  <2>1. QED
    BY <1>2, <1>5, <1>6, ReadOne
<1>10. Like(Elements(<< >> \o data, Len(<< >> \o data) + 1 - Len(body), most), parts,
            Len(<< >> \o data) + 1)
  <2> HIDE DEF body, parts
  <2>1. QED
    BY <1>2, <1>5, <1>6, <1>7, InsideLast
<1>11. (<< >> \o data) = data /\ (<< >> \o data) \o << >> = data /\ Len(<< >>) = 0
  <2> HIDE DEF data
  <2>1. QED
    BY <1>6, ConcatEmptySeq, EmptySeq
<1>12. ReadTlv(data, 1, most) = Element(48, body, Len(data) + 1)
  <2> HIDE DEF data
  <2>1. QED
    BY <1>4, <1>9, <1>11 DEF ReadAs
<1>13. Like(Elements(data, Len(data) + 1 - Len(body), most), parts, Len(data) + 1)
  BY <1>10, <1>11
<1>14. /\ Like(Elements(body, 1, most), parts, Len(body) + 1)
       /\ Like(Elements(data, 1, most), <<Item(48, body)>>, Len(data) + 1)
  <2> HIDE DEF data, body, parts
  <2>1. QED
    BY <1>7, <1>8, ReadsAll
<1>15. pdu \in Seq(Byte) /\ Len(pdu) \in Nat /\ Len(pdu) <= Datagram
  <2> DEFINE x == Tlv(2, <<version>>) \o Tlv(4, community)
             y == Tlv(tag, pdu)
  <2>1. 2 \in Byte /\ 4 \in Byte /\ <<version>> \in Fit /\ community \in Fit
    BY TagBytes, OneFits, BytesFit
  <2>2. x \in Fit /\ y \in Fit
    BY <2>1, TlvFits, BothFit
  <2>3. body = x \o y
    BY DEF MessageBody
  <2>4. x \in Seq(Nat) /\ y \in Seq(Nat)
    BY <2>2 DEF Fit
  <2>5. Len(pdu) \in Nat /\ Len(y) \in Nat /\ Len(pdu) + 2 <= Len(y)
    BY TlvLonger
  <2> HIDE DEF body, x, y
  <2>6. Len(body) = Len(x) + Len(y) /\ Len(x) \in Nat
    BY <2>3, <2>4, Joined
  <2>7. Len(pdu) <= Datagram
    BY <1>4, <1>5, <2>5, <2>6 DEF Datagram
  <2>8. QED
    BY <2>5, <2>7 DEF Fit
<1> HIDE DEF data, body, parts
<1>16. MessageSeen(data, body, parts, pdu, most)
  BY <1>4, <1>5, <1>6, <1>12, <1>13, <1>14, <1>15 DEF MessageSeen, data
<1>17. QED
  BY <1>1, <1>16 DEF body, parts

-----------------------------------------------------------------------------
(* Traps                                                                    *)

\* The types of the fields of a trap.
LEMMA TrapFields ==
  ASSUME NEW t \in Traps
  PROVE  /\ t.port = << >> \/ \E n \in Nat : t.port = <<n>>
         /\ t.oper = << >> \/ \E m \in Nat : t.oper = <<m>>
<1>1. t.port \in {<<n>> : n \in Numbers} \cup {<< >>} /\ t.oper \in {<<1>>, <<2>>, << >>}
  BY DEF Traps
<1>2. Numbers \subseteq Nat
  <2>1. Largest \in Nat
    BY SMT DEF Largest
  <2>2. QED
    BY <2>1, CodecAssumption, SMT
<1>3. QED
  BY <1>1, <1>2

OperOf(t) == IF t.port = << >> THEN << >> ELSE t.oper

\* The names of a trap are OIDs.
LEMMA TrapOids ==
  /\ Oid(SysUptime) /\ Oid(SnmpTrapOid) /\ Oid(Enterprise) /\ Oid(Description)
  /\ Description # SnmpTrapOid
  /\ \A n \in Nat : Oid(Append(TrapBase, n)) /\ Append(TrapBase, n)[10] = n
                    /\ IsStrictPrefix(TrapBase, Append(TrapBase, n))
<1>1. Oid(SysUptime) /\ Oid(SnmpTrapOid) /\ Oid(Enterprise) /\ Oid(Description)
  BY NamesType, NameFacts DEF Oid
<1>2. Description # SnmpTrapOid
  <2>1. Len(Description) # Len(SnmpTrapOid)
    BY NameFacts
  <2>2. QED
    BY <2>1
<1>3. ASSUME NEW n \in Nat
      PROVE  Oid(Append(TrapBase, n)) /\ Append(TrapBase, n)[10] = n
             /\ IsStrictPrefix(TrapBase, Append(TrapBase, n))
  <2> DEFINE y == <<n>>
             x == Append(TrapBase, n)
  <2>1. y \in Seq(Nat) /\ y # << >>
    OBVIOUS
  <2>2. x = TrapBase \o y
    BY NamesType, AppendIsConcat
  <2>3. /\ x \in Seq(Nat) /\ Len(x) = Len(TrapBase) + 1
        /\ \A i \in 1..Len(TrapBase) : x[i] = TrapBase[i]
        /\ x[Len(TrapBase) + 1] = n
    BY NamesType, AppendProperties
  <2> HIDE DEF x, y
  <2>4. Len(x) = 10 /\ x[1] = 1 /\ x[2] = 3 /\ x[10] = n
    <3>1. 1 \in 1..9 /\ 2 \in 1..9 /\ 9 + 1 = 10
      OBVIOUS
    <3>2. QED
      BY <2>3, <3>1, NameFacts
  <2>5. Oid(x)
    <3>1. x \in Seq(Nat)
      BY <2>3
    <3>2. Len(x) >= 2 /\ x[1] <= 2 /\ x[2] <= 39
      BY <2>4
    <3>3. QED
      BY <3>1, <3>2 DEF Oid
  <2>6. IsStrictPrefix(TrapBase, x)
    <3>1. TrapBase \in Seq(Nat)
      BY NamesType
    <3>2. QED
      BY <2>1, <2>2, <3>1, PrefixJoined
  <2>7. QED
    BY <2>4, <2>5, <2>6 DEF x
<1>4. QED
  BY <1>1, <1>2, <1>3

\* What the varbinds of the port say.
LEMMA PortSaid ==
  ASSUME NEW t \in Traps, NEW u, NEW o
  PROVE  Says(PortBinds(t), Known(u, o, << >>, << >>), Known(u, o, t.port, OperOf(t)))
<1> DEFINE e == << >>
           index == Bind(IfIndex \o t.port, 2, Octets(t.port[1]))
           oper == Bind(IfOper \o t.port, 2, Octets(t.oper[1]))
           both == index \o When(t.oper # << >>, oper)
<1>1. ASSUME t.port # << >>
      PROVE  Says(both, Known(u, o, e, e), Known(u, o, t.port, t.oper))
  <2>1. PICK n \in Nat : t.port = <<n>>
    BY <1>1, TrapFields
  <2> DEFINE y == <<n>>
  <2>2. Oid(IfIndex \o y) /\ Oid(IfOper \o y)
    BY PortName
  <2>3. t.port = y /\ t.port[1] = n
    BY <2>1
  <2> HIDE DEF e
  <2>4. Says(index, Known(u, o, e, e), Known(u, o, y, e))
    <3>1. Octets(n) \in Fit /\ 2 \in Byte
      BY OctetsFit, TagBytes
    <3>2. Learnt(Known(u, o, e, e), IfIndex \o y, 2, Octets(n)) = Known(u, o, y, e)
      BY PortTold DEF e
    <3> HIDE DEF y
    <3>3. Says(Bind(IfIndex \o y, 2, Octets(n)), Known(u, o, e, e), Known(u, o, y, e))
      BY <2>2, <3>1, <3>2, SaysBind
    <3>4. QED
      BY <2>3, <3>3
  <2>5. ASSUME t.oper # << >> PROVE Says(oper, Known(u, o, y, e), Known(u, o, y, t.oper))
    <3>1. PICK m \in Nat : t.oper = <<m>>
      BY <2>5, TrapFields
    <3> DEFINE z == <<m>>
    <3>2. t.oper = z /\ t.oper[1] = m
      BY <3>1
    <3>3. Octets(m) \in Fit /\ 2 \in Byte
      BY OctetsFit, TagBytes
    <3>4. Learnt(Known(u, o, y, e), IfOper \o y, 2, Octets(m)) = Known(u, o, y, z)
      BY OperTold
    <3> HIDE DEF y, z
    <3>5. Says(Bind(IfOper \o y, 2, Octets(m)), Known(u, o, y, e), Known(u, o, y, z))
      BY <2>2, <3>3, <3>4, SaysBind
    <3>6. QED
      BY <2>3, <3>2, <3>5
  <2>6. Says(When(t.oper # << >>, oper), Known(u, o, y, e), Known(u, o, y, t.oper))
    <3>1. CASE t.oper = << >>
      BY <3>1, SaysNothing DEF When, e
    <3>2. CASE t.oper # << >>
      BY <2>5, <3>2 DEF When
    <3>3. QED
      BY <3>1, <3>2
  <2> HIDE DEF index, oper, y
  <2>7. QED
    BY <2>3, <2>4, <2>6, SaysBoth
<1>2. CASE t.port = << >>
  BY <1>2, SaysNothing DEF PortBinds, When, OperOf
<1>3. CASE t.port # << >>
  <2>1. PortBinds(t) = both /\ OperOf(t) = t.oper
    BY <1>3 DEF PortBinds, When, OperOf
  <2> HIDE DEF both
  <2>2. QED
    BY <1>1, <1>3, <2>1 DEF e
<1>4. QED
  BY <1>2, <1>3

\* What the descriptions say.
LEMMA TextSaid ==
  ASSUME NEW t \in Traps, NEW u, NEW o, NEW p, NEW q
  PROVE  /\ Says(When(t.description # << >>, Bind(Description, 4, Utf8(t.description))),
                 Known(u, o, p, q), Known(u, o, p, q))
         /\ Says(When(t.port # << >>, Bind(IfDescr \o t.port, 4, <<101, 116, 104>>)),
                 Known(u, o, p, q), Known(u, o, p, q))
<1> DEFINE k == Known(u, o, p, q)
           eth == <<101, 116, 104>>
<1>1. 4 \in Byte
  BY TagBytes
<1>2. Says(Bind(Description, 4, Utf8(t.description)), k, k)
  <2>1. Utf8(t.description) \in Fit
    BY TrapTypes, BytesFit
  <2>2. Oid(Description) /\ Learnt(k, Description, 4, Utf8(t.description)) = k
    BY TrapOids, TextTold
  <2> HIDE DEF k
  <2>3. QED
    BY <1>1, <2>1, <2>2, SaysBind
<1>3. ASSUME t.port # << >> PROVE Says(Bind(IfDescr \o t.port, 4, eth), k, k)
  <2>1. PICK n \in Nat : t.port = <<n>>
    BY <1>3, TrapFields
  <2> DEFINE x == IfDescr \o t.port
  <2>2. Oid(x) /\ x # SnmpTrapOid
    <3>1. Oid(x) /\ x[5] = 2
      BY <2>1, PortName
    <3> HIDE DEF x
    <3>2. SnmpTrapOid[5] = 6
      BY NameFacts
    <3>3. x[5] # SnmpTrapOid[5]
      BY <3>1, <3>2
    <3>4. QED
      BY <3>1, <3>3
  <2>3. eth \in Fit
    <3>1. eth \in Seq(Byte)
      BY DEF Byte
    <3> HIDE DEF eth
    <3>2. QED
      BY <3>1, BytesFit
  <2> HIDE DEF x, eth
  <2>4. Learnt(k, x, 4, eth) = k
    BY <2>2, TextTold
  <2> HIDE DEF k
  <2>5. QED
    BY <1>1, <2>2, <2>3, <2>4, SaysBind DEF x
<1> HIDE DEF k, eth
<1>4. \A c : \A x : (c => Says(x, k, k)) => Says(When(c, x), k, k)
  BY SaysNothing DEF When
<1>5. QED
  BY <1>2, <1>3, <1>4 DEF k, eth

\* What is told in the end by the varbinds of both kinds of trap.
BindsV2c(t) ==
    Bind(SysUptime, 67, Octets(t.uptime))
    \o Bind(SnmpTrapOid, 6, TrapName(Append(TrapBase, t.code)))
    \o PortBinds(t)
    \o When(t.port # << >>, Bind(IfDescr \o t.port, 4, <<101, 116, 104>>))
    \o When(t.description # << >>, Bind(Description, 4, Utf8(t.description)))
BindsV1(t) ==
    PortBinds(t) \o When(t.description # << >>, Bind(Description, 4, Utf8(t.description)))

\* What the varbinds of a v1 trap say.
LEMMA V1Said ==
  ASSUME NEW t \in Traps, NEW u, NEW o
  PROVE  Says(BindsV1(t), Known(u, o, << >>, << >>), Known(u, o, t.port, OperOf(t)))
<1> DEFINE k == Known(u, o, t.port, OperOf(t))
           k0 == Known(u, o, << >>, << >>)
<1>1. Says(PortBinds(t), k0, k)
  BY PortSaid
<1>2. Says(When(t.description # << >>, Bind(Description, 4, Utf8(t.description))), k, k)
  BY TextSaid
<1> HIDE DEF k, k0
<1>3. Says(BindsV1(t), k0, k)
  BY <1>1, <1>2, SaysBoth DEF BindsV1
<1>4. QED
  BY <1>3 DEF k, k0

\* What the varbinds of a v2c trap say.
LEMMA V2cSaid ==
  ASSUME NEW t \in Traps
  PROVE  Says(BindsV2c(t), Known(<< >>, << >>, << >>, << >>),
              Known(<<t.uptime>>, Append(TrapBase, t.code), t.port, OperOf(t)))
<1> DEFINE e == << >>
           u == <<t.uptime>>
           o == Append(TrapBase, t.code)
           k0 == Known(e, e, e, e)
           k1 == Known(u, e, e, e)
           k2 == Known(u, o, e, e)
           k == Known(u, o, t.port, OperOf(t))
           a == Bind(SysUptime, 67, Octets(t.uptime))
           b == Bind(SnmpTrapOid, 6, TrapName(Append(TrapBase, t.code)))
           c == PortBinds(t)
           d == When(t.port # << >>, Bind(IfDescr \o t.port, 4, <<101, 116, 104>>))
           f == When(t.description # << >>, Bind(Description, 4, Utf8(t.description)))
<1>1. t.uptime \in Nat /\ t.code \in Nat
  BY TrapTypes
<1>2. Says(a, k0, k1)
  <2>1. Octets(t.uptime) \in Fit /\ 67 \in Byte /\ Oid(SysUptime)
    BY <1>1, OctetsFit, TagBytes, TrapOids
  <2>2. Learnt(k0, SysUptime, 67, Octets(t.uptime)) = k1
    BY <1>1, UptimeTold
  <2> HIDE DEF k0, k1
  <2>3. QED
    BY <2>1, <2>2, SaysBind
<1>3. Says(b, k1, k2)
  <2>1. Oid(SnmpTrapOid) /\ Oid(o) /\ 6 \in Byte
    BY <1>1, TagBytes, TrapOids
  <2>2. TrapName(o) \in Fit
    BY <2>1, TrapNameRead, BytesFit
  <2> HIDE DEF u, o, e
  <2>3. Learnt(k1, SnmpTrapOid, 6, TrapName(o)) = k2
    BY <2>1, TrapOidTold
  <2> HIDE DEF k1, k2
  <2>4. Says(Bind(SnmpTrapOid, 6, TrapName(o)), k1, k2)
    BY <2>1, <2>2, <2>3, SaysBind
  <2>5. QED
    BY <2>4 DEF o
<1>4. Says(c, k2, k)
  BY PortSaid
<1>5. Says(d, k, k) /\ Says(f, k, k)
  BY TextSaid
<1>6. BindsV2c(t) = (((a \o b) \o c) \o d) \o f
  BY DEF BindsV2c
<1> HIDE DEF a, b, c, d, f, k0, k1, k2, k
<1>7. Says(a \o b, k0, k2)
  BY <1>2, <1>3, SaysBoth
<1>8. Says((a \o b) \o c, k0, k)
  BY <1>4, <1>7, SaysBoth
<1>9. Says(((a \o b) \o c) \o d, k0, k)
  BY <1>5, <1>8, SaysBoth
<1>10. Says(BindsV2c(t), k0, k)
  BY <1>5, <1>6, <1>9, SaysBoth
<1>11. QED
  BY <1>10 DEF k0, k

-----------------------------------------------------------------------------
(* The PDUs of traps                                                       *)

\* The PDUs of both kinds of trap, and what their fields are read as.
FrontV2c == Tlv(2, <<0>>) \o Tlv(2, <<0>>) \o Tlv(2, <<0>>)
FrontV1(t) ==
    Tlv(6, TrapName(Enterprise)) \o Tlv(64, <<127, 0, 0, 1>>)
    \o Tlv(2, <<t.code - 1>>) \o Tlv(2, <<0>>) \o Tlv(67, Octets(t.uptime))
PduV2c(t) == FrontV2c \o Tlv(48, BindsV2c(t))
PduV1(t) == FrontV1(t) \o Tlv(48, BindsV1(t))

\* A trap is a message.
LEMMA TrapIs ==
  ASSUME NEW t \in Traps
  PROVE  /\ TrapV2c(t) = Message(1, Utf8(t.community), 167, PduV2c(t))
         /\ TrapV1(t) = Message(0, Utf8(t.community), 164, PduV1(t))
<1>1. TrapV2c(t) = Message(1, Utf8(t.community), 167, PduV2c(t))
  BY DEF TrapV2c, PduV2c, FrontV2c, BindsV2c
<1>2. TrapV1(t) = Message(0, Utf8(t.community), 164, PduV1(t))
  BY DEF TrapV1, PduV1, FrontV1, BindsV1
<1>3. QED
  BY <1>1, <1>2

FieldsV2c(t) ==
    <<Item(2, <<0>>), Item(2, <<0>>), Item(2, <<0>>), Item(48, BindsV2c(t))>>
FieldsV1(t) ==
    <<Item(6, TrapName(Enterprise)), Item(64, <<127, 0, 0, 1>>), Item(2, <<t.code - 1>>),
      Item(2, <<0>>), Item(67, Octets(t.uptime)), Item(48, BindsV1(t))>>

\* A list of varbinds tells the varbinds.
LEMMA BindsTold ==
  ASSUME NEW t \in Traps
  PROVE  BindsV1(t) \in Fit /\ BindsV2c(t) \in Fit
<1>1. BindsV1(t) \in Fit
  BY V1Said DEF Says, Told
<1>2. BindsV2c(t) \in Fit
  BY V2cSaid DEF Says, Told
<1>3. QED
  BY <1>1, <1>2

\* The PDU of a v2c trap tells its fields.
LEMMA V2cTold ==
  ASSUME NEW t \in Traps
  PROVE  /\ Told(PduV2c(t), FieldsV2c(t)) /\ FrontV2c \in Fit /\ Len(FrontV2c) >= 9
<1> DEFINE z == <<0>>
           a == Item(2, z)
           d == Item(48, BindsV2c(t))
           x == Tlv(2, z)
<1>1. 2 \in Byte /\ 48 \in Byte /\ z \in Fit /\ Len(z) = 1
  BY TagBytes, OneFits
<1>2. BindsV2c(t) \in Fit
  BY BindsTold
<1>3. a \in FitItem /\ d \in FitItem
  BY <1>1, <1>2 DEF Item, FitItem
<1> HIDE DEF z
<1>4. Told(x, <<a>>)
  BY <1>1, ToldOne
<1>5. /\ Extended(<<a>>, a, <<a, a>>) /\ Extended(<<a, a>>, a, <<a, a, a>>)
      /\ Extended(<<a, a, a>>, d, <<a, a, a, d>>)
  <2> HIDE DEF a, d
  <2>1. QED
    BY <1>3, Lists, LongLists
<1>6. Told(x \o x, <<a, a>>)
  BY <1>1, <1>4, <1>5, ToldNext
<1>7. Told((x \o x) \o x, <<a, a, a>>)
  BY <1>1, <1>5, <1>6, ToldNext
<1>8. Told(((x \o x) \o x) \o Tlv(48, BindsV2c(t)), <<a, a, a, d>>)
  BY <1>1, <1>2, <1>5, <1>7, ToldNext
<1>9. FrontV2c = (x \o x) \o x
  BY DEF FrontV2c, z
<1>10. FrontV2c \in Fit
  BY <1>7, <1>9 DEF Told
<1>11. Len(FrontV2c) >= 9
  <2>1. Len(x) \in Nat /\ Len(x) >= 3
    <3>1. Len(z) \in Nat /\ Len(x) \in Nat /\ Len(z) + 2 <= Len(x)
      BY <1>1, TlvLonger
    <3> HIDE DEF x
    <3>2. QED
      BY <1>1, <3>1
  <2>2. x \in Seq(Nat)
    BY <1>4 DEF Told, Fit
  <2> HIDE DEF x
  <2>3. x \o x \in Seq(Nat) /\ Len(x \o x) = Len(x) + Len(x)
    BY <2>2, Joined
  <2>4. Len((x \o x) \o x) = Len(x \o x) + Len(x)
    BY <2>2, <2>3, Joined
  <2>5. QED
    BY <1>9, <2>1, <2>3, <2>4
<1>12. QED
  BY <1>8, <1>9, <1>10, <1>11 DEF PduV2c, FieldsV2c, z

\* The PDU of a v1 trap tells its fields.
LEMMA V1Told ==
  ASSUME NEW t \in Traps
  PROVE  /\ Told(PduV1(t), FieldsV1(t)) /\ FrontV1(t) \in Fit /\ Len(FrontV1(t)) >= 9
<1> DEFINE na == TrapName(Enterprise)
           nb == <<127, 0, 0, 1>>
           nc == <<t.code - 1>>
           nd == <<0>>
           ne == Octets(t.uptime)
           nf == BindsV1(t)
           a == Item(6, na)
           b == Item(64, nb)
           c == Item(2, nc)
           d == Item(2, nd)
           e == Item(67, ne)
           f == Item(48, nf)
<1>1. na \in Fit
  BY TrapOids, TrapNameRead, BytesFit
<1>2. nb \in Fit
  <2>1. nb \in Seq(Byte)
    BY TagBytes
  <2>2. QED
    BY <2>1, BytesFit
<1>3. nc \in Fit
  <2>1. t.code - 1 \in Byte
    BY TrapTypes DEF Byte
  <2>2. QED
    BY <2>1, OneFits
<1>4. nd \in Fit /\ Len(nd) = 1
  BY TagBytes, OneFits
<1>5. ne \in Fit
  BY TrapTypes, OctetsFit
<1>6. nf \in Fit
  BY BindsTold
<1> HIDE DEF na, nb, nc, nd, ne, nf
<1>7. /\ a \in FitItem /\ b \in FitItem /\ c \in FitItem /\ d \in FitItem
      /\ e \in FitItem /\ f \in FitItem
  BY <1>1, <1>2, <1>3, <1>4, <1>5, <1>6, TagBytes DEF Item, FitItem
<1>8. Told(Tlv(6, na), <<a>>)
  BY <1>1, TagBytes, ToldOne
<1>9. /\ Extended(<<a>>, b, <<a, b>>) /\ Extended(<<a, b>>, c, <<a, b, c>>)
      /\ Extended(<<a, b, c>>, d, <<a, b, c, d>>)
      /\ Extended(<<a, b, c, d>>, e, <<a, b, c, d, e>>)
      /\ Extended(<<a, b, c, d, e>>, f, <<a, b, c, d, e, f>>)
  <2> HIDE DEF a, b, c, d, e, f
  <2>1. QED
    BY <1>7, Lists, LongLists
<1> DEFINE x1 == Tlv(6, na)
           x2 == x1 \o Tlv(64, nb)
           x3 == x2 \o Tlv(2, nc)
           x4 == x3 \o Tlv(2, nd)
           x5 == x4 \o Tlv(67, ne)
           x6 == x5 \o Tlv(48, nf)
<1>10. Told(x2, <<a, b>>)
  BY <1>2, <1>8, <1>9, TagBytes, ToldNext
<1> HIDE DEF x1, x2
<1>11. Told(x3, <<a, b, c>>)
  BY <1>3, <1>9, <1>10, TagBytes, ToldNext
<1> HIDE DEF x3
<1>12. Told(x4, <<a, b, c, d>>)
  BY <1>4, <1>9, <1>11, TagBytes, ToldNext
<1> HIDE DEF x4
<1>13. Told(x5, <<a, b, c, d, e>>)
  BY <1>5, <1>9, <1>12, TagBytes, ToldNext
<1> HIDE DEF x5
<1>14. Told(x6, <<a, b, c, d, e, f>>)
  BY <1>6, <1>9, <1>13, TagBytes, ToldNext
<1>15. FrontV1(t) = x5
  BY DEF FrontV1, x5, x4, x3, x2, x1, na, nb, nc, nd, ne
<1>16. x5 \in Fit
  BY <1>13 DEF Told
<1>17. Len(x5) >= 9
  <2> DEFINE p == Tlv(64, nb)
             q == Tlv(2, nc)
             r == Tlv(2, nd)
             s == Tlv(67, ne)
  <2>1. x1 \in Seq(Nat) /\ x2 \in Seq(Nat) /\ x3 \in Seq(Nat) /\ x4 \in Seq(Nat)
    BY <1>8, <1>10, <1>11, <1>12 DEF Told, Fit, x1
  <2>2. p \in Seq(Nat) /\ q \in Seq(Nat) /\ r \in Seq(Nat) /\ s \in Seq(Nat)
    BY <1>2, <1>3, <1>4, <1>5, TagBytes, TlvFits DEF Fit
  <2>3. /\ Len(x1) >= 2 /\ Len(p) >= 2 /\ Len(q) >= 2 /\ Len(r) >= 3 /\ Len(s) >= 2
        /\ Len(x1) \in Nat /\ Len(p) \in Nat /\ Len(q) \in Nat /\ Len(r) \in Nat /\ Len(s) \in Nat
    <3>1. Len(x1) \in Nat /\ Len(na) \in Nat /\ Len(na) + 2 <= Len(x1)
      BY <1>1, TagBytes, TlvLonger DEF x1
    <3>2. Len(p) \in Nat /\ Len(nb) \in Nat /\ Len(nb) + 2 <= Len(p)
      BY <1>2, TagBytes, TlvLonger
    <3>3. Len(q) \in Nat /\ Len(nc) \in Nat /\ Len(nc) + 2 <= Len(q)
      BY <1>3, TagBytes, TlvLonger
    <3>4. Len(r) \in Nat /\ Len(nd) + 2 <= Len(r)
      BY <1>4, TagBytes, TlvLonger
    <3>5. Len(s) \in Nat /\ Len(ne) \in Nat /\ Len(ne) + 2 <= Len(s)
      BY <1>5, TagBytes, TlvLonger
    <3> HIDE DEF p, q, r, s
    <3>6. QED
      BY <1>4, <3>1, <3>2, <3>3, <3>4, <3>5
  <2> HIDE DEF p, q, r, s
  <2>4. Len(x1 \o p) = Len(x1) + Len(p)
    BY <2>1, <2>2, Joined
  <2>5. Len(x2 \o q) = Len(x2) + Len(q)
    BY <2>1, <2>2, Joined
  <2>6. Len(x3 \o r) = Len(x3) + Len(r)
    BY <2>1, <2>2, Joined
  <2>7. Len(x4 \o s) = Len(x4) + Len(s)
    BY <2>1, <2>2, Joined
  <2>8. Len(x2) = Len(x1) + Len(p) /\ Len(x3) = Len(x2) + Len(q)
        /\ Len(x4) = Len(x3) + Len(r) /\ Len(x5) = Len(x4) + Len(s)
    BY <2>4, <2>5, <2>6, <2>7 DEF x2, x3, x4, x5, p, q, r, s
  <2>9. QED
    BY <2>3, <2>8
<1>18. PduV1(t) = x6
  BY <1>15 DEF PduV1, nf
<1>19. FieldsV1(t) = <<a, b, c, d, e, f>>
  BY DEF FieldsV1, na, nb, nc, nd, ne, nf
<1>20. QED
  BY <1>14, <1>15, <1>16, <1>17, <1>18, <1>19

-----------------------------------------------------------------------------
(* Messages are decoded                                                    *)

\* What the receiver finds in a message.
LEMMA MessageDecoded ==
  ASSUME NEW version \in {0, 1}, NEW community \in Seq(Byte), NEW tag \in {164, 167},
         NEW pdu \in Fit, Len(Message(version, community, tag, pdu)) <= Datagram,
         Len(pdu) >= 11
  PROVE  DecodeTrap(Message(version, community, tag, pdu)) =
            IF tag = 164 THEN DecodeV1(community, pdu, Elements(pdu, 1, 3))
            ELSE DecodeV2c(community, pdu, Elements(pdu, 1, 3))
<1> DEFINE data == Message(version, community, tag, pdu)
           body == MessageBody(version, community, tag, pdu)
           parts == MessageParts(version, community, tag, pdu)
           head == ReadTlv(data, 1, 3)
           msg == Elements(data, head.start, 3)
<1>1. version \in Byte /\ tag \in Byte /\ 3 \in Widths
  BY TagBytes
<1>2. /\ data = Tlv(48, body) /\ data \in Seq(Byte)
      /\ Len(body) \in Nat /\ Len(body) <= Datagram
      /\ ReadTlv(data, 1, 3) = Element(48, body, Len(data) + 1)
      /\ Like(Elements(data, Len(data) + 1 - Len(body), 3), parts, Len(data) + 1)
  <2>1. MessageSeen(data, body, parts, pdu, 3)
    BY <1>1, MessageRead
  <2> HIDE DEF data, body, parts
  <2>2. QED
    BY <2>1 DEF MessageSeen
<1>3. head.ok /\ head.tag = 48 /\ head.start = Len(data) + 1 - Len(body)
  <2> DEFINE e == Len(data) + 1
  <2> HIDE DEF e, data, body
  <2>1. Element(48, body, e).ok /\ Element(48, body, e).tag = 48
        /\ Element(48, body, e).start = e - Len(body)
    BY DEF Element
  <2>2. QED
    BY <1>2, <2>1 DEF e
<1>4. Len(data) >= 20
  <2> DEFINE v == <<version>>
             x == Tlv(2, v)
             y == Tlv(4, community)
             z == Tlv(tag, pdu)
  <2>1. <<version>> \in Fit /\ community \in Fit /\ 2 \in Byte /\ 4 \in Byte /\ 48 \in Byte
    BY <1>1, TagBytes, OneFits, BytesFit
  <2>2. Len(x) \in Nat /\ Len(x) >= 3
    <3>1. Len(v) = 1
      OBVIOUS
    <3>a. v \in Fit
      BY <2>1
    <3> HIDE DEF v
    <3>2. Len(v) \in Nat /\ Len(x) \in Nat /\ Len(v) + 2 <= Len(x)
      BY <2>1, <3>a, TlvLonger
    <3> HIDE DEF x
    <3>3. QED
      BY <3>1, <3>2
  <2>3. Len(community) \in Nat /\ Len(y) \in Nat /\ Len(community) + 2 <= Len(y)
    BY <2>1, TlvLonger
  <2>4. Len(pdu) \in Nat /\ Len(z) \in Nat /\ Len(pdu) + 2 <= Len(z)
    BY <1>1, TlvLonger
  <2>5. x \in Fit /\ y \in Fit /\ z \in Fit
    BY <1>1, <2>1, TlvFits
  <2>6. x \in Seq(Nat) /\ y \in Seq(Nat) /\ z \in Seq(Nat)
    BY <2>5 DEF Fit
  <2>7. body = (x \o y) \o z
    BY DEF MessageBody
  <2>8. body \in Fit
    <3> HIDE DEF x, y, z, body
    <3>1. x \o y \in Fit
      BY <2>5, BothFit
    <3>2. QED
      BY <2>5, <2>7, <3>1, BothFit
  <2>9. Len(Tlv(48, body)) \in Nat /\ Len(body) + 2 <= Len(Tlv(48, body))
    <3> HIDE DEF body
    <3>1. QED
      BY <2>1, <2>8, TlvLonger
  <2> HIDE DEF x, y, z, body, data
  <2>10. x \o y \in Seq(Nat) /\ Len(x \o y) = Len(x) + Len(y)
    BY <2>6, Joined
  <2>11. Len(body) = Len(x \o y) + Len(z)
    BY <2>6, <2>7, <2>10, Joined
  <2>12. Len(body) >= 18
    BY <2>2, <2>3, <2>4, <2>10, <2>11
  <2>13. Len(data) \in Nat /\ Len(body) + 2 <= Len(data)
    BY <1>2, <2>9
  <2>14. QED
    BY <1>2, <2>12, <2>13
<1>5. Like(msg, parts, Len(data) + 1)
  BY <1>2, <1>3
<1>6. /\ Len(parts) = 3 /\ parts[1] = Item(2, <<version>>)
      /\ parts[2] = Item(4, community) /\ parts[3] = Item(tag, pdu)
  BY DEF MessageParts
<1> HIDE DEF data, body, parts, head
<1>7. /\ msg \in Seq(ElementSet) /\ Len(msg) = 3
      /\ msg[1].tag = 2 /\ msg[1].value = <<version>>
      /\ msg[2].tag = 4 /\ msg[2].value = community
      /\ msg[3].tag = tag /\ msg[3].value = pdu
  <2> HIDE DEF msg
  <2>1. /\ msg \in Seq(ElementSet) /\ Len(msg) = 3
        /\ \A i \in 1..3 : HasItem(msg[i], parts[i])
    BY <1>5, <1>6 DEF Like
  <2>2. HasItem(msg[1], parts[1]) /\ HasItem(msg[2], parts[2]) /\ HasItem(msg[3], parts[3])
    BY <2>1
  <2>3. QED
    BY <1>6, <2>1, <2>2 DEF HasItem, Item
<1> HIDE DEF msg
<1>8. Starts(msg, <<2, 4>>)
  <2> DEFINE two == <<2, 4>>
  <2>1. two \in Seq(Nat) /\ Len(two) = 2 /\ two[1] = 2 /\ two[2] = 4
    OBVIOUS
  <2> HIDE DEF two
  <2>2. /\ Len(two) <= Len(msg)
        /\ \A i \in 1..Len(two) : msg[i].tag = two[i]
    <3>1. \A i \in 1..2 : i = 1 \/ i = 2
      OBVIOUS
    <3>2. QED
      BY <1>7, <2>1, <3>1
  <2>3. Starts(msg, two)
    BY <1>7, <2>1, <2>2, StartsIs
  <2>4. QED
    BY <2>3 DEF two
<1>9. Len(msg[1].value) \in 1..8 /\ msg[3].tag \in {167, 164} /\ ~(Len(msg) < 3)
  BY <1>7
<1>10. DecodeTrap(data) = DecodeMessage(msg)
  <2>1. ~(Len(data) < 20)
    <3>1. Len(data) \in Nat
      BY <1>2, LenProperties
    <3>2. QED
      BY <1>4, <3>1
  <2>2. QED
    BY <1>3, <2>1, Zenon DEF DecodeTrap, head, msg
<1>11. DecodeMessage(msg) = IF tag = 164 THEN DecodeV1(community, pdu, Elements(pdu, 1, 3))
                            ELSE DecodeV2c(community, pdu, Elements(pdu, 1, 3))
  BY <1>7, <1>8, <1>9, Zenon DEF DecodeMessage
<1>12. QED
  BY <1>10, <1>11 DEF data

\* A message that lost its end is refused.
LEMMA CutRefused ==
  ASSUME NEW version \in Byte, NEW community \in Seq(Byte), NEW tag \in Byte, NEW pdu \in Fit,
         Len(Message(version, community, tag, pdu)) <= Datagram,
         NEW n \in Nat, n < Len(Message(version, community, tag, pdu))
  PROVE  LET cut == SubSeq(Message(version, community, tag, pdu), 1, n) IN
         /\ DecodeTrap(cut) = Refused
         /\ \A most \in Widths : ReadTlv(cut, 1, most) = NoElement
<1> DEFINE data == Message(version, community, tag, pdu)
           body == MessageBody(version, community, tag, pdu)
           cut == SubSeq(data, 1, n)
<1>1. 3 \in Widths /\ 48 \in Byte
  BY TagBytes
<1>2. data = Tlv(48, body) /\ body \in Seq(Byte) /\ Len(body) <= Datagram
  <2>1. MessageSeen(data, body, MessageParts(version, community, tag, pdu), pdu, 3)
    BY <1>1, MessageRead
  <2> HIDE DEF data, body
  <2>2. QED
    BY <2>1 DEF MessageSeen
<1>3. n < Len(data)
  OBVIOUS
<1> HIDE DEF data, body
<1>4. ASSUME NEW most \in Widths PROVE ReadTlv(cut, 1, most) = NoElement
  <2>1. ReadTlv(SubSeq(Tlv(48, body), 1, n), 1, most) = NoElement
    BY <1>1, <1>2, <1>3, CutRead
  <2>2. QED
    BY <1>2, <2>1
<1> HIDE DEF cut
<1>5. DecodeTrap(cut) = Refused
  <2>1. ReadTlv(cut, 1, 3) = NoElement /\ ~NoElement.ok
    BY <1>1, <1>4 DEF NoElement
  <2>2. QED
    BY <2>1, Zenon DEF DecodeTrap
<1>6. QED
  BY <1>4, <1>5 DEF cut, data

\* What the receiver is to understand of a trap.
TrapSeen(t) ==
    [ok |-> TRUE, category |-> GenericTraps[t.code], community |-> t.community,
     uptime |-> <<t.uptime>>, port |-> t.port, oper |-> OperOf(t)]

\* n elements that hold an item each, and where the last of them ends.
LikeEach(es, items, end, n) ==
    /\ es \in Seq(ElementSet) /\ Len(es) = n
    /\ \A i \in 1..n : HasItem(es[i], items[i])
    /\ es[n].end = end

\* Elements that hold items hold them one by one.
LEMMA LikeFields ==
  ASSUME NEW es, NEW items, NEW end, NEW n \in Nat \ {0}, Like(es, items, end), Len(items) = n
  PROVE  LikeEach(es, items, end, n)
<1>1. items # << >>
  <2>1. CASE items = << >>
    <3>1. n = 0
      BY <2>1
    <3>2. QED
      BY <3>1
  <2>2. QED
    BY <2>1
<1>2. QED
  BY <1>1, Zenon DEF Like, LikeEach

\* A v2c trap is understood.
LEMMA V2cDecoded ==
  ASSUME NEW t \in Traps, Len(TrapV2c(t)) <= Datagram
  PROVE  DecodeTrap(TrapV2c(t)) = TrapSeen(t)
<1> DEFINE c == Utf8(t.community)
           pdu == PduV2c(t)
           binds == BindsV2c(t)
           fields == Elements(pdu, 1, 3)
           empty == Known(<< >>, << >>, << >>, << >>)
           known == Known(<<t.uptime>>, Append(TrapBase, t.code), t.port, OperOf(t))
           z == <<0>>
           items == FieldsV2c(t)
<1>1. /\ Told(pdu, items) /\ FrontV2c \in Fit /\ Len(FrontV2c) >= 9
      /\ pdu = FrontV2c \o Tlv(48, binds) /\ binds \in Fit
  BY V2cTold, BindsTold DEF PduV2c
<1>2. TrapV2c(t) = Message(1, c, 167, pdu) /\ c \in Seq(Byte) /\ t.code \in 1..6
  BY TrapIs, TrapTypes
<1>3. Says(binds, empty, known)
  BY V2cSaid
<1>4. /\ Len(items) = 4 /\ items[1] = Item(2, z) /\ items[2] = Item(2, z)
      /\ items[3] = Item(2, z) /\ items[4] = Item(48, binds)
  BY DEF FieldsV2c
<1> HIDE DEF c, pdu, binds, empty, known, z, items
<1>5. pdu \in Fit /\ 1 \in Byte /\ 167 \in Byte /\ 48 \in Byte /\ 3 \in Widths
  BY <1>1, TagBytes DEF Told
<1>6. /\ pdu \in Seq(Byte) /\ Len(pdu) \in Nat /\ Len(pdu) <= Datagram
  <2>1. Len(Message(1, c, 167, pdu)) <= Datagram
    BY <1>2
  <2>2. MessageSeen(Message(1, c, 167, pdu), MessageBody(1, c, 167, pdu),
                    MessageParts(1, c, 167, pdu), pdu, 3)
    BY <1>2, <1>5, <2>1, MessageRead
  <2>3. QED
    BY <2>2 DEF MessageSeen
<1>7. /\ Len(binds) \in Nat /\ Len(binds) + 2 <= Len(Tlv(48, binds)) /\ Len(Tlv(48, binds)) \in Nat
  BY <1>1, <1>5, TlvLonger
<1>8. Len(pdu) = Len(FrontV2c) + Len(Tlv(48, binds)) /\ Len(FrontV2c) \in Nat
  <2>1. FrontV2c \in Seq(Nat) /\ Tlv(48, binds) \in Seq(Nat)
    BY <1>1, <1>5, TlvFits DEF Fit
  <2>2. QED
    BY <1>1, <2>1, Joined
<1>9. Len(pdu) >= 11 /\ Len(FrontV2c) <= Datagram /\ Len(binds) <= Datagram
  BY <1>1, <1>6, <1>7, <1>8 DEF Datagram
<1>10. DecodeTrap(TrapV2c(t)) = DecodeV2c(c, pdu, fields)
  <2>1. 1 \in {0, 1} /\ 167 \in {164, 167} /\ 167 # 164
    OBVIOUS
  <2>2. QED
    BY <1>2, <1>5, <1>9, <2>1, MessageDecoded
<1>11. Reads(pdu, items)
  BY <1>1, <1>6 DEF Told
<1>12. Like(fields, items, Len(pdu) + 1)
  BY <1>5, <1>11, ReadsAll
<1> HIDE DEF fields
<1>13. /\ fields \in Seq(ElementSet) /\ Len(fields) = 4
       /\ fields[1].tag = 2 /\ fields[2].tag = 2 /\ fields[3].tag = 2 /\ fields[4].tag = 48
       /\ fields[4].start = Len(pdu) + 1 - Len(binds)
  <2>1. /\ fields \in Seq(ElementSet) /\ Len(fields) = 4
        /\ \A i \in 1..4 : HasItem(fields[i], items[i])
        /\ fields[4].end = Len(pdu) + 1
    <3>1. Len(items) = 4 /\ 4 \in Nat \ {0}
      BY <1>4
    <3> HIDE DEF items
    <3>2. LikeEach(fields, items, Len(pdu) + 1, 4)
      BY <1>12, <3>1, LikeFields
    <3>3. QED
      BY <3>2, Zenon DEF LikeEach
  <2>2. /\ HasItem(fields[1], items[1]) /\ HasItem(fields[2], items[2])
        /\ HasItem(fields[3], items[3]) /\ HasItem(fields[4], items[4])
    BY <2>1
  <2>3. QED
    BY <1>4, <2>1, <2>2 DEF HasItem, Item
<1>14. Starts(fields, <<2, 2, 2, 48>>)
  <2> DEFINE tags == <<2, 2, 2, 48>>
  <2>1. /\ tags \in Seq(Nat) /\ Len(tags) = 4
        /\ tags[1] = 2 /\ tags[2] = 2 /\ tags[3] = 2 /\ tags[4] = 48
    OBVIOUS
  <2> HIDE DEF tags
  <2>2. /\ Len(tags) <= Len(fields)
        /\ \A i \in 1..Len(tags) : fields[i].tag = tags[i]
    <3>1. \A i \in 1..4 : i = 1 \/ i = 2 \/ i = 3 \/ i = 4
      OBVIOUS
    <3>2. QED
      BY <1>13, <2>1, <3>1
  <2>3. Starts(fields, tags)
    BY <1>13, <2>1, <2>2, StartsIs
  <2>4. QED
    BY <2>3 DEF tags
<1>15. TakeBinds(empty, Elements(pdu, fields[4].start, 3)) = known
  <2>1. FrontV2c \in Seq(Byte)
    BY <1>1, <1>9 DEF Fit
  <2>2. TakeBinds(empty, Elements(FrontV2c \o Tlv(48, binds),
                  Len(FrontV2c \o Tlv(48, binds)) + 1 - Len(binds), 3)) = known
    BY <1>3, <1>5, <1>9, <2>1, SaysEnd
  <2>3. QED
    BY <1>1, <1>13, <2>2
<1>16. DecodeV2c(c, pdu, fields) = Finalize(c, << >>, known)
  <2>1. empty = [uptime |-> << >>, trap_oid |-> << >>, port |-> << >>, oper |-> << >>]
    BY DEF empty, Known
  <2>2. QED
    BY <1>14, <1>15, <2>1, Zenon DEF DecodeV2c
<1>17. Finalize(c, << >>, known) = TrapSeen(t)
  <2>1. /\ known.uptime = <<t.uptime>> /\ known.trap_oid = Append(TrapBase, t.code)
        /\ known.port = t.port /\ known.oper = OperOf(t)
    BY DEF known, Known
  <2>2. CategoryOf(known, << >>) = GenericTraps[t.code]
    <3>1. /\ IsStrictPrefix(TrapBase, Append(TrapBase, t.code))
          /\ Append(TrapBase, t.code)[10] = t.code /\ Len(TrapBase) + 1 = 10
      BY <1>2, TrapOids, NameFacts
    <3>2. t.code \in DOMAIN GenericTraps
      BY <1>2 DEF GenericTraps
    <3>3. NameOfCode(t.code) = GenericTraps[t.code]
      BY <3>2 DEF NameOfCode
    <3>4. QED
      BY <2>1, <3>1, <3>3, Zenon DEF CategoryOf
  <2>3. Characters(c) = t.community
    BY TrapTypes, Utf8Read DEF c
  <2>4. QED
    BY <2>1, <2>2, <2>3, Zenon DEF Finalize, TrapSeen
<1>18. QED
  BY <1>10, <1>16, <1>17

\* A v1 trap is understood.
LEMMA V1Decoded ==
  ASSUME NEW t \in Traps, Len(TrapV1(t)) <= Datagram
  PROVE  DecodeTrap(TrapV1(t)) = TrapSeen(t)
<1> DEFINE c == Utf8(t.community)
           pdu == PduV1(t)
           binds == BindsV1(t)
           fields == Elements(pdu, 1, 3)
           u == <<t.uptime>>
           empty == Known(u, Enterprise, << >>, << >>)
           known == Known(u, Enterprise, t.port, OperOf(t))
           front == FrontV1(t)
           items == FieldsV1(t)
           i1 == Item(6, TrapName(Enterprise))
           i2 == Item(64, <<127, 0, 0, 1>>)
           i3 == Item(2, <<t.code - 1>>)
           i4 == Item(2, <<0>>)
           i5 == Item(67, Octets(t.uptime))
           i6 == Item(48, binds)
<1>1. /\ Told(pdu, items) /\ front \in Fit /\ Len(front) >= 9
      /\ pdu = front \o Tlv(48, binds) /\ binds \in Fit
  BY V1Told, BindsTold DEF PduV1
<1>2. TrapV1(t) = Message(0, c, 164, pdu) /\ c \in Seq(Byte) /\ t.code \in 1..6
  BY TrapIs, TrapTypes
<1>3. Says(binds, empty, known)
  BY V1Said
<1>4. /\ Len(items) = 6 /\ items[1] = i1 /\ items[2] = i2 /\ items[3] = i3
      /\ items[4] = i4 /\ items[5] = i5 /\ items[6] = i6
  <2>1. items = <<i1, i2, i3, i4, i5, i6>>
    BY DEF FieldsV1
  <2> HIDE DEF i1, i2, i3, i4, i5, i6, items
  <2>2. QED
    BY <2>1
<1> HIDE DEF c, pdu, binds, empty, known, items, u, front
<1>a. /\ i1.tag = 6 /\ i1.value = TrapName(Enterprise) /\ i3.tag = 2 /\ i3.value = <<t.code - 1>>
      /\ i4.tag = 2 /\ i5.tag = 67 /\ i5.value = Octets(t.uptime)
      /\ i6.tag = 48 /\ i6.value = binds
  BY DEF Item
<1> HIDE DEF i1, i2, i3, i4, i5, i6
<1>5. pdu \in Fit /\ 0 \in Byte /\ 164 \in Byte /\ 48 \in Byte /\ 3 \in Widths
  BY <1>1, TagBytes DEF Told
<1>6. /\ pdu \in Seq(Byte) /\ Len(pdu) \in Nat /\ Len(pdu) <= Datagram
  <2>1. Len(Message(0, c, 164, pdu)) <= Datagram
    BY <1>2
  <2>2. MessageSeen(Message(0, c, 164, pdu), MessageBody(0, c, 164, pdu),
                    MessageParts(0, c, 164, pdu), pdu, 3)
    BY <1>2, <1>5, <2>1, MessageRead
  <2>3. QED
    BY <2>2 DEF MessageSeen
<1>7. /\ Len(binds) \in Nat /\ Len(binds) + 2 <= Len(Tlv(48, binds)) /\ Len(Tlv(48, binds)) \in Nat
  BY <1>1, <1>5, TlvLonger
<1>8. Len(pdu) = Len(front) + Len(Tlv(48, binds)) /\ Len(front) \in Nat
  <2>1. front \in Seq(Nat) /\ Tlv(48, binds) \in Seq(Nat)
    BY <1>1, <1>5, TlvFits DEF Fit
  <2>2. QED
    BY <1>1, <2>1, Joined
<1>9. Len(pdu) >= 11 /\ Len(front) <= Datagram /\ Len(binds) <= Datagram
  BY <1>1, <1>6, <1>7, <1>8 DEF Datagram
<1>10. DecodeTrap(TrapV1(t)) = DecodeV1(c, pdu, fields)
  <2>1. 0 \in {0, 1} /\ 164 \in {164, 167}
    OBVIOUS
  <2>2. QED
    BY <1>2, <1>5, <1>9, <2>1, MessageDecoded
<1>11. Reads(pdu, items)
  BY <1>1, <1>6 DEF Told
<1>12. Like(fields, items, Len(pdu) + 1)
  BY <1>5, <1>11, ReadsAll
<1> HIDE DEF fields
<1>13. /\ fields \in Seq(ElementSet) /\ Len(fields) = 6
       /\ fields[1].tag = 6 /\ fields[1].value = TrapName(Enterprise)
       /\ fields[3].tag = 2 /\ fields[3].value = <<t.code - 1>>
       /\ fields[4].tag = 2 /\ fields[5].tag = 67 /\ fields[5].value = Octets(t.uptime)
       /\ fields[6].tag = 48 /\ fields[6].start = Len(pdu) + 1 - Len(binds)
  <2>1. /\ fields \in Seq(ElementSet) /\ Len(fields) = 6
        /\ \A i \in 1..6 : HasItem(fields[i], items[i])
        /\ fields[6].end = Len(pdu) + 1
    <3>1. Len(items) = 6 /\ 6 \in Nat \ {0}
      BY <1>4
    <3> HIDE DEF items
    <3>2. LikeEach(fields, items, Len(pdu) + 1, 6)
      BY <1>12, <3>1, LikeFields
    <3>3. QED
      BY <3>2, Zenon DEF LikeEach
  <2>2. /\ HasItem(fields[1], i1) /\ HasItem(fields[3], i3)
        /\ HasItem(fields[4], i4) /\ HasItem(fields[5], i5) /\ HasItem(fields[6], i6)
    BY <1>4, <2>1
  <2>3. QED
    BY <1>a, <2>1, <2>2, SMTT(40) DEF HasItem
<1>14. Starts(fields, <<6>>) /\ \A i \in 3..6 : fields[i].tag = <<2, 2, 67, 48>>[i - 2]
  <2> DEFINE tags == <<6>>
             rest == <<2, 2, 67, 48>>
  <2>1. tags \in Seq(Nat) /\ Len(tags) = 1 /\ tags[1] = 6
    OBVIOUS
  <2>2. rest[1] = 2 /\ rest[2] = 2 /\ rest[3] = 67 /\ rest[4] = 48
    OBVIOUS
  <2> HIDE DEF tags, rest
  <2>3. /\ Len(tags) <= Len(fields)
        /\ \A i \in 1..Len(tags) : fields[i].tag = tags[i]
    <3>1. \A i \in 1..1 : i = 1
      OBVIOUS
    <3>2. QED
      BY <1>13, <2>1, <3>1
  <2>4. Starts(fields, tags)
    BY <1>13, <2>1, <2>3, StartsIs
  <2>5. ASSUME NEW i \in 3..6 PROVE fields[i].tag = rest[i - 2]
    <3>1. /\ i = 3 \/ i = 4 \/ i = 5 \/ i = 6
          /\ 3 - 2 = 1 /\ 4 - 2 = 2 /\ 5 - 2 = 3 /\ 6 - 2 = 4
      OBVIOUS
    <3>2. QED
      BY <1>13, <2>2, <3>1
  <2>6. QED
    BY <2>4, <2>5 DEF tags, rest
<1>15. TakeBinds(empty, Elements(pdu, fields[6].start, 3)) = known
  <2>1. front \in Seq(Byte)
    BY <1>1, <1>9 DEF Fit
  <2>2. TakeBinds(empty, Elements(front \o Tlv(48, binds),
                  Len(front \o Tlv(48, binds)) + 1 - Len(binds), 3)) = known
    BY <1>3, <1>5, <1>9, <2>1, SaysEnd
  <2>3. QED
    BY <1>1, <1>13, <2>2
<1>16. DecodeV1(c, pdu, fields) = Finalize(c, <<t.code - 1>>, known)
  <2>1. /\ Unsigned(fields[5].value) = t.uptime /\ NameOfTrap(fields[1].value) = Enterprise
        /\ Signed(fields[3].value) = t.code - 1
    <3>1. Unsigned(Octets(t.uptime)) = t.uptime /\ NameOfTrap(TrapName(Enterprise)) = Enterprise
      BY TrapTypes, OctetsRead, TrapOids, TrapNameRead
    <3>2. Signed(<<t.code - 1>>) = t.code - 1
      <4> DEFINE x == t.code - 1
      <4>1. x \in Int /\ ~(x >= 128)
        BY <1>2
      <4>2. From(0, <<x>>) = 0 * 256 + x
        <5> HIDE DEF x
        <5>1. QED
          BY <4>1, FromFew
      <4>3. ~(<<x>> # << >> /\ <<x>>[1] >= 128)
        BY <4>1
      <4> HIDE DEF x
      <4>4. Signed(<<x>>) = From(0, <<x>>)
        BY <4>3 DEF Signed
      <4>5. QED
        BY <4>1, <4>2, <4>4 DEF x
    <3>3. QED
      BY <1>13, <3>1, <3>2
  <2>2. empty = [uptime |-> u, trap_oid |-> Enterprise, port |-> << >>, oper |-> << >>]
    BY DEF empty, Known
  <2>3. /\ ~(Len(fields) < 6) /\ Starts(fields, <<6>>)
        /\ ~(\E i \in 3..6 : fields[i].tag # <<2, 2, 67, 48>>[i - 2])
    BY <1>13, <1>14
  <2>4. TakeBinds([uptime |-> <<Unsigned(fields[5].value)>>,
                   trap_oid |-> NameOfTrap(fields[1].value), port |-> << >>, oper |-> << >>],
                  Elements(pdu, fields[6].start, 3)) = known
    BY <1>15, <2>1, <2>2 DEF u
  <2>5. QED
    BY <2>1, <2>3, <2>4, Zenon DEF DecodeV1
<1>17. Finalize(c, <<t.code - 1>>, known) = TrapSeen(t)
  <2>1. known.uptime = <<t.uptime>> /\ known.port = t.port /\ known.oper = OperOf(t)
    BY DEF known, Known, u
  <2>2. CategoryOf(known, <<t.code - 1>>) = GenericTraps[t.code]
    <3>1. t.code \in DOMAIN GenericTraps
      BY <1>2 DEF GenericTraps
    <3>2. NameOfCode(t.code) = GenericTraps[t.code]
      BY <3>1 DEF NameOfCode
    <3>3. <<t.code - 1>> # << >> /\ <<t.code - 1>>[1] + 1 = t.code
      BY <1>2
    <3>4. QED
      BY <3>2, <3>3, Zenon DEF CategoryOf
  <2>3. Characters(c) = t.community
    BY TrapTypes, Utf8Read DEF c
  <2>4. QED
    BY <2>1, <2>2, <2>3, Zenon DEF Finalize, TrapSeen
<1>18. QED
  BY <1>10, <1>16, <1>17

-----------------------------------------------------------------------------
(* What a packet carries                                                    *)

TrapPacket(t) == IF t.version = "v1" THEN TrapV1(t) ELSE TrapV2c(t)
AllAskable(r) == \A i \in DOMAIN r.names : Askable(r.names[i])

\* The packet is p, or what is left of it.
Carries(p) ==
    /\ Len(p) <= Datagram
    /\ whole => packet = p
    /\ ~whole => \E n \in Nat : n < Len(p) /\ packet = SubSeq(p, 1, n)

Answered ==
    /\ ~IsTrap /\ AllAskable(sent.request)
    /\ reply.status \in {0, 2} /\ reply.values \in AnswerLists
    /\ Len(reply.values) = Len(sent.request.names)
    /\ Carries(Response(sent.request, reply.status, reply.values))

Asked == whole /\ AllAskable(sent.request) /\ Carries(Request(sent.request))

Carried ==
    /\ hop = "new" => whole
    /\ hop = "sent" /\ IsTrap => Carries(TrapPacket(sent.trap))
    /\ hop = "sent" /\ ~IsTrap => Asked
    /\ hop = "answered" => Answered

CarriedInv == CodecInv /\ Carried

\* At first nothing is carried.
LEMMA CarriedInit == CodecInit => CarriedInv
<1> SUFFICES ASSUME CodecInit PROVE CarriedInv
  OBVIOUS
<1>1. hop = "new" /\ whole
  BY DEF CodecInit
<1>2. CodecInv
  BY CodecInitInv
<1>3. QED
  BY <1>1, <1>2 DEF CarriedInv, Carried

\* Every step keeps the packet what was built, or the start of it.
LEMMA CarriedNext == CarriedInv /\ [CodecNext]_codecVars => CarriedInv'
<1> SUFFICES ASSUME CarriedInv, [CodecNext]_codecVars PROVE CarriedInv'
  OBVIOUS
<1>0. /\ hop \in {"new", "sent", "answered"} /\ whole \in BOOLEAN /\ Carried /\ CodecInv
  BY DEF CarriedInv, CodecInv, CodecTypeOK
<1>1. CodecInv'
  BY <1>0, CodecNextInv
<1> SUFFICES Carried'
  BY <1>1 DEF CarriedInv
<1>2. ASSUME SendPacket PROVE Carried'
  <2>1. /\ hop = "new" /\ hop' = "sent" /\ UNCHANGED <<sent, reply, whole>>
        /\ Len(packet') <= Datagram
    BY <1>2 DEF SendPacket
  <2>2. whole /\ whole'
    BY <1>0, <2>1 DEF Carried
  <2>3. CASE IsTrap
    <3>1. packet' = TrapPacket(sent.trap)
      BY <1>2, <2>3, Zenon DEF SendPacket, TrapPacket
    <3>2. Carries(TrapPacket(sent.trap))'
      BY <2>1, <2>2, <3>1 DEF Carries, TrapPacket
    <3>3. IsTrap'
      BY <2>1, <2>3 DEF IsTrap
    <3>4. QED
      BY <2>1, <3>2, <3>3 DEF Carried
  <2>4. CASE ~IsTrap
    <3>1. packet' = Request(sent.request) /\ AllAskable(sent.request)
      BY <1>2, <2>4 DEF SendPacket, AllAskable
    <3>2. Asked'
      BY <2>1, <2>2, <3>1 DEF Carries, Asked, AllAskable
    <3>3. ~IsTrap'
      BY <2>1, <2>4 DEF IsTrap
    <3>4. QED
      BY <2>1, <3>2, <3>3 DEF Carried
  <2>5. QED
    BY <2>3, <2>4
<1>3. ASSUME NEW status \in {0, 2}, NEW values \in AnswerLists, Answer(status, values)
      PROVE  Carried'
  <2>1. /\ hop = "sent" /\ ~IsTrap /\ whole
        /\ Len(values) = Len(sent.request.names)
        /\ packet' = Response(sent.request, status, values)
        /\ Len(packet') <= Datagram
        /\ hop' = "answered"
        /\ UNCHANGED <<sent, whole>>
    BY <1>3 DEF Answer
  <2>2. reply' = [status |-> status, values |-> values]
    BY <1>3 DEF Answer
  <2>3. reply'.status = status /\ reply'.values = values
    BY <2>2
  <2>4. AllAskable(sent.request)
    BY <1>0, <2>1 DEF Carried, Asked
  <2>5. Carries(Response(sent.request, status, values))'
    BY <2>1 DEF Carries
  <2>6. Answered'
    BY <2>1, <2>3, <2>4, <2>5 DEF Answered, IsTrap, AllAskable
  <2>7. QED
    BY <2>1, <2>6 DEF Carried
<1>4. ASSUME NEW n \in Cuts, Cut(n) PROVE Carried'
  <2>1. n \in Nat
    BY CodecAssumption, SMT
  <2>2. /\ whole /\ n < Len(packet) /\ packet' = SubSeq(packet, 1, n)
        /\ UNCHANGED <<sent, hop, reply>> /\ whole' = FALSE
        /\ hop = (IF IsTrap THEN "sent" ELSE "answered")
    BY <1>4 DEF Cut
  <2>3. ASSUME NEW p, Carries(p) PROVE Len(p) <= Datagram /\ n < Len(p) /\ packet' = SubSeq(p, 1, n)
    BY <2>2, <2>3 DEF Carries
  <2>4. CASE IsTrap
    <3>1. Carries(TrapPacket(sent.trap)) /\ hop = "sent"
      BY <1>0, <2>2, <2>4 DEF Carried
    <3>2. Carries(TrapPacket(sent.trap))'
      BY <2>1, <2>2, <2>3, <3>1 DEF Carries, TrapPacket
    <3>3. IsTrap' /\ hop' = "sent"
      BY <2>2, <2>4 DEF IsTrap
    <3>4. QED
      BY <3>2, <3>3 DEF Carried
  <2>5. CASE ~IsTrap
    <3>1. Answered /\ hop = "answered"
      BY <1>0, <2>2, <2>5 DEF Carried
    <3> DEFINE p == Response(sent.request, reply.status, reply.values)
    <3>2. Carries(p)
      BY <3>1 DEF Answered
    <3>3. p' = p
      BY <2>2
    <3>4. Carries(p)'
      <4> HIDE DEF p
      <4>1. QED
        BY <2>1, <2>2, <2>3, <3>2, <3>3 DEF Carries
    <3>5. Answered'
      BY <2>2, <3>1, <3>4 DEF Answered, IsTrap, AllAskable
    <3>6. hop' = "answered"
      BY <2>2, <3>1
    <3>7. QED
      BY <3>5, <3>6 DEF Carried
  <2>6. QED
    BY <2>4, <2>5
<1>5. CASE UNCHANGED codecVars
  BY <1>0, <1>5 DEF codecVars, Carried, Answered, Asked, Carries, IsTrap, AllAskable, TrapPacket
<1>6. QED
  BY <1>2, <1>3, <1>4, <1>5, Zenon DEF CodecNext

\* Traps are understood.
LEMMA TrapRead == CarriedInv => TrapUnderstood
<1> SUFFICES ASSUME CarriedInv, IsTrap, hop = "sent"
             PROVE  DecodeTrap(packet) = IF ~whole THEN Refused ELSE TrapSeen(sent.trap)
  BY Zenon DEF TrapUnderstood, TrapSeen, OperOf
<1> DEFINE t == sent.trap
           p == TrapPacket(t)
<1>1. t \in Traps /\ Carries(p) /\ whole \in BOOLEAN
  BY SentIs DEF CarriedInv, Carried, CodecInv, CodecTypeOK
<1> HIDE DEF t
<1>2. /\ Len(p) <= Datagram
      /\ whole => packet = p
      /\ ~whole => \E n \in Nat : n < Len(p) /\ packet = SubSeq(p, 1, n)
  BY <1>1 DEF Carries
<1>3. CASE whole
  <2>1. DecodeTrap(p) = TrapSeen(t)
    BY <1>1, <1>2, V1Decoded, V2cDecoded DEF TrapPacket
  <2>2. QED
    BY <1>2, <1>3, <2>1 DEF t
<1>4. CASE ~whole
  <2>1. PICK n \in Nat : n < Len(p) /\ packet = SubSeq(p, 1, n)
    BY <1>2, <1>4
  <2>2. /\ PduV2c(t) \in Fit /\ PduV1(t) \in Fit /\ Utf8(t.community) \in Seq(Byte)
        /\ 0 \in Byte /\ 1 \in Byte /\ 164 \in Byte /\ 167 \in Byte
    BY <1>1, V2cTold, V1Told, TrapTypes, TagBytes DEF Told
  <2>3. \/ p = Message(0, Utf8(t.community), 164, PduV1(t))
        \/ p = Message(1, Utf8(t.community), 167, PduV2c(t))
    BY <1>1, TrapIs DEF TrapPacket
  <2> HIDE DEF p
  <2>4. DecodeTrap(SubSeq(p, 1, n)) = Refused
    <3>1. CASE p = Message(0, Utf8(t.community), 164, PduV1(t))
      <4>1. /\ Len(Message(0, Utf8(t.community), 164, PduV1(t))) <= Datagram
            /\ n < Len(Message(0, Utf8(t.community), 164, PduV1(t)))
        BY <1>2, <2>1, <3>1
      <4>2. QED
        BY <2>2, <3>1, <4>1, CutRefused
    <3>2. CASE p = Message(1, Utf8(t.community), 167, PduV2c(t))
      <4>1. /\ Len(Message(1, Utf8(t.community), 167, PduV2c(t))) <= Datagram
            /\ n < Len(Message(1, Utf8(t.community), 167, PduV2c(t)))
        BY <1>2, <2>1, <3>2
      <4>2. QED
        BY <2>2, <3>2, <4>1, CutRefused
    <3>3. QED
      BY <2>3, <3>1, <3>2
  <2>5. QED
    BY <1>4, <2>1, <2>4
<1>5. QED
  BY <1>1, <1>3, <1>4

-----------------------------------------------------------------------------
(* Names in requests and answers                                            *)

\* What can be asked for is a name.
LEMMA AskedOid ==
  ASSUME NEW arcs \in Seq(Nat), Askable(arcs), Named(arcs)
  PROVE  Oid(arcs)
<1>1. arcs[1] \in Nat /\ arcs[2] \in Nat /\ Len(arcs) >= 2 /\ arcs[1] <= 2
  <2>1. Len(arcs) >= 2 /\ Len(arcs) \in Nat
    BY LenProperties DEF Askable
  <2>2. 1 \in 1..Len(arcs) /\ 2 \in 1..Len(arcs)
    BY <2>1
  <2>3. QED
    BY <2>1, <2>2, ElementOfSeq DEF Askable
<1>2. arcs[1] < 2 => arcs[2] <= 39
  BY <1>1 DEF Named
<1>3. QED
  BY <1>1, <1>2 DEF Oid

\* Below 128 the first octet is both what the receiver and what the client write.
LEMMA RequestNameIs ==
  ASSUME NEW arcs, Oid(arcs), Roots(arcs) < 128
  PROVE  /\ RequestName(arcs) = TrapName(arcs)
         /\ TrapName(arcs) = <<Roots(arcs)>> \o Arcs128(Beyond(arcs))
<1>1. Roots(arcs) \in Nat
  BY OidParts
<1>2. Base128(Roots(arcs)) = <<Roots(arcs)>>
  BY <1>1, Base128Is
<1>3. QED
  BY <1>2, TrapNameIs DEF RequestName

\* The first octet of a name of an answer, and the others.
LEMMA ConsTail ==
  ASSUME NEW x \in Nat, NEW b \in Seq(Byte)
  PROVE  /\ (<<x>> \o b)[1] = x /\ Tail(<<x>> \o b) = b
         /\ Len(<<x>> \o b) = 1 + Len(b) /\ Len(b) \in Nat
<1> DEFINE y == <<x>>
<1>1. b \in Seq(Nat)
  BY Widened
<1>2. y \in Seq(Nat) /\ Len(y) = 1
  OBVIOUS
<1>3. (y \o b)[1] = x /\ Tail(y \o b) = b
  BY <1>1, ConsParts
<1> HIDE DEF y
<1>4. Len(y \o b) = Len(y) + Len(b) /\ Len(b) \in Nat
  <2>1. y \in Seq(Nat)
    BY <1>2
  <2>2. QED
    BY <1>1, <2>1, Joined
<1>5. QED
  BY <1>2, <1>3, <1>4 DEF y

\* Whatever the octets are, they lead somewhere.
LEMMA TurnsSome ==
  ASSUME NEW x \in Seq(Byte)
  PROVE  \E t : Turns(x, Whole(<< >>), t) /\ t.done \in Seq(Nat)
<1> DEFINE State == [done : Seq(Nat), open : Nat]
           start == Whole(<< >>)
           Part(f, n) == /\ f \in [0..n -> State] /\ f[0] = start
                         /\ \A i \in 1..n : f[i] = ReadOctet(f[i - 1], x[i])
           Ready == {n \in Nat : n <= Len(x) => \E f : Part(f, n)}
<1>0. Len(x) \in Nat /\ (\A i \in 1..Len(x) : x[i] \in Nat)
  <2>1. Len(x) \in Nat
    BY LenProperties
  <2>2. \A i \in 1..Len(x) : x[i] \in Byte
    BY ElementOfSeq
  <2>3. QED
    BY <2>1, <2>2, ByteNat
<1>1. start \in State
  BY EmptySeq DEF Whole
<1>2. ASSUME NEW s \in State, NEW y \in Nat PROVE ReadOctet(s, y) \in State
  <2>1. s.done \in Seq(Nat) /\ s.open \in Nat
    OBVIOUS
  <2>2. CASE y >= 128
    <3>1. s.open * 128 + (y - 128) \in Nat
      BY <2>1, <2>2
    <3>2. QED
      BY <2>1, <2>2, <3>1 DEF ReadOctet
  <2>3. CASE ~(y >= 128)
    <3>1. s.open * 128 + y \in Nat
      BY <2>1
    <3>2. Append(s.done, s.open * 128 + y) \in Seq(Nat)
      BY <2>1, <3>1, AppendProperties
    <3>3. QED
      BY <2>3, <3>2 DEF ReadOctet
  <2>4. QED
    BY <2>2, <2>3
<1> HIDE DEF State, start
<1>3. 0 \in Ready
  <2>1. Part([i \in 0..0 |-> start], 0)
    BY <1>1
  <2>2. QED
    BY <2>1
<1> HIDE DEF Part
<1>4. ASSUME NEW n \in Nat, n \in Ready PROVE n + 1 \in Ready
  <2> SUFFICES ASSUME n + 1 <= Len(x) PROVE \E f : Part(f, n + 1)
    OBVIOUS
  <2>1. PICK f : Part(f, n)
    BY <1>0, <1>4
  <2> DEFINE v == ReadOctet(f[n], x[n + 1])
             g == [i \in 0..(n + 1) |-> IF i = n + 1 THEN v ELSE f[i]]
  <2>2. v \in State
    <3>1. f[n] \in State /\ x[n + 1] \in Nat
      BY <1>0, <2>1 DEF Part
    <3>2. QED
      BY <1>2, <3>1
  <2> HIDE DEF v
  <2>3. g \in [0..(n + 1) -> State]
    BY <2>1, <2>2 DEF Part
  <2>4. g[0] = start /\ g[n + 1] = v /\ \A i \in 0..n : g[i] = f[i]
    BY <2>1 DEF Part
  <2> HIDE DEF g
  <2>5. ASSUME NEW i \in 1..(n + 1) PROVE g[i] = ReadOctet(g[i - 1], x[i])
    <3>1. CASE i = n + 1
      <4>1. g[i - 1] = f[n]
        BY <2>4, <3>1
      <4>2. QED
        BY <2>4, <3>1, <4>1 DEF v
    <3>2. CASE i # n + 1
      <4>1. i \in 1..n /\ i \in 0..n /\ i - 1 \in 0..n
        BY <3>2
      <4>2. QED
        BY <2>1, <2>4, <4>1 DEF Part
    <3>3. QED
      BY <3>1, <3>2
  <2>6. Part(g, n + 1)
    BY <2>3, <2>4, <2>5 DEF Part
  <2>7. QED
    BY <2>6
<1> HIDE DEF Ready
<1>5. \A n \in Nat : n \in Ready
  BY <1>3, <1>4, Induct
<1>6. PICK f : Part(f, Len(x))
  BY <1>0, <1>5 DEF Ready
<1>7. f[Len(x)] \in State /\ Turns(x, start, f[Len(x)])
  BY <1>0, <1>6 DEF Part, Turns
<1>8. QED
  BY <1>7 DEF State, start

\* Two arcs in one octet are told apart below 120.
LEMMA Forties ==
  ASSUME NEW r \in Nat, NEW q \in Nat, NEW a \in Nat, a < 40, r = q * 40 + a
  PROVE  r \div 40 = q /\ r % 40 = a
OBVIOUS

\* The client tells the two first arcs apart below 120.
LEMMA AnswerName ==
  ASSUME NEW arcs, Oid(arcs)
  PROVE  /\ NameOfAnswer(TrapName(arcs)) # << >>
         /\ Plain(arcs) => NameOfAnswer(TrapName(arcs)) = arcs
<1> DEFINE raw == TrapName(arcs)
           two == <<raw[1] \div 40, raw[1] % 40>>
           rest == Subidentifiers(Tail(raw))
<1>1. raw \in Seq(Byte) /\ Ends(raw)
  BY TrapNameRead
<1> HIDE DEF raw
<1>2. raw # << >> /\ ~Truncated(raw)
  <2>1. raw[Len(raw)] \in Nat
    <3>1. Len(raw) \in 1..Len(raw)
      BY <1>1, EmptySeq, LenProperties DEF Ends
    <3>2. QED
      BY <1>1, <3>1, ElementOfSeq, ByteNat
  <2>2. QED
    BY <1>1, <2>1 DEF Truncated, Ends, Last
<1>3. NameOfAnswer(raw) = two \o rest
  BY <1>2, Zenon DEF NameOfAnswer
<1>4. two \o rest # << >>
  <2>1. raw[1] \in Nat
    <3>1. 1 \in 1..Len(raw)
      BY <1>1, <1>2, EmptySeq
    <3>2. QED
      BY <1>1, <3>1, ElementOfSeq, ByteNat
  <2>2. two \in Seq(Nat) /\ two # << >>
    BY <2>1
  <2>3. rest \in Seq(Nat)
    <3>1. Tail(raw) \in Seq(Byte)
      BY <1>1, <1>2, HeadTailProperties
    <3>2. PICK t : Turns(Tail(raw), Whole(<< >>), t) /\ t.done \in Seq(Nat)
      BY <3>1, TurnsSome
    <3>3. QED
      BY <3>1, <3>2, Widened, TurnsEnd
  <2> HIDE DEF two, rest
  <2>4. QED
    BY <2>2, <2>3, ConcatEqualIffEmpty
<1>5. ASSUME Plain(arcs) PROVE two \o rest = arcs
  <2> DEFINE r == Roots(arcs)
             b == Beyond(arcs)
             y == Arcs128(b)
  <2>1. /\ r \in Nat /\ arcs[1] \in Nat /\ arcs[2] \in Nat /\ r = arcs[1] * 40 + arcs[2]
        /\ b \in Seq(Nat) /\ <<arcs[1], arcs[2]>> \o b = arcs
    BY OidParts
  <2>2. r < 120
    BY <1>5 DEF Plain
  <2>3. raw = <<r>> \o y
    BY <2>1, <2>2, RequestNameIs DEF raw
  <2>4. /\ Turns(y, Whole(<< >>), Whole(<< >> \o b)) /\ y \in Seq(Byte) /\ << >> \o b = b
    <3>1. << >> \in Seq(Nat)
      BY EmptySeq
    <3> HIDE DEF b
    <3>2. QED
      BY <2>1, <3>1, ArcsTurn, ConcatEmptySeq
  <2> HIDE DEF r, b, y
  <2>5. raw[1] = r /\ Tail(raw) = y
    BY <2>1, <2>3, <2>4, ConsTail
  <2>6. rest = b
    <3>1. Subidentifiers(y) = Whole(<< >> \o b).done
      BY <2>4, Widened, TurnsEnd
    <3>2. QED
      BY <2>4, <2>5, <3>1 DEF Whole
  <2>7. r \div 40 = arcs[1] /\ r % 40 = arcs[2]
    <3>1. arcs[1] <= 2 /\ (arcs[1] < 2 => arcs[2] <= 39)
      BY DEF Oid
    <3>2. arcs[2] < 40
      BY <2>1, <2>2, <3>1
    <3>3. QED
      BY <2>1, <3>2, Forties
  <2>8. two = <<arcs[1], arcs[2]>>
    BY <2>5, <2>7
  <2>9. QED
    BY <2>1, <2>6, <2>8
<1>6. QED
  BY <1>3, <1>4, <1>5 DEF raw

-----------------------------------------------------------------------------
(* Requests and answers as they are read                                    *)

\* No part is longer than the whole.
LEMMA PartShorter ==
  ASSUME NEW A, NEW seqs \in Seq(Seq(A)), NEW i \in 1..Len(seqs)
  PROVE  /\ Len(seqs[i]) <= Len(FlattenSeq(seqs))
         /\ Len(seqs[i]) \in Nat /\ FlattenSeq(seqs) \in Seq(A)
<1> DEFINE N == Len(seqs)
<1>0. N \in Nat /\ i \in Nat /\ seqs[i] \in Seq(A)
  BY LenProperties, ElementOfSeq
<1>1. PICK f : /\ Covers(seqs, f) /\ FlattenSeq(seqs) = f[N]
               /\ \A j \in 0..N : f[j] \in Seq(A)
  BY FlattenRuns
<1>2. Len(seqs[i]) \in Nat
  BY <1>0, LenProperties
<1> HIDE DEF N
<1>3. ASSUME NEW j \in 1..N
      PROVE  /\ Len(f[j]) = Len(f[j - 1]) + Len(seqs[j])
             /\ Len(f[j - 1]) \in Nat /\ Len(seqs[j]) \in Nat
  <2>1. f[j] = f[j - 1] \o seqs[j]
    BY <1>1 DEF Covers, N
  <2>2. f[j - 1] \in Seq(A) /\ seqs[j] \in Seq(A)
    BY <1>0, <1>1, ElementOfSeq DEF N
  <2>3. QED
    BY <2>1, <2>2, Joined
<1> DEFINE g(j) == Len(f[j])
           m(j) == Len(seqs[j])
           Grown == {n \in Nat : i + n <= N => m(i) <= g(i + n)}
<1>4. ASSUME NEW j \in 1..N PROVE g(j) = g(j - 1) + m(j) /\ g(j - 1) \in Nat /\ m(j) \in Nat
  BY <1>3
<1>5. m(i) \in Nat /\ i \in 1..N
  BY <1>2 DEF N
<1> HIDE DEF g, m
<1>6. 0 \in Grown
  <2>1. g(i) = g(i - 1) + m(i) /\ g(i - 1) \in Nat
    BY <1>4, <1>5
  <2>2. m(i) <= g(i)
    BY <1>5, <2>1
  <2>3. i + 0 = i
    BY <1>0
  <2>4. QED
    BY <2>2, <2>3
<1>7. ASSUME NEW n \in Nat, n \in Grown PROVE n + 1 \in Grown
  <2> DEFINE k == i + (n + 1)
             j == i + n
  <2> SUFFICES ASSUME k <= N PROVE m(i) <= g(k)
    OBVIOUS
  <2>1. j <= N /\ k \in 1..N /\ k - 1 = j
    BY <1>0
  <2>2. m(i) <= g(j)
    BY <1>7, <2>1
  <2> HIDE DEF j, k
  <2>3. g(k) = g(j) + m(k) /\ g(j) \in Nat /\ m(k) \in Nat
    BY <1>4, <2>1
  <2>4. QED
    BY <1>5, <2>2, <2>3
<1> HIDE DEF Grown
<1>11. \A n \in Nat : n \in Grown
  BY <1>6, <1>7, Induct
<1>12. N - i \in Nat /\ i + (N - i) = N
  BY <1>0, <1>5
<1>8. Len(seqs[i]) <= Len(f[N])
  <2> DEFINE k == N - i
  <2>1. k \in Grown /\ k \in Nat /\ i + k = N /\ i + k <= N
    BY <1>11, <1>12, <1>0 DEF N
  <2> HIDE DEF k
  <2>2. m(i) <= g(i + k)
    BY <2>1 DEF Grown
  <2>3. m(i) <= g(N)
    BY <2>1, <2>2
  <2>4. QED
    BY <2>3 DEF m, g
<1>9. f[N] \in Seq(A)
  BY <1>0, <1>1
<1>10. QED
  BY <1>1, <1>2, <1>8, <1>9

\* The PDU of a request and of an answer.
Pdu4(a, b, c, list) == ((Tlv(2, a) \o Tlv(2, b)) \o Tlv(2, c)) \o Tlv(48, list)
Fields4(a, b, c, list) == <<Item(2, a), Item(2, b), Item(2, c), Item(48, list)>>

\* The PDU tells its four fields.
LEMMA FourTold ==
  ASSUME NEW na \in Fit, NEW nb \in Fit, NEW nc \in Fit, NEW list \in Fit
  PROVE  Told(Pdu4(na, nb, nc, list), Fields4(na, nb, nc, list))
<1> DEFINE a == Item(2, na)
           b == Item(2, nb)
           c == Item(2, nc)
           d == Item(48, list)
<1>1. a \in FitItem /\ b \in FitItem /\ c \in FitItem /\ d \in FitItem
  BY TagBytes DEF Item, FitItem
<1>2. Told(Tlv(2, na), <<a>>)
  BY TagBytes, ToldOne
<1>3. /\ Extended(<<a>>, b, <<a, b>>) /\ Extended(<<a, b>>, c, <<a, b, c>>)
      /\ Extended(<<a, b, c>>, d, <<a, b, c, d>>)
  <2> HIDE DEF a, b, c, d
  <2>1. QED
    BY <1>1, Lists, LongLists
<1> DEFINE x1 == Tlv(2, na)
           x2 == x1 \o Tlv(2, nb)
           x3 == x2 \o Tlv(2, nc)
           x4 == x3 \o Tlv(48, list)
<1>4. Told(x2, <<a, b>>)
  BY <1>2, <1>3, TagBytes, ToldNext
<1> HIDE DEF x1, x2
<1>5. Told(x3, <<a, b, c>>)
  BY <1>3, <1>4, TagBytes, ToldNext
<1> HIDE DEF x3
<1>6. Told(x4, <<a, b, c, d>>)
  BY <1>3, <1>5, TagBytes, ToldNext
<1>7. QED
  BY <1>6 DEF Pdu4, Fields4, x1, x2, x3

FourSeen(pdu, a, b, c, list) ==
    /\ pdu \in Seq(ElementSet) /\ Len(pdu) = 4
    /\ pdu[1].tag = 2 /\ pdu[1].value = a /\ pdu[2].tag = 2 /\ pdu[2].value = b
    /\ pdu[3].tag = 2 /\ pdu[3].value = c /\ pdu[4].tag = 48 /\ pdu[4].value = list
    /\ Len(list) <= Datagram

\* The PDU is read as it was built.
LEMMA FourRead ==
  ASSUME NEW na \in Fit, NEW nb \in Fit, NEW nc \in Fit, NEW list \in Fit,
         Len(Pdu4(na, nb, nc, list)) <= Datagram, NEW most \in Widths
  PROVE  FourSeen(Elements(Pdu4(na, nb, nc, list), 1, most), na, nb, nc, list)
<1> DEFINE p == Pdu4(na, nb, nc, list)
           items == Fields4(na, nb, nc, list)
           pdu == Elements(p, 1, most)
           front == (Tlv(2, na) \o Tlv(2, nb)) \o Tlv(2, nc)
           last == Tlv(48, list)
<1>1. Told(p, items)
  BY FourTold
<1>2. Reads(p, items)
  BY <1>1 DEF Told
<1>3. /\ Len(items) = 4 /\ items[1] = Item(2, na) /\ items[2] = Item(2, nb)
      /\ items[3] = Item(2, nc) /\ items[4] = Item(48, list)
  BY DEF Fields4
<1>4. Len(list) <= Datagram
  <2>1. front \in Fit /\ last \in Fit
    BY TagBytes, TlvFits, BothFit
  <2>2. p = front \o last
    BY DEF Pdu4
  <2>3. Len(list) \in Nat /\ Len(last) \in Nat /\ Len(list) + 2 <= Len(last)
    BY TagBytes, TlvLonger
  <2>a. Len(p) <= Datagram
    OBVIOUS
  <2> HIDE DEF front, last, p
  <2>4. front \in Seq(Nat) /\ last \in Seq(Nat)
    BY <2>1 DEF Fit
  <2>5. Len(p) = Len(front) + Len(last) /\ Len(front) \in Nat
    BY <2>2, <2>4, Joined
  <2>6. QED
    BY <2>3, <2>5, <2>a DEF Datagram
<1> HIDE DEF p, items
<1>5. Like(pdu, items, Len(p) + 1)
  BY <1>2, ReadsAll
<1> HIDE DEF pdu
<1>6. /\ pdu \in Seq(ElementSet) /\ Len(pdu) = 4
      /\ \A i \in 1..4 : HasItem(pdu[i], items[i])
  BY <1>3, <1>5 DEF Like
<1>7. /\ HasItem(pdu[1], items[1]) /\ HasItem(pdu[2], items[2])
      /\ HasItem(pdu[3], items[3]) /\ HasItem(pdu[4], items[4])
  BY <1>6
<1>8. FourSeen(pdu, na, nb, nc, list)
  BY <1>3, <1>4, <1>6, <1>7 DEF HasItem, Item, FourSeen
<1>9. QED
  BY <1>8 DEF pdu, p

\* The elements of a list of varbinds whose contents are parts.
ListSeen(binds, parts) ==
    /\ binds \in Seq(ElementSet) /\ Len(binds) = Len(parts) /\ Len(parts) \in Nat
    /\ \A i \in 1..Len(parts) :
          binds[i].tag = 48 /\ binds[i].value = parts[i] /\ Len(parts[i]) <= Datagram

\* A list of varbinds is read as it was built.
LEMMA ListRead ==
  ASSUME NEW parts \in Seq(Fit), NEW xs \in Seq(Fit), Len(xs) = Len(parts),
         \A i \in 1..Len(parts) : xs[i] = Tlv(48, parts[i]),
         Len(FlattenSeq(xs)) <= Datagram, NEW most \in Widths
  PROVE  ListSeen(Elements(FlattenSeq(xs), 1, most), parts)
<1> DEFINE N == Len(parts)
           list == FlattenSeq(xs)
           items == [i \in 1..N |-> Item(48, parts[i])]
           binds == Elements(list, 1, most)
<1>1. N \in Nat /\ \A i \in 1..N : parts[i] \in Fit
  BY LenProperties, ElementOfSeq
<1>2. /\ items \in Seq(FitItem) /\ Len(items) = N
      /\ \A i \in 1..N : items[i] = Item(48, parts[i])
  <2>1. \A i \in 1..N : Item(48, parts[i]) \in FitItem
    BY <1>1, TagBytes DEF Item, FitItem
  <2> HIDE DEF N
  <2>2. QED
    BY <1>1, <2>1
<1> HIDE DEF items
<1>3. \A i \in 1..Len(items) : Told(xs[i], <<items[i]>>)
  BY <1>1, <1>2, TagBytes, ToldOne
<1>4. Told(list, items)
  BY <1>2, <1>3, ToldFlat
<1>5. Len(list) <= Datagram
  OBVIOUS
<1> HIDE DEF list
<1>6. Like(binds, items, Len(list) + 1)
  BY <1>4, <1>5, ReadsAll DEF Told
<1> HIDE DEF binds
<1>7. /\ binds \in Seq(ElementSet) /\ Len(binds) = N
      /\ \A i \in 1..N : HasItem(binds[i], items[i])
  BY <1>2, <1>6 DEF Like
<1>8. ASSUME NEW i \in 1..N PROVE Len(parts[i]) <= Datagram
  <2>1. xs \in Seq(Seq(Nat)) /\ i \in 1..Len(xs)
    <3>1. Fit \subseteq Seq(Nat)
      BY DEF Fit
    <3>2. QED
      BY <3>1, SeqMonotonic
  <2>2. Len(xs[i]) <= Len(list) /\ Len(xs[i]) \in Nat /\ list \in Seq(Nat)
    BY <2>1, PartShorter DEF list
  <2>3. Len(parts[i]) \in Nat /\ Len(parts[i]) + 2 <= Len(xs[i])
    BY <1>1, TagBytes, TlvLonger
  <2>4. Len(list) \in Nat
    BY <2>2, LenProperties
  <2>5. QED
    BY <1>5, <2>2, <2>3, <2>4 DEF Datagram
<1>9. ASSUME NEW i \in 1..N PROVE binds[i].tag = 48 /\ binds[i].value = parts[i]
  <2>1. HasItem(binds[i], items[i]) /\ items[i] = Item(48, parts[i])
    BY <1>2, <1>7
  <2>2. QED
    BY <2>1 DEF HasItem, Item
<1>10. ListSeen(binds, parts)
  BY <1>1, <1>7, <1>8, <1>9 DEF ListSeen
<1>11. QED
  BY <1>10 DEF binds, list

\* The parts of a message, wherever it is read.
MessageOpen(data, community, tag, pdu, most) ==
    LET body == ReadTlv(data, 1, most).value
        msg == Elements(body, 1, most)
        top == Elements(data, 1, most) IN
    /\ top \in Seq(ElementSet) /\ Len(top) = 1 /\ top[1].tag = 48 /\ top[1].value = body
    /\ msg \in Seq(ElementSet) /\ Len(msg) = 3 /\ msg[2].value = community
    /\ msg[3].tag = tag /\ msg[3].value = pdu
    /\ Len(pdu) <= Datagram

\* A message is read at either end as it was built.
LEMMA MessageOpened ==
  ASSUME NEW version \in Byte, NEW community \in Seq(Byte), NEW tag \in Byte, NEW pdu \in Fit,
         Len(Message(version, community, tag, pdu)) <= Datagram, NEW most \in Widths
  PROVE  MessageOpen(Message(version, community, tag, pdu), community, tag, pdu, most)
<1> DEFINE data == Message(version, community, tag, pdu)
           body == MessageBody(version, community, tag, pdu)
           parts == MessageParts(version, community, tag, pdu)
           top == Elements(data, 1, most)
           msg == Elements(body, 1, most)
           e == Len(data) + 1
<1>1. MessageSeen(data, body, parts, pdu, most)
  BY MessageRead
<1>2. /\ Len(parts) = 3 /\ parts[2] = Item(4, community) /\ parts[3] = Item(tag, pdu)
  BY DEF MessageParts
<1> HIDE DEF data, body, parts
<1>3. /\ ReadTlv(data, 1, most) = Element(48, body, e)
      /\ Like(msg, parts, Len(body) + 1) /\ Like(top, <<Item(48, body)>>, e)
      /\ Len(pdu) <= Datagram
  BY <1>1 DEF MessageSeen
<1> HIDE DEF e, msg, top
<1>4. ReadTlv(data, 1, most).value = body
  BY <1>3 DEF Element
<1>5. top \in Seq(ElementSet) /\ Len(top) = 1 /\ top[1].tag = 48 /\ top[1].value = body
  <2> DEFINE one == <<Item(48, body)>>
  <2>1. Len(one) = 1 /\ one[1] = Item(48, body)
    OBVIOUS
  <2> HIDE DEF one
  <2>2. Like(top, one, e)
    BY <1>3 DEF one
  <2>3. top \in Seq(ElementSet) /\ Len(top) = 1 /\ HasItem(top[1], one[1])
    BY <2>1, <2>2 DEF Like
  <2>4. QED
    BY <2>1, <2>3 DEF HasItem, Item
<1>6. /\ msg \in Seq(ElementSet) /\ Len(msg) = 3 /\ msg[2].value = community
      /\ msg[3].tag = tag /\ msg[3].value = pdu
  <2>1. msg \in Seq(ElementSet) /\ Len(msg) = 3 /\ \A i \in 1..3 : HasItem(msg[i], parts[i])
    BY <1>2, <1>3 DEF Like
  <2>2. HasItem(msg[2], parts[2]) /\ HasItem(msg[3], parts[3])
    BY <2>1
  <2>3. QED
    BY <1>2, <2>1, <2>2 DEF HasItem, Item
<1>7. MessageOpen(data, community, tag, pdu, most)
  BY <1>3, <1>4, <1>5, <1>6 DEF MessageOpen, top, msg
<1>8. QED
  BY <1>7 DEF data

-----------------------------------------------------------------------------
(* Requests                                                                *)

\* Zero is one octet.
LEMMA ZeroIs == Octets(0) = << 0 >>
<1>1. Digits(0, 256) = IF 0 < 256 THEN <<0>> ELSE Append(Digits(0 \div 256, 256), 0 % 256)
  <2>1. 256 \in Nat /\ 256 \in {128, 256} /\ 0 \in Nat
    OBVIOUS
  <2>2. QED
    BY <2>1, DigitsIs
<1>2. 0 < 256
  OBVIOUS
<1>3. Digits(0, 256) = <<0>>
  BY <1>1, <1>2
<1>4. QED
  BY <1>3 DEF Octets

\* The value of a request is empty.
LEMMA NullIs == <<5, 0>> = Tlv(5, << >>) /\ 5 \in Byte
<1> DEFINE x == <<5>>
           y == <<0>>
           z == <<5, 0>>
<1>1. 5 \in Byte
  BY DEF Byte
<1>2. Length(Len(<< >>)) = y
  <2>1. Len(<< >>) = 0 /\ 0 < 128
    OBVIOUS
  <2>2. QED
    BY <2>1 DEF Length
<1>3. /\ x \in Seq(Nat) /\ y \in Seq(Nat) /\ z \in Seq(Nat)
      /\ Len(x) = 1 /\ Len(y) = 1 /\ Len(z) = 2
      /\ x[1] = 5 /\ y[1] = 0 /\ z[1] = 5 /\ z[2] = 0
  OBVIOUS
<1> HIDE DEF x, y, z
<1>4. /\ x \o y \in Seq(Nat) /\ Len(x \o y) = Len(x) + Len(y)
      /\ \A i \in 1..Len(x) : (x \o y)[i] = x[i]
      /\ \A i \in 1..Len(y) : (x \o y)[Len(x) + i] = y[i]
  <2>1. x \in Seq(Nat) /\ y \in Seq(Nat)
    BY <1>3
  <2>2. QED
    BY <2>1, Joined
<1>5. x \o y = z
  <2> DEFINE s == x \o y
  <2>1. s \in Seq(Nat) /\ Len(s) = 2 /\ s[1] = 5 /\ s[2] = 0
    BY <1>3, <1>4
  <2> HIDE DEF s
  <2>2. \A i \in 1..2 : i = 1 \/ i = 2
    OBVIOUS
  <2>3. s \in Seq(Nat) /\ z \in Seq(Nat) /\ Len(s) = Len(z) /\ \A i \in 1..Len(z) : s[i] = z[i]
    BY <1>3, <2>1, <2>2
  <2>4. s = z
    BY <2>3, SeqEqual
  <2>5. QED
    BY <2>4 DEF s
<1>6. (x \o y) \o << >> = x \o y
  <2>1. x \o y \in Seq(Nat)
    BY <1>4
  <2>2. QED
    BY <2>1, ConcatEmptySeq
<1>7. QED
  BY <1>1, <1>2, <1>5, <1>6 DEF Tlv, x, z

\* The PDU of a request.
AskBind(arcs) == Tlv(6, RequestName(arcs)) \o <<5, 0>>
AskBinds(r) == FlattenSeq([i \in DOMAIN r.names |-> Tlv(48, AskBind(r.names[i]))])
AskPdu(r) == Pdu4(Octets(r.id), <<0>>, Octets(r.repetitions), AskBinds(r))

\* A request is a message.
LEMMA RequestIs ==
  ASSUME NEW r \in Requests
  PROVE  Request(r) = Message(1, CommunitySent(r.community), r.tag, AskPdu(r))
<1> DEFINE x == Tlv(2, Octets(r.id))
           y == Tlv(2, <<0>>)
           z == Tlv(2, Octets(r.repetitions))
<1>1. r.id \in Nat /\ r.repetitions \in Nat /\ (r.tag # 165 => r.repetitions = 0)
  BY RequestTypes DEF Requests
<1>2. (IF r.tag = 165 THEN Tlv(2, Octets(0)) \o Tlv(2, Octets(r.repetitions))
       ELSE Tlv(2, <<0>>) \o Tlv(2, <<0>>)) = y \o z
  BY <1>1, ZeroIs
<1>3. x \o (y \o z) = (x \o y) \o z
  <2>1. x \in Fit /\ y \in Fit /\ z \in Fit
    BY <1>1, OctetsFit, OneFits, TagBytes, TlvFits
  <2>2. x \in Seq(Nat) /\ y \in Seq(Nat) /\ z \in Seq(Nat)
    BY <2>1 DEF Fit
  <2> HIDE DEF x, y, z
  <2>3. QED
    BY <2>2, ConcatAssociative, SMTT(40)
<1>4. QED
  BY <1>2, <1>3 DEF Request, AskPdu, Pdu4, AskBinds, AskBind

\* The name in one varbind of a request is read.
LEMMA AskBindRead ==
  ASSUME NEW arcs \in Seq(Nat), Askable(arcs), Named(arcs), Roots(arcs) < 128,
         Len(AskBind(arcs)) <= Datagram
  PROVE  NameOfTrap(ReadTlv(AskBind(arcs), 1, 3).value) = arcs
<1> DEFINE name == TrapName(arcs)
           x == Tlv(6, name)
           y == Tlv(5, << >>)
           e == Element(6, name, Len(x) + 1)
<1>1. Oid(arcs) /\ RequestName(arcs) = name
  BY AskedOid, RequestNameIs
<1>2. NameOfTrap(name) = arcs /\ name \in Seq(Byte)
  BY <1>1, TrapNameRead
<1>3. AskBind(arcs) = x \o y
  BY <1>1, NullIs DEF AskBind
<1>4. name \in Fit /\ << >> \in Fit
  BY <1>2, BytesFit, NothingFits
<1>5. x \in Fit /\ y \in Fit
  BY <1>4, NullIs, TagBytes, TlvFits
<1>6. Len(name) \in Nat /\ Len(x) \in Nat /\ Len(name) + 2 <= Len(x)
  BY <1>4, TagBytes, TlvLonger
<1> HIDE DEF name, y
<1>7. Len(x \o y) = Len(x) + Len(y) /\ Len(y) \in Nat /\ Len(x \o y) <= Datagram
  <2>1. x \in Seq(Nat) /\ y \in Seq(Nat)
    BY <1>5 DEF Fit
  <2> HIDE DEF x
  <2>2. QED
    BY <1>3, <2>1, Joined
<1>8. Len(name) <= Datagram /\ Len(x) <= Datagram /\ Len(y) <= Datagram
  BY <1>6, <1>7 DEF Datagram
<1>9. x \in Seq(Byte) /\ y \in Seq(Byte) /\ << >> \in Seq(Byte)
  BY <1>5, <1>8, EmptySeq DEF Fit
<1>10. ReadAs((<< >> \o x) \o y, Len(<< >>) + 1, 3, Element(6, name, Len(<< >>) + Len(x) + 1))
  BY <1>2, <1>8, <1>9, TagBytes, ReadOne
<1> HIDE DEF x
<1>11. << >> \o x = x /\ Len(<< >>) = 0
  BY <1>9, ConcatEmptySeq, EmptySeq
<1>12. ReadTlv(x \o y, 1, 3) = e
  BY <1>6, <1>10, <1>11 DEF ReadAs
<1>13. e.value = name
  BY DEF Element
<1> HIDE DEF e
<1>14. QED
  BY <1>2, <1>3, <1>12, <1>13

\* A request is read as it was built.
LEMMA RequestSeen ==
  ASSUME NEW r \in Requests, AllAskable(r), Len(Request(r)) <= Datagram,
         \A i \in DOMAIN r.names : Named(r.names[i]) /\ Roots(r.names[i]) < 128
  PROVE  RequestAsRead(Request(r)) = [r EXCEPT !.community = CommunitySent(r.community)]
<1> DEFINE data == Request(r)
           c == CommunitySent(r.community)
           names == r.names
           N == Len(names)
           parts == [i \in 1..N |-> AskBind(names[i])]
           xs == [i \in DOMAIN names |-> Tlv(48, AskBind(names[i]))]
           list == AskBinds(r)
           pdu == AskPdu(r)
           msg == Elements(ReadTlv(data, 1, 3).value, 1, 3)
           fields == Elements(pdu, 1, 3)
           binds == Elements(list, 1, 3)
<1>1. /\ r.tag \in {160, 161, 165} /\ names \in Seq(Seq(Nat))
      /\ r.id \in Nat /\ r.repetitions \in Nat /\ c \in Seq(Byte)
  BY RequestTypes
<1>2. N \in Nat /\ DOMAIN names = 1..N /\ \A i \in 1..N : names[i] \in Seq(Nat)
  BY <1>1, LenProperties, ElementOfSeq
<1>3. \A i \in 1..N : AskBind(names[i]) \in Fit
  <2> TAKE i \in 1..N
  <2>1. RequestName(names[i]) \in Fit
    BY <1>2, RequestNameFits DEF AllAskable
  <2>2. <<5, 0>> \in Fit
    BY NullIs, NothingFits, TlvFits
  <2>3. QED
    BY <2>1, <2>2, TagBytes, TlvFits, BothFit DEF AskBind
<1>4. /\ parts \in Seq(Fit) /\ Len(parts) = N /\ \A i \in 1..N : parts[i] = AskBind(names[i])
  <2> HIDE DEF names, N
  <2>1. QED
    BY <1>2, <1>3
<1>5. /\ xs \in Seq(Fit) /\ Len(xs) = N /\ \A i \in 1..N : xs[i] = Tlv(48, AskBind(names[i]))
  <2>1. \A i \in 1..N : Tlv(48, AskBind(names[i])) \in Fit
    BY <1>3, TagBytes, TlvFits
  <2> HIDE DEF names, N
  <2>2. QED
    BY <1>2, <2>1
<1>6. list = FlattenSeq(xs) /\ list \in Fit
  <2>1. list = FlattenSeq(xs)
    BY DEF AskBinds
  <2> HIDE DEF xs, list
  <2>2. QED
    BY <1>5, <2>1, FlattenFits
<1>7. data = Message(1, c, r.tag, pdu)
  BY RequestIs
<1>8. /\ Octets(r.id) \in Fit /\ <<0>> \in Fit /\ Octets(r.repetitions) \in Fit
      /\ Signed(Octets(r.id)) = r.id /\ Signed(Octets(r.repetitions)) = r.repetitions
  BY <1>1, OctetsFit, OctetsRead, OneFits, TagBytes
<1>9. pdu = Pdu4(Octets(r.id), <<0>>, Octets(r.repetitions), list)
  BY DEF AskPdu
<1>10. pdu \in Fit
  <2> HIDE DEF list
  <2>1. Told(Pdu4(Octets(r.id), <<0>>, Octets(r.repetitions), list),
             Fields4(Octets(r.id), <<0>>, Octets(r.repetitions), list))
    BY <1>6, <1>8, FourTold
  <2>2. QED
    BY <1>9, <2>1 DEF Told
<1>11. 1 \in Byte /\ r.tag \in Byte /\ 3 \in Widths
  BY <1>1, TagBytes DEF Byte
<1>12. Len(data) <= Datagram
  OBVIOUS
<1> HIDE DEF c, data, names, N, parts, xs, list, pdu
<1>13. MessageOpen(data, c, r.tag, pdu, 3)
  BY <1>1, <1>7, <1>10, <1>11, <1>12, MessageOpened
<1>14. /\ msg[2].value = c /\ msg[3].tag = r.tag /\ msg[3].value = pdu
       /\ Len(pdu) <= Datagram
  BY <1>13 DEF MessageOpen
<1> HIDE DEF msg
<1>15. FourSeen(fields, Octets(r.id), <<0>>, Octets(r.repetitions), list)
  BY <1>6, <1>8, <1>9, <1>11, <1>14, FourRead
<1> HIDE DEF fields
<1>16. /\ fields[1].value = Octets(r.id) /\ fields[3].value = Octets(r.repetitions)
       /\ fields[4].value = list /\ Len(list) <= Datagram
  BY <1>15 DEF FourSeen
<1>17. ListSeen(binds, parts)
  <2>1. \A i \in 1..Len(parts) : xs[i] = Tlv(48, parts[i])
    BY <1>4, <1>5
  <2>2. QED
    BY <1>4, <1>5, <1>6, <1>11, <1>16, <2>1, ListRead
<1> HIDE DEF binds
<1>18. NamesAsRead(binds) = names
  <2>1. binds \in Seq(ElementSet) /\ Len(binds) = N
    BY <1>4, <1>17 DEF ListSeen
  <2>2. DOMAIN binds = 1..N
    BY <2>1, LenProperties
  <2>3. ASSUME NEW i \in 1..N
        PROVE  NameOfTrap(ReadTlv(binds[i].value, 1, 3).value) = names[i]
    <3>1. binds[i].value = AskBind(names[i]) /\ Len(AskBind(names[i])) <= Datagram
      BY <1>4, <1>17 DEF ListSeen
    <3>2. Askable(names[i]) /\ Named(names[i]) /\ Roots(names[i]) < 128 /\ names[i] \in Seq(Nat)
      BY <1>2 DEF AllAskable, names
    <3>3. QED
      BY <3>1, <3>2, AskBindRead
  <2>4. names = [i \in 1..N |-> names[i]]
    BY <1>1, <1>2
  <2>5. QED
    BY <2>2, <2>3, <2>4 DEF NamesAsRead
<1>19. RequestAsRead(data) = [tag |-> r.tag, community |-> c, id |-> r.id,
                              repetitions |-> r.repetitions, names |-> names]
  <2>1. MessageAsRead(msg) = FieldsAsRead(msg, fields)
    BY <1>14 DEF MessageAsRead, fields
  <2>2. FieldsAsRead(msg, fields) =
           [tag |-> r.tag, community |-> c, id |-> r.id,
            repetitions |-> r.repetitions, names |-> names]
    BY <1>8, <1>14, <1>16, <1>18 DEF FieldsAsRead, binds
  <2>3. QED
    BY <2>1, <2>2 DEF RequestAsRead, msg
<1>20. [r EXCEPT !.community = c] = [tag |-> r.tag, community |-> c, id |-> r.id,
                                     repetitions |-> r.repetitions, names |-> names]
  BY DEF Requests, names
<1>21. QED
  BY <1>19, <1>20 DEF data, c

\* Requests are understood.
LEMMA RequestRead == CarriedInv => RequestUnderstood
<1> SUFFICES ASSUME CarriedInv, ~IsTrap, hop = "sent",
                    \A i \in DOMAIN sent.request.names :
                       Named(sent.request.names[i]) /\ Roots(sent.request.names[i]) < 128
             PROVE  RequestAsRead(packet)
                       = [sent.request EXCEPT
                             !.community = CommunitySent(sent.request.community)]
  BY DEF RequestUnderstood, CommunitySent
<1> DEFINE r == sent.request
<1>1. r \in Requests /\ Asked
  BY SentIs DEF CarriedInv, Carried, CodecInv
<1>2. AllAskable(r) /\ packet = Request(r) /\ Len(Request(r)) <= Datagram
  BY <1>1 DEF Asked, Carries
<1>3. \A i \in DOMAIN r.names : Named(r.names[i]) /\ Roots(r.names[i]) < 128
  OBVIOUS
<1> HIDE DEF r
<1>4. RequestAsRead(Request(r)) = [r EXCEPT !.community = CommunitySent(r.community)]
  BY <1>1, <1>2, <1>3, RequestSeen
<1>5. QED
  BY <1>2, <1>4 DEF r

-----------------------------------------------------------------------------
(* Numbers of either sign, and texts                                        *)

\* The complement of octets is read as the complement of their number.
LEMMA NegativeRead ==
  ASSUME NEW n \in Nat, NEW c \in Seq(Byte), Len(c) = Len(Octets(n)),
         \A i \in 1..Len(c) : c[i] = 255 - Octets(n)[i]
  PROVE  c # << >> /\ Signed(c) = -1 - n
<1> DEFINE d == Octets(n)
<1>1. d \in Seq(Byte) /\ d # << >> /\ d[1] < 128 /\ d[1] \in Nat /\ From(0, d) = n
  BY OctetsType, OctetsRead
<1>2. d \in Seq(Int) /\ c \in Seq(Int)
  BY <1>1, Widened
<1>3. Len(c) = Len(d) /\ \A i \in 1..Len(d) : c[i] = 255 - d[i]
  OBVIOUS
<1> HIDE DEF d
<1>4. Len(d) \in Nat /\ Len(d) # 0 /\ 1 \in 1..Len(d)
  BY <1>1, LenProperties, EmptySeq
<1>5. From(-1 - 0, c) = -1 - From(0, d)
  <2>1. 0 \in Int
    OBVIOUS
  <2>2. QED
    BY <1>2, <1>3, <2>1, ComplementRead
<1>6. -1 - 0 = -1
  OBVIOUS
<1>7. c # << >>
  BY <1>3, <1>4
<1>8. c[1] >= 128
  BY <1>1, <1>3, <1>4
<1>9. Signed(c) = From(-1, c)
  BY <1>7, <1>8 DEF Signed
<1>10. QED
  BY <1>1, <1>5, <1>6, <1>7, <1>9

\* Lengths of numbers.
LEMMA OneToEight == \A n \in Nat : n # 0 /\ n <= 8 => n \in 1..8
  OBVIOUS

\* What a value is sent as, and what is read of it.
RawSeen(v, raw) ==
    /\ raw \in Seq(Byte) /\ v.tag \in Byte /\ (v.tag \div 32) % 2 = 0
    /\ v.tag \notin IntegerTags => raw = v.text
    /\ v.tag \in IntegerTags =>
          /\ Len(raw) \in 1..8
          /\ v.tag = 2 => Signed(raw) = v.int
          /\ v.tag # 2 => Unsigned(raw) = v.int

\* A value is sent as octets it is read of.
LEMMA RawRead ==
  ASSUME NEW v, Answerable(v)
  PROVE  RawSeen(v, Raw(v))
<1> DEFINE raw == Raw(v)
<1>1. /\ v.tag \in Byte /\ v.int \in Int /\ v.text \in Seq(Byte)
  BY DEF Answerable
<1>2. (v.tag \div 32) % 2 = 0
  BY DEF Answerable
<1>7. v.tag \in IntegerTags => Len(raw) <= 8 /\ (v.tag # 2 => v.int >= 0)
  BY DEF Answerable
<1>3. CASE v.tag \notin IntegerTags
  <2>1. raw = v.text
    BY <1>3 DEF Raw
  <2>2. QED
    BY <1>1, <1>2, <1>3, <2>1 DEF RawSeen
<1>4. CASE v.tag \in IntegerTags /\ v.int >= 0
  <2>1. raw = Octets(v.int)
    BY <1>4 DEF Raw
  <2>2. v.int \in Nat
    BY <1>1, <1>4
  <2>3. raw \in Seq(Byte) /\ raw # << >> /\ Unsigned(raw) = v.int /\ Signed(raw) = v.int
    BY <2>1, <2>2, OctetsType, OctetsRead
  <2> HIDE DEF raw
  <2>4. Len(raw) \in Nat /\ Len(raw) # 0
    BY <2>3, LenProperties, EmptySeq
  <2>5. Len(raw) \in 1..8
    BY <1>4, <1>7, <2>4, OneToEight
  <2>6. RawSeen(v, raw)
    BY <1>1, <1>2, <1>4, <2>3, <2>5 DEF RawSeen
  <2>7. QED
    BY <2>6 DEF raw
<1>5. CASE v.tag \in IntegerTags /\ ~(v.int >= 0)
  <2> DEFINE n == -v.int - 1
             d == Octets(n)
  <2>1. n \in Nat /\ -1 - n = v.int
    BY <1>1, <1>5
  <2>2. raw = [i \in DOMAIN d |-> 255 - d[i]]
    BY <1>5 DEF Raw
  <2>3. d \in Seq(Byte)
    BY <2>1, OctetsType
  <2> HIDE DEF n
  <2>4. raw \in Seq(Byte) /\ Len(raw) = Len(d) /\ \A i \in 1..Len(d) : raw[i] = 255 - d[i]
    <3> HIDE DEF raw, d
    <3>1. Len(d) \in Nat /\ DOMAIN d = 1..Len(d) /\ \A i \in 1..Len(d) : d[i] \in Byte
      BY <2>3, LenProperties, ElementOfSeq
    <3>2. \A i \in 1..Len(d) : 255 - d[i] \in Byte
      <4>1. \A k \in Byte : 255 - k \in Byte
        BY DEF Byte
      <4>2. QED
        BY <3>1, <4>1
    <3> DEFINE L == Len(d)
               e(i) == 255 - d[i]
    <3>3. raw = [i \in 1..L |-> e(i)] /\ \A i \in 1..L : e(i) \in Byte
      BY <2>2, <3>1, <3>2
    <3>4. L \in Nat
      BY <3>1
    <3> HIDE DEF e, L
    <3>5. raw \in Seq(Byte) /\ Len(raw) = L /\ \A i \in 1..L : raw[i] = e(i)
      BY <3>3, <3>4
    <3>6. QED
      BY <3>5 DEF e, L
  <2> HIDE DEF raw
  <2>5. raw # << >> /\ Signed(raw) = -1 - n
    BY <2>1, <2>4, NegativeRead DEF d
  <2>6. Len(raw) \in Nat /\ Len(raw) # 0
    BY <2>4, <2>5, LenProperties, EmptySeq
  <2>7. Len(raw) \in 1..8 /\ v.tag = 2
    BY <1>5, <1>7, <2>6, OneToEight
  <2>8. RawSeen(v, raw)
    BY <1>1, <1>2, <1>5, <2>1, <2>4, <2>5, <2>7 DEF RawSeen
  <2>9. QED
    BY <2>8 DEF raw
<1>6. QED
  BY <1>3, <1>4, <1>5

\* What an answer holds for each name.
AnswerBind(arcs, v) == Tlv(6, TrapName(arcs)) \o Tlv(v.tag, Raw(v))
AnswerBinds(r, values) ==
    FlattenSeq([i \in DOMAIN values |-> Tlv(48, AnswerBind(r.names[i], values[i]))])
AnswerPdu(r, status, values) ==
    Pdu4(Octets(r.id), <<status>>, <<0>>, AnswerBinds(r, values))

\* An answer is a message.
LEMMA ResponseIs ==
  ASSUME NEW r, NEW status, NEW values
  PROVE  Response(r, status, values) = Message(1, CommunitySent(r.community), 162, AnswerPdu(r, status, values))
  BY DEF Response, AnswerPdu, AnswerBinds, AnswerBind, Pdu4, Bind

\* The two elements of a varbind.
PairSeen(es, name, tag, raw) ==
    /\ es \in Seq(ElementSet) /\ Len(es) = 2
    /\ es[1].tag = 6 /\ es[1].value = name /\ es[2].tag = tag /\ es[2].value = raw

\* A varbind is read as a name and a value.
LEMMA PairRead ==
  ASSUME NEW name \in Fit, NEW tag \in Byte, NEW raw \in Fit,
         Len(Tlv(6, name) \o Tlv(tag, raw)) <= Datagram, NEW most \in Widths
  PROVE  /\ PairSeen(Elements(Tlv(6, name) \o Tlv(tag, raw), 1, most), name, tag, raw)
         /\ Reads(Tlv(6, name) \o Tlv(tag, raw), <<Item(6, name), Item(tag, raw)>>)
<1> DEFINE a == Item(6, name)
           b == Item(tag, raw)
           items == <<a, b>>
           x == Tlv(6, name) \o Tlv(tag, raw)
           es == Elements(x, 1, most)
<1>1. a \in FitItem /\ b \in FitItem
  BY TagBytes DEF Item, FitItem
<1>2. Told(Tlv(6, name), <<a>>)
  BY TagBytes, ToldOne
<1>3. Extended(<<a>>, b, items)
  <2> HIDE DEF a, b
  <2>1. QED
    BY <1>1, Lists
<1>4. Told(x, items)
  BY <1>2, <1>3, ToldNext
<1>5. Len(items) = 2 /\ items[1] = a /\ items[2] = b
  OBVIOUS
<1>6. Reads(x, items)
  BY <1>4 DEF Told
<1> HIDE DEF items, x
<1>7. Like(es, items, Len(x) + 1)
  BY <1>6, ReadsAll
<1> HIDE DEF es
<1>8. es \in Seq(ElementSet) /\ Len(es) = 2 /\ \A i \in 1..2 : HasItem(es[i], items[i])
  BY <1>5, <1>7 DEF Like
<1>9. HasItem(es[1], items[1]) /\ HasItem(es[2], items[2])
  BY <1>8
<1>10. PairSeen(es, name, tag, raw)
  BY <1>5, <1>8, <1>9 DEF HasItem, Item, PairSeen
<1>11. QED
  BY <1>6, <1>10 DEF es, x, items

\* The list of single things is those things.
LEMMA FlattenOnes ==
  ASSUME NEW A, NEW seqs \in Seq(Seq(A)), NEW g \in Seq(A), Len(seqs) = Len(g),
         \A i \in 1..Len(g) : seqs[i] = <<g[i]>>
  PROVE  FlattenSeq(seqs) = g
<1> DEFINE N == Len(g)
<1>0. N \in Nat /\ \A i \in 1..N : g[i] \in A
  BY LenProperties, ElementOfSeq
<1>1. PICK f : /\ Covers(seqs, f) /\ FlattenSeq(seqs) = f[N]
               /\ \A i \in 0..N : f[i] \in Seq(A)
  BY FlattenRuns
<1>2. f[0] = << >> /\ \A i \in 1..N : f[i] = f[i - 1] \o <<g[i]>>
  BY <1>1 DEF Covers
<1> HIDE DEF N
<1> DEFINE Part(n) == Len(f[n]) = n /\ \A i \in 1..n : f[n][i] = g[i]
           Ready == {n \in Nat : n <= N => Part(n)}
<1>3. 0 \in Ready
  BY <1>2
<1>4. ASSUME NEW n \in Nat, n \in Ready PROVE n + 1 \in Ready
  <2> SUFFICES ASSUME n + 1 <= N PROVE Part(n + 1)
    OBVIOUS
  <2> DEFINE s == f[n]
             y == <<g[n + 1]>>
             t == f[n + 1]
  <2>1. n + 1 \in 1..N /\ (n + 1) - 1 = n /\ n \in 0..N /\ n <= N
    BY <1>0
  <2>2. s \in Seq(A) /\ Len(s) = n /\ \A i \in 1..n : s[i] = g[i]
    BY <1>1, <1>4, <2>1
  <2>3. t = s \o y
    BY <1>2, <2>1
  <2>4. y \in Seq(A) /\ Len(y) = 1 /\ y[1] = g[n + 1]
    BY <1>0, <2>1
  <2>5. Part(n + 1) <=> Len(t) = n + 1 /\ \A i \in 1..(n + 1) : t[i] = g[i]
    OBVIOUS
  <2> HIDE DEF s, y, t, Part
  <2>6. /\ Len(t) = Len(s) + Len(y)
        /\ \A i \in 1..Len(s) : t[i] = s[i]
        /\ \A i \in 1..Len(y) : t[Len(s) + i] = y[i]
    <3>1. s \in Seq(A) /\ y \in Seq(A)
      BY <2>2, <2>4
    <3>2. QED
      BY <2>3, <3>1, Joined
  <2>7. ASSUME NEW i \in 1..(n + 1) PROVE t[i] = g[i]
    <3>1. i \in 1..n \/ i = n + 1
      OBVIOUS
    <3>2. QED
      BY <2>2, <2>4, <2>6, <3>1
  <2>8. QED
    BY <2>2, <2>4, <2>5, <2>6, <2>7
<1> HIDE DEF Ready
<1>5. \A n \in Nat : n \in Ready
  BY <1>3, <1>4, Induct
<1>6. Len(f[N]) = N /\ \A i \in 1..N : f[N][i] = g[i]
  BY <1>0, <1>5 DEF Ready, Part
<1>7. f[N] \in Seq(A)
  BY <1>0, <1>1
<1> DEFINE s == f[N]
<1>8. s \in Seq(A) /\ Len(s) = Len(g) /\ \A i \in 1..Len(g) : s[i] = g[i]
  BY <1>6, <1>7 DEF N
<1> HIDE DEF s
<1>9. s = g
  BY <1>8, SeqEqual
<1>10. QED
  BY <1>1, <1>9 DEF s

-----------------------------------------------------------------------------
(* The head of an answer                                                   *)

\* The numbers of a head.
LEMMA FewSigned == Signed(<< 0 >>) = 0 /\ Signed(<< 2 >>) = 2
<1>1. \A x \in {0, 2} : Signed(<<x>>) = x
  <2> TAKE x \in {0, 2}
  <2> DEFINE raw == <<x>>
  <2>1. x \in Int /\ raw # << >> /\ raw[1] = x /\ ~(raw[1] >= 128) /\ 0 * 256 + x = x
    OBVIOUS
  <2>2. From(0, <<x>>) = 0 * 256 + x
    BY <2>1, FromFew
  <2> HIDE DEF raw
  <2>3. Signed(raw) = From(0, raw)
    BY <2>1 DEF Signed
  <2>4. QED
    BY <2>1, <2>2, <2>3 DEF raw
<1>2. QED
  BY <1>1

\* The head of an answer.
LEMMA HeaderIs ==
  ASSUME NEW pdu, NEW id, NEW status \in {0, 2}, NEW list, NEW n \in Nat,
         FourSeen(pdu, id, <<status>>, << 0 >>, list), Signed(id) = n
  PROVE  HeaderOf(pdu) = <<n, status, 0>>
<1> DEFINE tags == <<2, 2, 2>>
           h == [i \in 1..3 |-> Signed(pdu[i].value)]
           t == <<n, status, 0>>
<1>1. /\ pdu \in Seq(ElementSet) /\ Len(pdu) = 4
      /\ pdu[1].tag = 2 /\ pdu[2].tag = 2 /\ pdu[3].tag = 2
      /\ pdu[1].value = id /\ pdu[2].value = <<status>> /\ pdu[3].value = <<0>>
  BY DEF FourSeen
<1>2. \A i \in 1..3 : i = 1 \/ i = 2 \/ i = 3
  OBVIOUS
<1>3. Starts(pdu, tags)
  <2>1. tags \in Seq(Nat) /\ Len(tags) = 3 /\ tags[1] = 2 /\ tags[2] = 2 /\ tags[3] = 2
    OBVIOUS
  <2> HIDE DEF tags
  <2>2. Len(tags) <= Len(pdu) /\ \A i \in 1..Len(tags) : pdu[i].tag = tags[i]
    BY <1>1, <1>2, <2>1
  <2>3. QED
    BY <1>1, <2>1, <2>2, StartsIs
<1>4. HeaderOf(pdu) = h
  BY <1>3 DEF HeaderOf
<1>5. Signed(pdu[1].value) = n /\ Signed(pdu[2].value) = status /\ Signed(pdu[3].value) = 0
  BY <1>1, FewSigned
<1>6. h \in Seq(Int) /\ Len(h) = 3 /\ h[1] = n /\ h[2] = status /\ h[3] = 0
  <2> DEFINE e(i) == Signed(pdu[i].value)
  <2>1. \A i \in 1..3 : e(i) \in Int
    BY <1>2, <1>5
  <2>2. e(1) = n /\ e(2) = status /\ e(3) = 0
    BY <1>5
  <2> HIDE DEF e
  <2>3. [i \in 1..3 |-> e(i)] \in Seq(Int) /\ Len([i \in 1..3 |-> e(i)]) = 3
    BY <2>1, SMT
  <2>4. QED
    BY <2>2, <2>3 DEF e
<1>7. t \in Seq(Int) /\ Len(t) = 3 /\ t[1] = n /\ t[2] = status /\ t[3] = 0
  OBVIOUS
<1> HIDE DEF h, t
<1>8. \A i \in 1..Len(t) : h[i] = t[i]
  BY <1>2, <1>6, <1>7
<1>9. h = t
  BY <1>6, <1>7, <1>8, SeqEqual
<1>10. QED
  BY <1>4, <1>9 DEF t

\* What is read of a datagram that holds a message.
LEMMA PduIs ==
  ASSUME NEW data, NEW community, NEW tag, NEW pdu, MessageOpen(data, community, tag, pdu, 4)
  PROVE  Pdu(data) = Elements(pdu, 1, 4)
<1> DEFINE body == ReadTlv(data, 1, 4).value
           msg == Elements(body, 1, 4)
           top == Elements(data, 1, 4)
           one == <<48>>
<1>1. /\ top \in Seq(ElementSet) /\ Len(top) = 1 /\ top[1].tag = 48 /\ top[1].value = body
      /\ msg \in Seq(ElementSet) /\ Len(msg) = 3 /\ msg[3].value = pdu
  BY DEF MessageOpen
<1> HIDE DEF top, msg, body
<1>2. Tags(top) = one
  <2> DEFINE all == Tags(top)
  <2>1. DOMAIN top = 1..1
    BY <1>1, LenProperties
  <2>2. all = [i \in 1..1 |-> top[i].tag]
    BY <2>1 DEF Tags
  <2>3. \A i \in 1..1 : top[i].tag = 48
    BY <1>1
  <2>4. all = [i \in 1..1 |-> 48]
    BY <2>2, <2>3
  <2> HIDE DEF all
  <2>5. all \in Seq(Nat) /\ Len(all) = 1 /\ all[1] = 48
    BY <2>4
  <2>6. one \in Seq(Nat) /\ Len(one) = 1 /\ one[1] = 48
    OBVIOUS
  <2> HIDE DEF one
  <2>7. \A i \in 1..Len(one) : all[i] = one[i]
    BY <2>5, <2>6
  <2>8. all = one
    BY <2>5, <2>6, <2>7, SeqEqual
  <2>9. QED
    BY <2>8 DEF all
<1>3. Pdu(data) = Within(top)
  BY DEF Pdu, top
<1>4. Within(top) = PduOf(msg)
  BY <1>1, <1>2 DEF Within, msg
<1>5. PduOf(msg) = Elements(pdu, 1, 4)
  BY <1>1 DEF PduOf
<1>6. QED
  BY <1>3, <1>4, <1>5

\* Where there is no element there is no head.
LEMMA NoHeader ==
  ASSUME NEW data, Elements(data, 1, 4) = << >>
  PROVE  Header(data) = << >>
<1>1. Tags(<< >>) # <<48>>
  <2> DEFINE all == Tags(<< >>)
             one == <<48>>
  <2>1. all = [i \in {} |-> 0]
    BY DEF Tags
  <2>2. DOMAIN all = {} /\ 1 \in DOMAIN one
    BY <2>1
  <2> HIDE DEF all, one
  <2>3. all # one
    BY <2>2
  <2>4. QED
    BY <2>3 DEF all, one
<1>2. Pdu(data) = << >>
  BY <1>1 DEF Pdu, Within
<1>3. ~Starts(<< >>, <<2, 2, 2>>)
  <2> DEFINE all == Tags(<< >>)
             three == <<2, 2, 2>>
  <2>1. all = [i \in {} |-> 0]
    BY DEF Tags
  <2>2. DOMAIN all = 1..0
    BY <2>1
  <2>3. Len(all) = 0
    <3>1. all = << >>
      BY <2>1
    <3> HIDE DEF all
    <3>2. QED
      BY <3>1
  <2>4. Len(three) = 3
    OBVIOUS
  <2> HIDE DEF all, three
  <2>5. ~IsPrefix(three, all)
    BY <2>3, <2>4 DEF IsPrefix
  <2>6. QED
    BY <2>5 DEF Starts, all, three
<1>4. QED
  BY <1>2, <1>3 DEF Header, HeaderOf

\* The answers to a request.
Answering(r, values) ==
    /\ r \in Requests /\ AllAskable(r) /\ Len(values) = Len(r.names)
    /\ values \in AnswerLists

\* The values of an answer and the names they are for.
LEMMA AnswerTypes ==
  ASSUME NEW r, NEW values, Answering(r, values)
  PROVE  /\ values \in Seq([tag : Byte, int : Int, text : Seq(Byte)])
         /\ Len(values) \in Nat /\ DOMAIN values = 1..Len(values)
         /\ \A i \in 1..Len(values) :
               /\ RawSeen(values[i], Raw(values[i])) /\ Answerable(values[i])
               /\ r.names[i] \in Seq(Nat) /\ Askable(r.names[i])
<1>1. /\ values \in Seq([tag : Byte, int : Int, text : Seq(Byte)])
      /\ \A i \in DOMAIN values : Answerable(values[i])
  BY AnswerAssumption, Zenon DEF Answering
<1>2. Len(values) \in Nat /\ DOMAIN values = 1..Len(values)
  BY <1>1, LenProperties
<1>3. r.names \in Seq(Seq(Nat)) /\ AllAskable(r) /\ Len(values) = Len(r.names)
  BY RequestTypes DEF Answering
<1>4. DOMAIN r.names = 1..Len(values)
  BY <1>2, <1>3, LenProperties
<1>5. ASSUME NEW i \in 1..Len(values)
      PROVE  /\ RawSeen(values[i], Raw(values[i])) /\ Answerable(values[i])
             /\ r.names[i] \in Seq(Nat) /\ Askable(r.names[i])
  <2>1. Answerable(values[i])
    BY <1>1, <1>2
  <2>2. RawSeen(values[i], Raw(values[i]))
    BY <2>1, RawRead
  <2>3. r.names[i] \in Seq(Nat)
    BY <1>3, ElementOfSeq
  <2>4. Askable(r.names[i])
    BY <1>3, <1>4 DEF AllAskable
  <2>5. QED
    BY <2>1, <2>2, <2>3, <2>4
<1>6. QED
  BY <1>1, <1>2, <1>5

\* The varbinds of an answer one by one.
AnswerParts(r, values) == [i \in 1..Len(values) |-> AnswerBind(r.names[i], values[i])]

\* The varbinds of an answer are read one by one.
LEMMA PartsFit ==
  ASSUME NEW r, NEW values, Answering(r, values)
  PROVE  /\ AnswerParts(r, values) \in Seq(Fit) /\ Len(AnswerParts(r, values)) = Len(values)
         /\ AnswerBinds(r, values) \in Fit
         /\ \A i \in 1..Len(values) :
               AnswerParts(r, values)[i] = AnswerBind(r.names[i], values[i])
         /\ \A most \in Widths : Len(AnswerBinds(r, values)) <= Datagram =>
               ListSeen(Elements(AnswerBinds(r, values), 1, most), AnswerParts(r, values))
<1> DEFINE N == Len(values)
           b(i) == AnswerBind(r.names[i], values[i])
           parts == AnswerParts(r, values)
           xs == [i \in DOMAIN values |-> Tlv(48, b(i))]
           list == AnswerBinds(r, values)
<1>1. N \in Nat /\ DOMAIN values = 1..N
  BY AnswerTypes
<1>2. \A i \in 1..N : b(i) \in Fit
  <2> TAKE i \in 1..N
  <2>1. RawSeen(values[i], Raw(values[i])) /\ r.names[i] \in Seq(Nat)
    BY AnswerTypes
  <2>2. Raw(values[i]) \in Fit /\ values[i].tag \in Byte
    BY <2>1, BytesFit DEF RawSeen
  <2>3. TrapName(r.names[i]) \in Fit
    BY <2>1, TrapNameFits
  <2>4. QED
    BY <2>2, <2>3, TagBytes, TlvFits, BothFit DEF AnswerBind
<1>3. parts = [i \in 1..N |-> b(i)] /\ xs = [i \in 1..N |-> Tlv(48, b(i))]
  BY <1>1 DEF AnswerParts
<1>4. list = FlattenSeq(xs)
  BY DEF AnswerBinds
<1> HIDE DEF parts, list, xs
<1>5. \A i \in 1..N : Tlv(48, b(i)) \in Fit
  BY <1>2, TagBytes, TlvFits
<1> DEFINE c(i) == Tlv(48, b(i))
<1>6. \A i \in 1..N : c(i) \in Fit /\ c(i) = Tlv(48, b(i))
  BY <1>5
<1>7. xs = [i \in 1..N |-> c(i)]
  BY <1>3
<1> HIDE DEF b, c, N
<1>8. parts \in Seq(Fit) /\ Len(parts) = N /\ \A i \in 1..N : parts[i] = b(i)
  BY <1>1, <1>2, <1>3
<1>9. xs \in Seq(Fit) /\ Len(xs) = N /\ \A i \in 1..N : xs[i] = c(i)
  BY <1>1, <1>6, <1>7
<1>10. list \in Fit
  BY <1>4, <1>9, FlattenFits
<1>11. ASSUME NEW most \in Widths, Len(list) <= Datagram
       PROVE  ListSeen(Elements(list, 1, most), parts)
  <2>1. Len(xs) = Len(parts) /\ \A i \in 1..Len(parts) : xs[i] = Tlv(48, parts[i])
    BY <1>6, <1>8, <1>9
  <2>2. QED
    BY <1>4, <1>8, <1>9, <1>11, <2>1, ListRead
<1>12. QED
  BY <1>8, <1>10, <1>11 DEF parts, list, N, b

-----------------------------------------------------------------------------
(* What is read of an answer                                                *)

RecordOf(arcs, v) ==
    [name |-> NameOfAnswer(TrapName(arcs)), tag |-> v.tag,
     int |-> IF v.tag \notin IntegerTags \/ Len(Raw(v)) \notin 1..8 THEN << >>
             ELSE IF v.tag = 2 THEN <<Signed(Raw(v))>> ELSE <<Unsigned(Raw(v))>>,
     text |-> IF v.tag = 4 /\ Len(Raw(v)) <= TextMost
              THEN <<Strip(Characters(Raw(v)))>> ELSE << >>]

\* A varbind of an answer is recorded as it was given.
LEMMA RecordIs ==
  ASSUME NEW arcs, Oid(arcs), NEW v, RawSeen(v, Raw(v))
  PROVE  /\ BindAsAnswered(arcs, v, RecordOf(arcs, v))
         /\ Varbind(NameOfAnswer(TrapName(arcs)), v.tag, Raw(v)) = <<RecordOf(arcs, v)>>
<1> DEFINE rec == RecordOf(arcs, v)
           raw == Raw(v)
           name == NameOfAnswer(TrapName(arcs))
<1>1. /\ rec.name = name /\ rec.tag = v.tag
      /\ rec.int = IF v.tag \notin IntegerTags \/ Len(raw) \notin 1..8 THEN << >>
                   ELSE IF v.tag = 2 THEN <<Signed(raw)>> ELSE <<Unsigned(raw)>>
      /\ rec.text = IF v.tag = 4 /\ Len(raw) <= TextMost
                    THEN <<Strip(Characters(raw))>> ELSE << >>
  BY DEF RecordOf
<1>2. name # << >> /\ (Plain(arcs) => name = arcs)
  BY AnswerName
<1>3. Varbind(name, v.tag, raw) = <<rec>>
  BY <1>2 DEF Varbind, RecordOf
<1> HIDE DEF rec, raw, name
<1>4. /\ v.tag \notin IntegerTags => raw = v.text
      /\ v.tag \in IntegerTags =>
            Len(raw) \in 1..8 /\ (v.tag = 2 => Signed(raw) = v.int)
            /\ (v.tag # 2 => Unsigned(raw) = v.int)
  BY DEF RawSeen, raw
<1>5. v.tag \in IntegerTags => rec.int = <<v.int>>
  BY <1>1, <1>4
<1>6. v.tag = 4 => rec.text = IF Len(v.text) <= TextMost
                              THEN <<Strip(Characters(v.text))>> ELSE << >>
  <2>1. 4 \notin IntegerTags
    BY DEF IntegerTags
  <2>2. QED
    BY <1>1, <1>4, <2>1
<1>7. BindAsAnswered(arcs, v, rec)
  BY <1>1, <1>2, <1>5, <1>6 DEF BindAsAnswered
<1>8. QED
  BY <1>3, <1>7 DEF rec, raw, name

\* The varbinds of an answer are recorded as they were given.
LEMMA VarbindsRead ==
  ASSUME NEW r, NEW values, Answering(r, values), Len(AnswerBinds(r, values)) <= Datagram,
         \A i \in 1..Len(values) : Named(r.names[i])
  PROVE  LET binds == VarbindsOf(Elements(AnswerBinds(r, values), 1, 4)) IN
         /\ Len(binds) = Len(values)
         /\ \A i \in 1..Len(values) : BindAsAnswered(r.names[i], values[i], binds[i])
<1> DEFINE N == Len(values)
           es == Elements(AnswerBinds(r, values), 1, 4)
           parts == AnswerParts(r, values)
           one(i) == IF es[i].tag # 48 THEN << >> ELSE VarbindOf(Elements(es[i].value, 1, 4))
           rec(i) == RecordOf(r.names[i], values[i])
           g == [i \in 1..N |-> rec(i)]
           A == {rec(i) : i \in 1..N}
           seqs == [i \in DOMAIN es |-> one(i)]
<1>1. N \in Nat /\ 4 \in Widths
  BY AnswerTypes, TagBytes
<1>2. ListSeen(es, parts) /\ Len(parts) = N
  BY <1>1, PartsFit
<1> HIDE DEF es
<1>3. es \in Seq(ElementSet) /\ DOMAIN es = 1..N
  <2>1. es \in Seq(ElementSet) /\ Len(es) = N
    BY <1>2 DEF ListSeen
  <2>2. QED
    BY <2>1, LenProperties
<1>4. ASSUME NEW i \in 1..N
      PROVE  one(i) = <<rec(i)>> /\ BindAsAnswered(r.names[i], values[i], rec(i))
  <2> DEFINE arcs == r.names[i]
             v == values[i]
             name == TrapName(arcs)
             pair == Elements(AnswerBind(arcs, v), 1, 4)
  <2>1. /\ es[i].tag = 48 /\ es[i].value = parts[i] /\ Len(parts[i]) <= Datagram
    BY <1>2 DEF ListSeen
  <2>2. parts[i] = AnswerBind(arcs, v)
    BY PartsFit
  <2>3. /\ RawSeen(v, Raw(v)) /\ arcs \in Seq(Nat) /\ Askable(arcs) /\ Named(arcs)
    BY AnswerTypes
  <2> HIDE DEF arcs, v
  <2>4. Oid(arcs)
    BY <2>3, AskedOid
  <2>5. name \in Fit /\ Raw(v) \in Fit /\ v.tag \in Byte
    BY <2>3, TrapNameFits, BytesFit DEF RawSeen
  <2>6. PairSeen(pair, name, v.tag, Raw(v))
    <3>1. Len(Tlv(6, name) \o Tlv(v.tag, Raw(v))) <= Datagram
      BY <2>1, <2>2 DEF AnswerBind
    <3> HIDE DEF name
    <3>2. PairSeen(Elements(Tlv(6, name) \o Tlv(v.tag, Raw(v)), 1, 4), name, v.tag, Raw(v))
      BY <1>1, <2>5, <3>1, PairRead
    <3>3. QED
      BY <3>2 DEF AnswerBind, name
  <2> HIDE DEF pair
  <2>7. /\ ~(Len(pair) < 2 \/ pair[1].tag # 6) /\ pair[1].value = name
        /\ pair[2].tag = v.tag /\ pair[2].value = Raw(v)
    BY <2>6 DEF PairSeen
  <2>8. VarbindOf(pair) = Varbind(NameOfAnswer(name), v.tag, Raw(v))
    BY <2>7, Zenon DEF VarbindOf
  <2>9. one(i) = VarbindOf(pair)
    BY <2>1, <2>2 DEF pair
  <2>10. Varbind(NameOfAnswer(name), v.tag, Raw(v)) = <<RecordOf(arcs, v)>>
         /\ BindAsAnswered(arcs, v, RecordOf(arcs, v))
    BY <2>3, <2>4, RecordIs
  <2>11. QED
    BY <2>8, <2>9, <2>10 DEF arcs, v
<1>5. VarbindsOf(es) = FlattenSeq(seqs)
  BY DEF VarbindsOf
<1>6. seqs = [i \in 1..N |-> one(i)]
  BY <1>3
<1> HIDE DEF one, rec, N, seqs
<1>7. \A i \in 1..N : rec(i) \in A
  OBVIOUS
<1> HIDE DEF A
<1>8. g \in Seq(A) /\ Len(g) = N /\ \A i \in 1..N : g[i] = rec(i)
  BY <1>1, <1>7
<1> HIDE DEF g
<1>9. \A i \in 1..N : one(i) \in Seq(A) /\ one(i) = <<g[i]>>
  <2> TAKE i \in 1..N
  <2>1. one(i) = <<rec(i)>> /\ rec(i) \in A /\ g[i] = rec(i)
    BY <1>4, <1>7, <1>8
  <2>2. QED
    BY <2>1
<1>10. seqs \in Seq(Seq(A)) /\ Len(seqs) = N /\ \A i \in 1..N : seqs[i] = one(i)
  BY <1>1, <1>6, <1>9
<1>11. FlattenSeq(seqs) = g
  <2>1. \A i \in 1..Len(g) : seqs[i] = <<g[i]>>
    BY <1>8, <1>9, <1>10
  <2>2. Len(seqs) = Len(g)
    BY <1>8, <1>10
  <2>3. QED
    BY <1>8, <1>10, <2>1, <2>2, FlattenOnes
<1>12. \A i \in 1..N : BindAsAnswered(r.names[i], values[i], g[i])
  BY <1>4, <1>8
<1>13. QED
  BY <1>5, <1>8, <1>11, <1>12 DEF es, N

\* An answer as it arrives whole.
ResponseSeen(data, r, status, values) ==
    /\ Header(data) = <<r.id, status, 0>>
    /\ Varbinds(data) = VarbindsOf(Elements(AnswerBinds(r, values), 1, 4))
    /\ Len(AnswerBinds(r, values)) <= Datagram

\* The types of the parts of an answer.
LEMMA PduFits ==
  ASSUME NEW r, NEW values, Answering(r, values), NEW status \in {0, 2}
  PROVE  /\ AnswerPdu(r, status, values) \in Fit
         /\ Octets(r.id) \in Fit /\ <<status>> \in Fit /\ << 0 >> \in Fit
         /\ CommunitySent(r.community) \in Seq(Byte) /\ r.id \in Nat
<1>1. r.id \in Nat /\ CommunitySent(r.community) \in Seq(Byte)
  BY RequestTypes DEF Answering
<1>2. Octets(r.id) \in Fit /\ <<0>> \in Fit /\ <<status>> \in Fit
  <2>1. status \in Byte
    BY TagBytes
  <2>2. QED
    BY <1>1, <2>1, OctetsFit, OneFits, TagBytes
<1>3. AnswerBinds(r, values) \in Fit
  BY PartsFit
<1>4. Told(AnswerPdu(r, status, values),
           Fields4(Octets(r.id), <<status>>, <<0>>, AnswerBinds(r, values)))
  BY <1>2, <1>3, FourTold DEF AnswerPdu
<1>5. QED
  BY <1>1, <1>2, <1>4 DEF Told

\* An answer that arrives whole is read as it was built.
LEMMA ResponseOpened ==
  ASSUME NEW r, NEW values, Answering(r, values), NEW status \in {0, 2},
         Len(Response(r, status, values)) <= Datagram
  PROVE  ResponseSeen(Response(r, status, values), r, status, values)
<1> DEFINE data == Response(r, status, values)
           pdu == AnswerPdu(r, status, values)
           list == AnswerBinds(r, values)
           id == Octets(r.id)
           stat == <<status>>
           zero == <<0>>
           es == Elements(pdu, 1, 4)
<1>1. /\ pdu \in Fit /\ id \in Fit /\ stat \in Fit /\ zero \in Fit /\ list \in Fit
      /\ CommunitySent(r.community) \in Seq(Byte) /\ r.id \in Nat
  BY PduFits, PartsFit
<1>2. Signed(id) = r.id
  BY <1>1, OctetsRead
<1>3. data = Message(1, CommunitySent(r.community), 162, pdu)
  BY ResponseIs
<1>4. pdu = Pdu4(id, stat, zero, list)
  BY DEF AnswerPdu
<1>5. 1 \in Byte /\ 162 \in Byte /\ 4 \in Widths
  BY TagBytes
<1>6. Len(data) <= Datagram
  OBVIOUS
<1> HIDE DEF data, pdu, list, id
<1>7. MessageOpen(data, CommunitySent(r.community), 162, pdu, 4)
  BY <1>1, <1>3, <1>5, <1>6, MessageOpened
<1>8. Pdu(data) = es
  BY <1>7, PduIs
<1>9. Len(pdu) <= Datagram
  BY <1>7 DEF MessageOpen
<1>10. FourSeen(es, id, stat, zero, list)
  <2> HIDE DEF stat, zero
  <2>1. QED
    BY <1>1, <1>4, <1>5, <1>9, FourRead
<1> HIDE DEF es
<1>11. HeaderOf(es) = <<r.id, status, 0>>
  BY <1>1, <1>2, <1>10, HeaderIs
<1>12. ~(Len(es) < 4) /\ es[4].value = list /\ Len(list) <= Datagram
  BY <1>10 DEF FourSeen
<1>13. VarbindsIn(es) = VarbindsOf(Elements(list, 1, 4))
  BY <1>12 DEF VarbindsIn
<1>14. Header(data) = <<r.id, status, 0>> /\ Varbinds(data) = VarbindsOf(Elements(list, 1, 4))
  BY <1>8, <1>11, <1>13 DEF Header, Varbinds
<1>15. ResponseSeen(data, r, status, values)
  BY <1>12, <1>14 DEF ResponseSeen, list
<1>16. QED
  BY <1>15 DEF data

\* Of an answer that lost its end nothing is read.
LEMMA CutAnswer ==
  ASSUME NEW r, NEW values, Answering(r, values), NEW status \in {0, 2},
         Len(Response(r, status, values)) <= Datagram,
         NEW n \in Nat, n < Len(Response(r, status, values)),
         SubSeq(Response(r, status, values), 1, n) \in Seq(Byte)
  PROVE  Header(SubSeq(Response(r, status, values), 1, n)) = << >>
<1> DEFINE data == Response(r, status, values)
           pdu == AnswerPdu(r, status, values)
           cut == SubSeq(data, 1, n)
<1>1. pdu \in Fit /\ CommunitySent(r.community) \in Seq(Byte)
  BY PduFits
<1>2. data = Message(1, CommunitySent(r.community), 162, pdu)
  BY ResponseIs
<1>3. 1 \in Byte /\ 162 \in Byte /\ 4 \in Widths
  BY TagBytes
<1>4. Len(data) <= Datagram /\ n < Len(data) /\ cut \in Seq(Byte)
  OBVIOUS
<1> HIDE DEF data, pdu
<1>5. ReadTlv(cut, 1, 4) = NoElement
  BY <1>1, <1>2, <1>3, <1>4, CutRefused
<1> HIDE DEF cut
<1>6. 1 \in 1..Len(cut) + 1
  <2>1. Len(cut) \in Nat
    BY <1>4, LenProperties
  <2>2. QED
    BY <2>1
<1>7. ~ReadTlv(cut, 1, 4).ok
  BY <1>5 DEF NoElement
<1>8. Elements(cut, 1, 4) = << >>
  BY <1>3, <1>4, <1>6, <1>7, ElementsAre
<1>9. QED
  BY <1>8, NoHeader DEF cut, data

-----------------------------------------------------------------------------
(* The values that follow names in an answer                                *)

ValueLists == Seq(Seq(Int))

\* What is found from a place on: what the element there gives, and what is
\* found behind it.
Given(w, e, named) ==
    IF e.tag = 6 THEN << >>
    ELSE IF (e.tag \div 32) % 2 = 1 THEN w[Place(e.value, 1, FALSE)]
    ELSE When(named, ValueAfterName(e.tag, e.value))

FoundAt(w, at) ==
    LET e == ReadTlv(at.raw, at.pos, 4)
    IN IF ~e.ok THEN << >>
       ELSE IF e.tag = 6 THEN w[Place(at.raw, e.end, TRUE)]
       ELSE IF (e.tag \div 32) % 2 = 1
            THEN w[Place(e.value, 1, FALSE)] \o w[Place(at.raw, e.end, FALSE)]
       ELSE When(at.named, ValueAfterName(e.tag, e.value)) \o w[Place(at.raw, e.end, FALSE)]

Gathers(w) == w \in [Places -> ValueLists] /\ \A at \in Places : w[at] = FoundAt(w, at)

\* The nearer the end of its text, the lower a place.
LowerThan(at) == IF at.pos <= Len(at.raw) THEN Len(at.raw) + 1 - at.pos ELSE 0

\* A place and how low it is.
LEMMA PlaceType ==
  ASSUME NEW raw \in Seq(Byte), NEW pos \in Nat, pos # 0, NEW named \in BOOLEAN
  PROVE  /\ Place(raw, pos, named) \in Places
         /\ LowerThan(Place(raw, pos, named)) =
               IF pos <= Len(raw) THEN Len(raw) + 1 - pos ELSE 0
<1>1. pos \in Nat \ {0}
  OBVIOUS
<1>2. QED
  BY <1>1 DEF Place, Places, LowerThan

\* Behind an element and within it the places are lower.
LEMMA PlaceRead ==
  ASSUME NEW at \in Places
  PROVE  LET e == ReadTlv(at.raw, at.pos, 4) IN
         /\ e \in ElementSet /\ LowerThan(at) \in Nat
         /\ at.raw \in Seq(Byte) /\ at.pos \in Nat /\ at.pos # 0 /\ at.named \in BOOLEAN
         /\ e.ok => /\ \A b \in BOOLEAN :
                          /\ Place(at.raw, e.end, b) \in Places
                          /\ LowerThan(Place(at.raw, e.end, b)) < LowerThan(at)
                    /\ Place(e.value, 1, FALSE) \in Places
                    /\ LowerThan(Place(e.value, 1, FALSE)) < LowerThan(at)
<1> DEFINE raw == at.raw
           pos == at.pos
           e == ReadTlv(raw, pos, 4)
           L == Len(raw)
<1>1. raw \in Seq(Byte) /\ pos \in Nat /\ pos # 0 /\ at.named \in BOOLEAN
  BY DEF Places
<1>2. L \in Nat
  BY <1>1, LenProperties
<1>3. LowerThan(at) = IF pos <= L THEN L + 1 - pos ELSE 0
  BY DEF LowerThan
<1> HIDE DEF raw, pos
<1>4. LowerThan(at) \in Nat
  BY <1>1, <1>2, <1>3
<1>5. CASE pos > L + 1
  <2>1. e = NoElement
    <3>1. pos + 1 > Len(raw)
      BY <1>1, <1>2, <1>5
    <3>2. QED
      BY <3>1 DEF ReadTlv
  <2>2. NoElement \in ElementSet /\ ~NoElement.ok
    BY EmptySeq, TagBytes DEF NoElement, ElementSet
  <2> HIDE DEF e
  <2>3. QED
    BY <1>1, <1>4, <2>1, <2>2 DEF e, raw, pos
<1>6. CASE ~(pos > L + 1)
  <2>1. pos \in 1..Len(raw) + 1 /\ 4 \in Widths
    BY <1>1, <1>2, <1>6, TagBytes
  <2>2. Found(e, raw, pos)
    BY <1>1, <2>1, ReadFinds
  <2> HIDE DEF e
  <2>3. e \in ElementSet
    BY <2>2 DEF Found
  <2>4. e.value \in Seq(Byte) /\ e.end \in Nat
    BY <2>3 DEF ElementSet
  <2>5. Len(e.value) \in Nat
    BY <2>4, LenProperties
  <2>6. ASSUME e.ok
        PROVE  /\ \A b \in BOOLEAN : /\ Place(raw, e.end, b) \in Places
                                     /\ LowerThan(Place(raw, e.end, b)) < LowerThan(at)
               /\ Place(e.value, 1, FALSE) \in Places
               /\ LowerThan(Place(e.value, 1, FALSE)) < LowerThan(at)
    <3> DEFINE f == e.end
               v == e.value
               k == Len(v)
    <3>1. pos + k < f /\ pos < f /\ f <= L + 1
      BY <2>2, <2>6 DEF Found
    <3>2. f \in Nat /\ v \in Seq(Byte) /\ k \in Nat
      BY <2>4, <2>5
    <3> HIDE DEF f, v
    <3>3. f # 0 /\ LowerThan(at) = L + 1 - pos
      BY <1>1, <1>2, <1>3, <3>1, <3>2
    <3>4. ASSUME NEW b \in BOOLEAN
          PROVE  Place(raw, f, b) \in Places /\ LowerThan(Place(raw, f, b)) < LowerThan(at)
      <4>1. /\ Place(raw, f, b) \in Places
            /\ LowerThan(Place(raw, f, b)) = IF f <= L THEN L + 1 - f ELSE 0
        BY <1>1, <3>2, <3>3, PlaceType
      <4> HIDE DEF L
      <4>2. (IF f <= L THEN L + 1 - f ELSE 0) < L + 1 - pos
        BY <1>1, <1>2, <3>1, <3>2
      <4>3. QED
        BY <3>3, <4>1, <4>2
    <3>5. Place(v, 1, FALSE) \in Places /\ LowerThan(Place(v, 1, FALSE)) < LowerThan(at)
      <4>1. 1 \in Nat /\ 1 # 0 /\ FALSE \in BOOLEAN
        OBVIOUS
      <4>2. /\ Place(v, 1, FALSE) \in Places
            /\ LowerThan(Place(v, 1, FALSE)) = IF 1 <= k THEN k + 1 - 1 ELSE 0
        BY <3>2, <4>1, PlaceType
      <4> HIDE DEF L, k
      <4>3. (IF 1 <= k THEN k + 1 - 1 ELSE 0) < L + 1 - pos
        BY <1>1, <1>2, <3>1, <3>2
      <4>4. QED
        BY <3>3, <4>2, <4>3
    <3>6. QED
      BY <3>4, <3>5 DEF f, v
  <2>7. QED
    BY <1>1, <1>4, <2>3, <2>6 DEF e, raw, pos
<1>7. QED
  BY <1>5, <1>6

\* What follows a name is a list of values.
LEMMA AfterNameType ==
  ASSUME NEW tag, NEW raw \in Seq(Byte)
  PROVE  ValueAfterName(tag, raw) \in ValueLists
<1>1. raw \in Seq(Int)
  BY Widened
<1>2. Signed(raw) \in Int /\ Unsigned(raw) \in Int
  <2>1. From(0, raw) \in Int /\ From(-1, raw) \in Int
    BY <1>1, FromBoth
  <2>2. QED
    BY <2>1 DEF Signed, Unsigned
<1> DEFINE x == Signed(raw)
           y == Unsigned(raw)
           c == Characters(raw)
<1>3. x \in Int /\ y \in Int /\ c \in Seq(Int)
  BY <1>2, CharactersType
<1>4. ValueAfterName(tag, raw) =
         IF tag = 4 THEN <<IF ValidUtf8(raw) THEN c ELSE raw>>
         ELSE IF tag \in IntegerTags /\ Len(raw) \in 1..9
              THEN <<<<IF tag = 2 THEN x ELSE y>>>> ELSE << >>
  BY DEF ValueAfterName
<1> HIDE DEF x, y, c
<1>5. /\ <<raw>> \in ValueLists /\ <<c>> \in ValueLists /\ << >> \in ValueLists
      /\ <<<<x>>>> \in ValueLists /\ <<<<y>>>> \in ValueLists
  BY <1>1, <1>3 DEF ValueLists
<1>6. QED
  BY <1>4, <1>5

\* What is found at a place is a list of values.
LEMMA FoundType ==
  ASSUME NEW w \in [Places -> ValueLists], NEW at \in Places
  PROVE  FoundAt(w, at) \in ValueLists
<1> DEFINE e == ReadTlv(at.raw, at.pos, 4)
<1>1. /\ e \in ElementSet /\ at.named \in BOOLEAN
      /\ e.ok => /\ \A b \in BOOLEAN : Place(at.raw, e.end, b) \in Places
                 /\ Place(e.value, 1, FALSE) \in Places
  BY PlaceRead
<1>2. FoundAt(w, at) =
         IF ~e.ok THEN << >>
         ELSE IF e.tag = 6 THEN w[Place(at.raw, e.end, TRUE)]
         ELSE IF (e.tag \div 32) % 2 = 1
              THEN w[Place(e.value, 1, FALSE)] \o w[Place(at.raw, e.end, FALSE)]
         ELSE When(at.named, ValueAfterName(e.tag, e.value)) \o w[Place(at.raw, e.end, FALSE)]
  BY DEF FoundAt
<1> HIDE DEF e
<1>3. << >> \in ValueLists
  BY EmptySeq DEF ValueLists
<1>4. ASSUME NEW x \in ValueLists, NEW y \in ValueLists PROVE x \o y \in ValueLists
  BY ConcatProperties DEF ValueLists
<1>5. When(at.named, ValueAfterName(e.tag, e.value)) \in ValueLists
  <2>1. e.value \in Seq(Byte)
    BY <1>1 DEF ElementSet
  <2>2. ValueAfterName(e.tag, e.value) \in ValueLists
    BY <2>1, AfterNameType
  <2>3. QED
    BY <1>3, <2>2 DEF When
<1> DEFINE v == When(at.named, ValueAfterName(e.tag, e.value))
<1> HIDE DEF v
<1>6. CASE ~e.ok
  BY <1>2, <1>3, <1>6
<1>7. CASE e.ok
  <2>1. /\ w[Place(at.raw, e.end, TRUE)] \in ValueLists /\ w[Place(at.raw, e.end, FALSE)] \in ValueLists
        /\ w[Place(e.value, 1, FALSE)] \in ValueLists
    BY <1>1, <1>7
  <2>2. w[Place(e.value, 1, FALSE)] \o w[Place(at.raw, e.end, FALSE)] \in ValueLists
    BY <1>4, <2>1
  <2>3. v \o w[Place(at.raw, e.end, FALSE)] \in ValueLists
    BY <1>4, <1>5, <2>1 DEF v
  <2>4. QED
    BY <1>2, <1>7, <2>1, <2>2, <2>3, Zenon DEF v
<1>8. QED
  BY <1>6, <1>7

\* What is found at a place depends on lower places only.
LEMMA FoundLower ==
  ASSUME NEW f, NEW g, NEW at \in Places,
         \A y \in Places : LowerThan(y) < LowerThan(at) => f[y] = g[y]
  PROVE  FoundAt(f, at) = FoundAt(g, at)
<1> DEFINE e == ReadTlv(at.raw, at.pos, 4)
<1>1. e.ok => /\ \A b \in BOOLEAN : f[Place(at.raw, e.end, b)] = g[Place(at.raw, e.end, b)]
              /\ f[Place(e.value, 1, FALSE)] = g[Place(e.value, 1, FALSE)]
  BY PlaceRead
<1>2. ASSUME NEW h
      PROVE  FoundAt(h, at) =
         IF ~e.ok THEN << >>
         ELSE IF e.tag = 6 THEN h[Place(at.raw, e.end, TRUE)]
         ELSE IF (e.tag \div 32) % 2 = 1
              THEN h[Place(e.value, 1, FALSE)] \o h[Place(at.raw, e.end, FALSE)]
         ELSE When(at.named, ValueAfterName(e.tag, e.value)) \o h[Place(at.raw, e.end, FALSE)]
  BY DEF FoundAt
<1> HIDE DEF e
<1>3. CASE ~e.ok
  BY <1>2, <1>3
<1>4. CASE e.ok
  <2> DEFINE a == Place(at.raw, e.end, TRUE)
             b == Place(at.raw, e.end, FALSE)
             c == Place(e.value, 1, FALSE)
             v == When(at.named, ValueAfterName(e.tag, e.value))
             six == e.tag = 6
             made == (e.tag \div 32) % 2 = 1
  <2>1. f[a] = g[a] /\ f[b] = g[b] /\ f[c] = g[c]
    BY <1>1, <1>4
  <2>2. \A h : FoundAt(h, at) = IF six THEN h[a] ELSE IF made THEN h[c] \o h[b] ELSE v \o h[b]
    BY <1>2, <1>4
  <2> HIDE DEF a, b, c, v, six, made
  <2>3. CASE six
    BY <2>1, <2>2, <2>3
  <2>4. CASE ~six /\ made
    BY <2>1, <2>2, <2>4
  <2>5. CASE ~six /\ ~made
    BY <2>1, <2>2, <2>5
  <2>6. QED
    BY <2>3, <2>4, <2>5
<1>5. QED
  BY <1>3, <1>4

\* AnswerValues is what is found from the first place on.
LEMMA ValuesGathered ==
  \E w : Gathers(w) /\ \A data : AnswerValues(data) = w[Place(data, 1, FALSE)]
<1> DEFINE D == Places
           S == ValueLists
           Is(f) == f = [at \in D |-> FoundAt(f, at)]
           mu == [at \in D |-> LowerThan(at)]
           step == [at \in D |-> [f \in [D -> S] |-> FoundAt(f, at)]]
           d == CHOOSE g : Is(g)
<1>1. mu \in [D -> Nat] /\ \A at \in D : mu[at] = LowerThan(at)
  <2>1. \A at \in D : LowerThan(at) \in Nat
    BY PlaceRead
  <2>2. QED
    BY <2>1
<1>2. step \in [D -> [[D -> S] -> S]] /\ \A q \in D, f \in [D -> S] : step[q][f] = FoundAt(f, q)
  BY FoundType
<1>3. \A data : AnswerValues(data) = d[Place(data, 1, FALSE)]
  BY Zenon DEF AnswerValues, FoundAt
<1> HIDE DEF mu, step
<1>4. LooksDown(step, D, mu, S)
  <2> HIDE DEF S
  <2> SUFFICES ASSUME NEW f \in [D -> S], NEW g \in [D -> S], NEW q \in D,
                      \A r \in D : mu[r] < mu[q] => f[r] = g[r]
               PROVE  step[q][f] = step[q][g]
    BY DEF LooksDown
  <2>1. \A r \in D : LowerThan(r) < LowerThan(q) => f[r] = g[r]
    BY <1>1
  <2>2. FoundAt(f, q) = FoundAt(g, q)
    BY <2>1, FoundLower
  <2>3. QED
    BY <1>2, <2>2
<1>5. SolvedOn(step, D, S)
  <2>1. S # {}
    BY EmptySeq DEF ValueLists
  <2> HIDE DEF D, S
  <2>2. QED
    BY <1>1, <1>2, <1>4, <2>1, RecursionOn
<1>6. PICK f \in [D -> S] : \A q \in D : f[q] = FoundAt(f, q)
  BY <1>2, <1>5 DEF SolvedOn
<1>7. Is(f)
  <2>1. f = [q \in D |-> f[q]]
    BY <1>6
  <2>2. QED
    BY <1>6, <2>1
<1>8. Is(d)
  <2> HIDE DEF Is
  <2>1. QED
    BY <1>7
<1> HIDE DEF d
<1>9. \A q \in D : d[q] = FoundAt(d, q)
  BY <1>8
<1>10. d = [q \in D |-> d[q]]
  BY <1>8
<1> HIDE DEF Is
<1>11. ASSUME NEW q \in D PROVE d[q] = f[q]
  <2> DEFINE Same == {n \in Nat : \A r \in D : LowerThan(r) = n => d[r] = f[r]}
  <2>1. ASSUME NEW n \in Nat, \A m \in 0..(n - 1) : m \in Same PROVE n \in Same
    <3> SUFFICES ASSUME NEW r \in D, LowerThan(r) = n PROVE d[r] = f[r]
      OBVIOUS
    <3>1. \A y \in Places : LowerThan(y) < LowerThan(r) => d[y] = f[y]
      <4> TAKE y \in Places
      <4> HAVE LowerThan(y) < LowerThan(r)
      <4>1. LowerThan(y) \in Nat
        BY PlaceRead
      <4>2. LowerThan(y) \in 0..(n - 1)
        BY <4>1
      <4>3. QED
        BY <2>1, <4>2
    <3>2. FoundAt(d, r) = FoundAt(f, r)
      BY <3>1, FoundLower
    <3>3. QED
      BY <1>6, <1>9, <3>2
  <2> HIDE DEF Same
  <2>2. \A n \in Nat : n \in Same
    BY <2>1, InductBelow
  <2>3. LowerThan(q) \in Nat
    BY PlaceRead
  <2>4. QED
    BY <2>2, <2>3 DEF Same
<1>12. d \in [D -> S]
  BY <1>6, <1>10, <1>11
<1>13. Gathers(d)
  BY <1>9, <1>12 DEF Gathers
<1>14. QED
  BY <1>3, <1>13

-----------------------------------------------------------------------------
(* Collecting values element by element                                     *)

\* What is one more than a length is not zero.
LEMMA LengthPlusOne == \A n \in Nat : \A m : m = n + 1 => m # 0
  OBVIOUS

\* The first of a sequence, and what is left of it.
LEMMA RestOf ==
  ASSUME NEW S, NEW e \in S, NEW r \in Seq(S), NEW s, s = <<e>> \o r
  PROVE  /\ s \in Seq(S) /\ s[1] = e /\ Tail(s) = r /\ Len(r) \in Nat /\ Len(s) = Len(r) + 1
         /\ \A i \in 1..Len(r) : s[i + 1] = r[i]
<1> DEFINE y == <<e>>
<1>1. y \in Seq(S) /\ Len(y) = 1 /\ y[1] = e
  OBVIOUS
<1> HIDE DEF y
<1>2. /\ s \in Seq(S) /\ Len(s) = Len(y) + Len(r) /\ Len(r) \in Nat
      /\ \A i \in 1..Len(y) : s[i] = y[i]
      /\ \A i \in 1..Len(r) : s[Len(y) + i] = r[i]
  <2>1. y \in Seq(S) /\ r \in Seq(S) /\ s = y \o r
    BY <1>1 DEF y
  <2>2. QED
    BY <2>1, Joined
<1>3. s[1] = e
  <2>1. 1 \in 1..Len(y)
    BY <1>1
  <2>2. QED
    BY <1>1, <1>2, <2>1
<1>4. \A i \in 1..Len(r) : s[i + 1] = r[i]
  BY <1>1, <1>2
<1>5. Len(s) = Len(r) + 1
  BY <1>1, <1>2
<1>6. Tail(s) = r
  <2> DEFINE t == Tail(s)
  <2>1. s # << >>
    BY <1>2, <1>5
  <2>2. t \in Seq(S) /\ Len(t) = Len(s) - 1 /\ \A i \in 1..Len(s) - 1 : t[i] = s[i + 1]
    BY <1>2, <2>1
  <2> HIDE DEF t
  <2>3. Len(t) = Len(r) /\ \A i \in 1..Len(t) : t[i] = r[i]
    BY <1>2, <1>4, <1>5, <2>2
  <2>4. t = r
    BY <2>2, <2>3, SeqEqual
  <2>5. QED
    BY <2>4 DEF t
<1>7. QED
  BY <1>2, <1>3, <1>4, <1>5, <1>6

\* Nothing is found where there are no elements.
LEMMA GatherNone ==
  ASSUME NEW w, Gathers(w), NEW raw \in Seq(Byte), NEW pos \in 1..Len(raw) + 1,
         NEW named \in BOOLEAN, Len(Elements(raw, pos, 4)) = 0
  PROVE  w[Place(raw, pos, named)] = << >>
<1> DEFINE e == ReadTlv(raw, pos, 4)
           at == Place(raw, pos, named)
           es == Elements(raw, pos, 4)
<1>0. Len(raw) \in Nat /\ 4 \in Widths
  BY LenProperties, TagBytes
<1>1. pos \in Nat /\ pos # 0
  BY <1>0
<1>2. at \in Places /\ at.raw = raw /\ at.pos = pos
  BY <1>1, PlaceType DEF Place
<1>3. ~e.ok
  <2> SUFFICES ASSUME e.ok PROVE FALSE
    OBVIOUS
  <2> DEFINE rest == Elements(raw, e.end, 4)
  <2>1. Found(e, raw, pos)
    BY <1>0, ReadFinds
  <2>2. es = <<e>> \o rest
    BY <1>0, ElementsAre
  <2> HIDE DEF e
  <2>3. e \in ElementSet /\ pos < e.end /\ e.end <= Len(raw) + 1
    BY <2>1 DEF Found
  <2>4. e.end \in 1..Len(raw) + 1
    <3>1. e.end \in Nat
      BY <2>3 DEF ElementSet
    <3>2. QED
      BY <1>0, <1>1, <2>3, <3>1
  <2>5. rest \in Seq(ElementSet)
    BY <1>0, <2>4, ElementsAre
  <2> HIDE DEF rest, es
  <2>6. Len(es) = Len(rest) + 1 /\ Len(rest) \in Nat
    BY <2>2, <2>3, <2>5, RestOf
  <2>7. Len(es) = 0
    BY DEF es
  <2>8. QED
    BY <2>6, <2>7, LengthPlusOne
<1>4. w[at] = FoundAt(w, at)
  BY <1>2 DEF Gathers
<1>5. FoundAt(w, at) = << >>
  BY <1>2, <1>3 DEF FoundAt
<1>6. QED
  BY <1>4, <1>5

\* Where there are elements the first gives its part and the rest follows.
GatheredFirst(w, raw, pos, named) ==
    LET es == Elements(raw, pos, 4) IN
    \E next \in 1..Len(raw) + 1 :
        /\ Elements(raw, next, 4) = Tail(es)
        /\ w[Place(raw, pos, named)] =
               Given(w, es[1], named) \o w[Place(raw, next, es[1].tag = 6)]
        /\ w[Place(raw, next, es[1].tag = 6)] \in ValueLists
        /\ Tail(es) \in Seq(ElementSet) /\ Len(es) = Len(Tail(es)) + 1
        /\ Len(Tail(es)) \in Nat /\ es[1] \in ElementSet
        /\ \A i \in 1..Len(Tail(es)) : es[i + 1] = Tail(es)[i]

\* The first element gives its part, the others what they give.
LEMMA GatherStep ==
  ASSUME NEW w, Gathers(w), NEW raw \in Seq(Byte), NEW pos \in 1..Len(raw) + 1,
         NEW named \in BOOLEAN, Len(Elements(raw, pos, 4)) # 0
  PROVE  GatheredFirst(w, raw, pos, named)
<1> DEFINE e == ReadTlv(raw, pos, 4)
           at == Place(raw, pos, named)
           es == Elements(raw, pos, 4)
           next == e.end
           rest == Elements(raw, next, 4)
           six == e.tag = 6
           made == (e.tag \div 32) % 2 = 1
           to == w[Place(raw, next, six)]
<1>0. Len(raw) \in Nat /\ 4 \in Widths
  BY LenProperties, TagBytes
<1>1. pos \in Nat /\ pos # 0
  BY <1>0
<1>2. at \in Places /\ at.raw = raw /\ at.pos = pos /\ at.named = named
  BY <1>1, PlaceType DEF Place
<1>3. e.ok
  <2> SUFFICES ASSUME ~e.ok PROVE FALSE
    OBVIOUS
  <2>1. es = << >>
    BY <1>0, ElementsAre
  <2>2. Len(<< >>) = 0
    OBVIOUS
  <2>3. QED
    BY <2>1, <2>2
<1>4. es = <<e>> \o rest
  BY <1>0, <1>3, ElementsAre
<1>5. Found(e, raw, pos)
  BY <1>0, ReadFinds
<1>6. FoundAt(w, at) = IF six THEN w[Place(raw, next, TRUE)]
                       ELSE IF made THEN w[Place(e.value, 1, FALSE)] \o w[Place(raw, next, FALSE)]
                       ELSE When(named, ValueAfterName(e.tag, e.value)) \o w[Place(raw, next, FALSE)]
  BY <1>2, <1>3 DEF FoundAt
<1>7. Given(w, e, named) = IF six THEN << >>
                           ELSE IF made THEN w[Place(e.value, 1, FALSE)]
                           ELSE When(named, ValueAfterName(e.tag, e.value))
  BY DEF Given
<1>8. w[at] = FoundAt(w, at)
  BY <1>2 DEF Gathers
<1> HIDE DEF e
<1>9. e \in ElementSet /\ pos < next /\ next <= Len(raw) + 1
  BY <1>3, <1>5 DEF Found
<1>10. next \in 1..Len(raw) + 1 /\ next \in Nat /\ next # 0
  <2>1. next \in Nat
    BY <1>9 DEF ElementSet
  <2>2. QED
    BY <1>0, <1>1, <1>9, <2>1
<1>11. rest \in Seq(ElementSet)
  BY <1>0, <1>10, ElementsAre
<1> HIDE DEF next
<1>12. ASSUME NEW b \in BOOLEAN PROVE w[Place(raw, next, b)] \in ValueLists
  <2>1. Place(raw, next, b) \in Places
    BY <1>10, PlaceType
  <2>2. QED
    BY <2>1 DEF Gathers
<1>13. to \in ValueLists
  <2>1. six \in BOOLEAN
    OBVIOUS
  <2>2. QED
    BY <1>12, <2>1
<1>14. w[at] = Given(w, e, named) \o to
  <2> HIDE DEF at
  <2>1. CASE six
    <3> DEFINE x == w[Place(raw, next, TRUE)]
    <3>1. six = TRUE
      BY <2>1
    <3>2. to = x /\ w[at] = x /\ Given(w, e, named) = << >>
      BY <1>6, <1>7, <1>8, <3>1
    <3>3. x \in ValueLists
      BY <1>12
    <3> HIDE DEF x, to, six
    <3>4. x \in Seq(Seq(Int))
      BY <3>3 DEF ValueLists
    <3>5. << >> \o x = x
      BY <3>4
    <3>6. QED
      BY <3>2, <3>5
  <2>2. CASE ~six
    <3>1. six = FALSE
      BY <2>2
    <3>2. to = w[Place(raw, next, FALSE)]
      BY <3>1
    <3> DEFINE a == w[Place(raw, next, FALSE)]
               b == w[Place(e.value, 1, FALSE)]
               c == When(named, ValueAfterName(e.tag, e.value))
    <3>3. FoundAt(w, at) = (IF made THEN b \o a ELSE c \o a)
          /\ Given(w, e, named) = (IF made THEN b ELSE c) /\ to = a
      BY <1>6, <1>7, <2>2, <3>2
    <3> HIDE DEF a, b, c, to, made
    <3>4. CASE made
      BY <1>8, <3>3, <3>4
    <3>5. CASE ~made
      BY <1>8, <3>3, <3>5
    <3>6. QED
      BY <3>4, <3>5
  <2>3. QED
    BY <2>1, <2>2
<1> HIDE DEF rest, es
<1>15. /\ es[1] = e /\ Tail(es) = rest /\ Len(rest) \in Nat /\ Len(es) = Len(rest) + 1
       /\ \A i \in 1..Len(rest) : es[i + 1] = rest[i]
  BY <1>4, <1>9, <1>11, RestOf
<1>16. w[at] = Given(w, es[1], named) \o w[Place(raw, next, es[1].tag = 6)]
       /\ w[Place(raw, next, es[1].tag = 6)] \in ValueLists
  BY <1>13, <1>14, <1>15
<1>17. /\ Elements(raw, next, 4) = Tail(es) /\ es[1] \in ElementSet
       /\ Tail(es) \in Seq(ElementSet) /\ Len(es) = Len(Tail(es)) + 1
       /\ Len(Tail(es)) \in Nat
       /\ \A i \in 1..Len(Tail(es)) : es[i + 1] = Tail(es)[i]
  <2>1. Elements(raw, next, 4) = rest
    BY DEF rest
  <2>2. QED
    BY <1>9, <1>11, <1>15, <2>1
<1> HIDE DEF at, to, six, made
<1>18. QED
  BY <1>10, <1>16, <1>17, Zenon DEF GatheredFirst, es, at

\* One less than one.
LEMMA OneLess == \A m : \A n \in Nat : m = 1 /\ m = n + 1 => n = 0
  OBVIOUS

Primitive(e) == e.tag # 6 /\ (e.tag \div 32) % 2 # 1
Inner(w, e) == w[Place(e.value, 1, FALSE)]

\* The last element holds others, those before it say nothing.
NothingSaid(es, k) ==
    /\ Len(es) = k + 1 /\ es[k + 1].tag # 6 /\ (es[k + 1].tag \div 32) % 2 = 1
    /\ \A i \in 1..k : Primitive(es[i])

\* What an element holds is a list of values.
LEMMA InnerType ==
  ASSUME NEW w, Gathers(w), NEW e \in ElementSet
  PROVE  Inner(w, e) \in ValueLists
<1>1. e.value \in Seq(Byte) /\ 1 \in Nat /\ 1 # 0 /\ FALSE \in BOOLEAN
  BY DEF ElementSet
<1>2. Place(e.value, 1, FALSE) \in Places
  BY <1>1, PlaceType
<1>3. QED
  BY <1>2 DEF Gathers, Inner

\* No values before or behind others.
LEMMA ValuesEnds ==
  ASSUME NEW x \in ValueLists
  PROVE  << >> \o x = x /\ x \o << >> = x
<1>1. x \in Seq(Seq(Int))
  BY DEF ValueLists
<1>2. QED
  BY <1>1

\* Behind elements that say nothing the last one says all.
LEMMA GatherQuiet ==
  ASSUME NEW w, Gathers(w), NEW raw \in Seq(Byte), NEW k \in Nat, NEW pos \in 1..Len(raw) + 1,
         NothingSaid(Elements(raw, pos, 4), k)
  PROVE  w[Place(raw, pos, FALSE)] = Inner(w, Elements(raw, pos, 4)[k + 1])
<1> DEFINE P == 1..Len(raw) + 1
           E(p) == Elements(raw, p, 4)
           Good(p, n) == NothingSaid(E(p), n) => w[Place(raw, p, FALSE)] = Inner(w, E(p)[n + 1])
           Ready == {n \in Nat : \A p \in P : Good(p, n)}
<1>0. FALSE \in BOOLEAN
  OBVIOUS
<1>1. 0 \in Ready
  <2>b. 0 \in Ready <=> \A p \in P : Good(p, 0)
    <3> HIDE DEF Good
    <3>1. QED
      OBVIOUS
  <2> SUFFICES ASSUME NEW p \in P, NothingSaid(E(p), 0)
               PROVE  w[Place(raw, p, FALSE)] = Inner(w, E(p)[0 + 1])
    BY <2>b, Zenon
  <2> DEFINE es == E(p)
             v == Inner(w, es[1])
             rest == Tail(es)
  <2>1. Len(es) = 1 /\ es[1].tag # 6 /\ (es[1].tag \div 32) % 2 = 1
    BY DEF NothingSaid
  <2>a. Len(es) # 0
    BY <2>1
  <2>2. GatheredFirst(w, raw, p, FALSE)
    BY <1>0, <2>a, GatherStep
  <2>3. PICK next \in P : /\ E(next) = Tail(es) /\ es[1] \in ElementSet
                          /\ w[Place(raw, p, FALSE)] =
                                Given(w, es[1], FALSE) \o w[Place(raw, next, es[1].tag = 6)]
                          /\ Len(es) = Len(rest) + 1 /\ Len(rest) \in Nat
    BY <2>2, Zenon DEF GatheredFirst
  <2>4. (es[1].tag = 6) = FALSE /\ Given(w, es[1], FALSE) = v
    BY <2>1 DEF Given, Inner
  <2>5. Len(E(next)) = 0
    <3> HIDE DEF rest
    <3>1. Len(rest) = 0
      BY <2>1, <2>3, OneLess
    <3>2. E(next) = rest
      BY <2>3 DEF rest
    <3>3. QED
      BY <3>1, <3>2
  <2>6. w[Place(raw, next, FALSE)] = << >>
    BY <1>0, <2>5, GatherNone
  <2>7. v \in ValueLists
    BY <2>3, InnerType
  <2> HIDE DEF es, v
  <2>8. w[Place(raw, p, FALSE)] = v \o << >>
    BY <2>3, <2>4, <2>6
  <2>9. v \o << >> = v
    BY <2>7, ValuesEnds
  <2>10. QED
    BY <2>8, <2>9 DEF es, v
<1>2. ASSUME NEW n \in Nat, n \in Ready PROVE n + 1 \in Ready
  <2>a. n + 1 \in Ready <=> \A p \in P : Good(p, n + 1)
    <3> HIDE DEF Good
    <3>1. QED
      OBVIOUS
  <2> SUFFICES ASSUME NEW p \in P, NothingSaid(E(p), n + 1)
               PROVE  w[Place(raw, p, FALSE)] = Inner(w, E(p)[(n + 1) + 1])
    BY <2>a, Zenon
  <2> DEFINE es == E(p)
             rest == Tail(es)
             m == n + 1
  <2>1. /\ Len(es) = m + 1 /\ es[m + 1].tag # 6 /\ (es[m + 1].tag \div 32) % 2 = 1
        /\ \A i \in 1..m : Primitive(es[i])
    BY DEF NothingSaid
  <2>2. m \in Nat /\ 1 \in 1..m /\ Len(es) # 0
    BY <2>1
  <2>3. GatheredFirst(w, raw, p, FALSE)
    BY <1>0, <2>2, GatherStep
  <2>4. PICK next \in P : /\ E(next) = rest
                          /\ w[Place(raw, p, FALSE)] =
                                Given(w, es[1], FALSE) \o w[Place(raw, next, es[1].tag = 6)]
                          /\ w[Place(raw, next, es[1].tag = 6)] \in ValueLists
                          /\ Len(es) = Len(rest) + 1 /\ Len(rest) \in Nat
                          /\ \A i \in 1..Len(rest) : es[i + 1] = rest[i]
    BY <2>3, Zenon DEF GatheredFirst
  <2>5. Primitive(es[1])
    BY <2>1, <2>2
  <2>6. (es[1].tag = 6) = FALSE /\ Given(w, es[1], FALSE) = << >>
    BY <2>5 DEF Primitive, Given, When
  <2> DEFINE x == w[Place(raw, next, FALSE)]
  <2>7. x \in ValueLists /\ w[Place(raw, p, FALSE)] = << >> \o x
    BY <2>4, <2>6
  <2>8. w[Place(raw, p, FALSE)] = x
    BY <2>7, ValuesEnds
  <2> HIDE DEF es, rest
  <2>9. Len(rest) = n + 1 /\ \A i \in 1..(n + 1) : rest[i] = es[i + 1]
    BY <2>1, <2>4
  <2>10. NothingSaid(rest, n)
    <3>1. rest[n + 1] = es[(n + 1) + 1]
      BY <2>9
    <3>2. \A i \in 1..n : rest[i] = es[i + 1] /\ i + 1 \in 1..m
      BY <2>9
    <3>3. \A i \in 1..n : Primitive(rest[i])
      BY <2>1, <3>2
    <3>4. rest[n + 1].tag # 6 /\ (rest[n + 1].tag \div 32) % 2 = 1
      BY <2>1, <3>1
    <3>5. QED
      BY <2>9, <3>3, <3>4 DEF NothingSaid
  <2>11. x = Inner(w, rest[n + 1])
    BY <1>2, <2>4, <2>10
  <2>12. rest[n + 1] = es[(n + 1) + 1]
    BY <2>9
  <2>13. QED
    BY <2>8, <2>11, <2>12 DEF es
<1> HIDE DEF Ready
<1>3. \A n \in Nat : n \in Ready
  BY <1>1, <1>2, Induct
<1>4. k \in Ready
  BY <1>3
<1>5. QED
  BY <1>4 DEF Ready

\* The values of one varbind each, put together.
Collects(t, h, n) ==
    /\ t \in ValueLists /\ Len(t) \in Nat /\ Len(t) <= n
    /\ (\A i \in 1..n : Len(h[i]) = 1) => Len(t) = n /\ \A i \in 1..n : t[i] = h[i][1]
    /\ (\E i \in 1..n : Len(h[i]) = 0) => Len(t) < n

\* The values of one varbind, and of those behind it.
LEMMA CollectOne ==
  ASSUME NEW n \in Nat, NEW h, NEW g, NEW t, Collects(t, h, n),
         g[1] \in ValueLists, Len(g[1]) <= 1, \A i \in 1..n : g[i + 1] = h[i]
  PROVE  Collects(g[1] \o t, g, n + 1)
<1> DEFINE a == g[1]
           u == a \o t
<1>1. /\ t \in ValueLists /\ Len(t) \in Nat /\ Len(t) <= n
      /\ (\A i \in 1..n : Len(h[i]) = 1) => Len(t) = n /\ \A i \in 1..n : t[i] = h[i][1]
      /\ (\E i \in 1..n : Len(h[i]) = 0) => Len(t) < n
  BY DEF Collects
<1>2. /\ u \in ValueLists /\ Len(u) = Len(a) + Len(t) /\ Len(a) \in Nat /\ Len(a) <= 1
      /\ \A i \in 1..Len(a) : u[i] = a[i]
      /\ \A i \in 1..Len(t) : u[Len(a) + i] = t[i]
  <2> HIDE DEF u
  <2>1. a \in Seq(Seq(Int)) /\ t \in Seq(Seq(Int))
    BY <1>1 DEF ValueLists
  <2> HIDE DEF a
  <2>2. QED
    BY <2>1, Joined DEF ValueLists, u, a
<1>3. Len(u) \in Nat /\ Len(u) <= n + 1
  <2> HIDE DEF a, u
  <2>1. QED
    BY <1>1, <1>2
<1> DEFINE l(i) == Len(g[i])
           e(i) == Len(h[i])
<1>4. (\A i \in 1..n : l(i + 1) = e(i)) /\ l(1) = Len(a)
  OBVIOUS
<1>5. ASSUME \A i \in 1..(n + 1) : l(i) = 1
      PROVE  Len(u) = n + 1 /\ \A i \in 1..(n + 1) : u[i] = g[i][1]
  <2>1. \A i \in 1..n : e(i) = 1
    <3> HIDE DEF l, e
    <3>1. QED
      BY <1>4, <1>5
  <2>2. Len(t) = n /\ \A i \in 1..n : t[i] = h[i][1]
    BY <1>1, <2>1
  <2>3. l(1) = 1
    <3> HIDE DEF l
    <3>1. 1 \in 1..(n + 1)
      OBVIOUS
    <3>2. QED
      BY <1>5, <3>1
  <2>4. Len(a) = 1
    BY <1>4, <2>3
  <2>5. u[1] = a[1]
    <3> HIDE DEF u, a
    <3>1. 1 \in 1..Len(a)
      BY <2>4
    <3>2. QED
      BY <1>2, <3>1
  <2>6. \A i \in 1..n : u[1 + i] = h[i][1] /\ h[i] = g[i + 1]
    <3> HIDE DEF u, a
    <3>1. \A i \in 1..n : u[1 + i] = t[i]
      BY <1>2, <2>2, <2>4
    <3>2. QED
      BY <2>2, <3>1
  <2> HIDE DEF u
  <2>7. ASSUME NEW i \in 1..(n + 1) PROVE u[i] = g[i][1]
    <3>1. CASE i = 1
      BY <2>5, <3>1
    <3>2. CASE i # 1
      <4> DEFINE j == i - 1
      <4>1. j \in 1..n /\ 1 + j = i /\ j + 1 = i
        BY <3>2
      <4> HIDE DEF j
      <4>2. u[1 + j] = h[j][1] /\ h[j] = g[j + 1]
        BY <2>6, <4>1
      <4>3. QED
        BY <4>1, <4>2
    <3>3. QED
      BY <3>1, <3>2
  <2>8. Len(u) = n + 1
    <3> HIDE DEF a
    <3>1. QED
      BY <1>2, <2>2, <2>4
  <2>9. QED
    BY <2>7, <2>8
<1>6. ASSUME NEW i \in 1..(n + 1), l(i) = 0 PROVE Len(u) < n + 1
  <2>1. CASE i = 1
    <3>1. Len(a) = 0
      BY <1>4, <1>6, <2>1
    <3> HIDE DEF a, u
    <3>2. QED
      BY <1>1, <1>2, <3>1
  <2>2. CASE i # 1
    <3> DEFINE j == i - 1
    <3>1. j \in 1..n /\ j + 1 = i
      BY <2>2
    <3> HIDE DEF j
    <3>2. e(j) = 0
      BY <1>4, <1>6, <3>1
    <3>3. Len(t) < n
      BY <1>1, <3>1, <3>2
    <3> HIDE DEF a, u
    <3>4. QED
      BY <1>1, <1>2, <3>3
  <2>3. QED
    BY <2>1, <2>2
<1>7. QED
  BY <1>2, <1>3, <1>5, <1>6, Zenon DEF Collects

\* Elements that each hold one value at most.
Singles(w, es) == \A i \in 1..Len(es) : es[i].tag = 48 /\ Len(Inner(w, es[i])) <= 1
Inners(w, es) == [i \in 1..Len(es) |-> Inner(w, es[i])]

\* One less than two.
LEMMA TwoLess == \A m : \A n \in Nat : m = 2 /\ m = n + 1 => n = 1
  OBVIOUS

\* A sequence holds other elements.
LEMMA Sequence48 == 48 # 6 /\ (48 \div 32) % 2 = 1
  OBVIOUS

\* The values of a list are those of its varbinds.
LEMMA GatherList ==
  ASSUME NEW w, Gathers(w), NEW raw \in Seq(Byte), NEW pos \in 1..Len(raw) + 1,
         NEW n \in Nat, Len(Elements(raw, pos, 4)) = n, Singles(w, Elements(raw, pos, 4))
  PROVE  Collects(w[Place(raw, pos, FALSE)], Inners(w, Elements(raw, pos, 4)), n)
<1> DEFINE P == 1..Len(raw) + 1
           E(p) == Elements(raw, p, 4)
           Good(p, k) == Len(E(p)) = k /\ Singles(w, E(p))
                            => Collects(w[Place(raw, p, FALSE)], Inners(w, E(p)), k)
           Ready == {k \in Nat : \A p \in P : Good(p, k)}
<1>0. FALSE \in BOOLEAN
  OBVIOUS
<1>1. 0 \in Ready
  <2>b. 0 \in Ready <=> \A p \in P : Good(p, 0)
    <3> HIDE DEF Good
    <3>1. QED
      OBVIOUS
  <2> SUFFICES ASSUME NEW p \in P, Len(E(p)) = 0
               PROVE  Collects(w[Place(raw, p, FALSE)], Inners(w, E(p)), 0)
    BY <2>b, Zenon
  <2>1. w[Place(raw, p, FALSE)] = << >>
    BY <1>0, GatherNone
  <2> DEFINE h == Inners(w, E(p))
             t == << >>
  <2>2. t \in ValueLists /\ Len(t) = 0
    BY EmptySeq DEF ValueLists
  <2> HIDE DEF h, t
  <2>3. Collects(t, h, 0)
    <3>1. ~\E i \in 1..0 : TRUE
      OBVIOUS
    <3>2. QED
      BY <2>2, <3>1 DEF Collects
  <2>4. QED
    BY <2>1, <2>3 DEF h, t
<1>2. ASSUME NEW k \in Nat, k \in Ready PROVE k + 1 \in Ready
  <2>a. k + 1 \in Ready <=> \A p \in P : Good(p, k + 1)
    <3> HIDE DEF Good
    <3>1. QED
      OBVIOUS
  <2> SUFFICES ASSUME NEW p \in P, Len(E(p)) = k + 1, Singles(w, E(p))
               PROVE  Collects(w[Place(raw, p, FALSE)], Inners(w, E(p)), k + 1)
    BY <2>a, Zenon
  <2> DEFINE es == E(p)
             rest == Tail(es)
             g == Inners(w, es)
             h == Inners(w, rest)
  <2>1. Len(es) # 0
    BY LengthPlusOne
  <2>2. GatheredFirst(w, raw, p, FALSE)
    BY <1>0, <2>1, GatherStep
  <2>3. PICK next \in P : /\ E(next) = rest
                          /\ w[Place(raw, p, FALSE)] =
                                Given(w, es[1], FALSE) \o w[Place(raw, next, es[1].tag = 6)]
                          /\ Len(es) = Len(rest) + 1 /\ Len(rest) \in Nat
                          /\ es[1] \in ElementSet
                          /\ \A i \in 1..Len(rest) : es[i + 1] = rest[i]
    BY <2>2, Zenon DEF GatheredFirst
  <2>4. \A i \in 1..(k + 1) : es[i].tag = 48 /\ Len(Inner(w, es[i])) <= 1
    BY DEF Singles
  <2>5. Len(es) = k + 1 /\ E(p) = es
    OBVIOUS
  <2>6. g = [i \in 1..(k + 1) |-> Inner(w, es[i])]
    BY <2>5 DEF Inners
  <2> HIDE DEF es, E
  <2>7. Len(rest) = k /\ 1 \in 1..(k + 1)
    BY <2>3, <2>5, SMT
  <2>8. es[1].tag = 48
    BY <2>4, <2>7
  <2>9. (es[1].tag = 6) = FALSE /\ Given(w, es[1], FALSE) = Inner(w, es[1])
    BY <2>8, Sequence48 DEF Given, Inner
  <2> DEFINE t == w[Place(raw, next, FALSE)]
  <2>10. w[Place(raw, p, FALSE)] = Inner(w, es[1]) \o t
    BY <2>3, <2>9
  <2>11. \A i \in 1..k : es[i + 1] = rest[i] /\ i + 1 \in 1..(k + 1)
    BY <2>3, <2>7, SMTT(40)
  <2> HIDE DEF rest
  <2>12. Singles(w, rest)
    <3>1. \A i \in 1..k : rest[i].tag = 48 /\ Len(Inner(w, rest[i])) <= 1
      <4> TAKE i \in 1..k
      <4>1. rest[i] = es[i + 1] /\ i + 1 \in 1..(k + 1)
        BY <2>11
      <4>2. es[i + 1].tag = 48 /\ Len(Inner(w, es[i + 1])) <= 1
        BY <2>4, <4>1
      <4>3. QED
        BY <4>1, <4>2
    <3>2. QED
      BY <2>7, <3>1 DEF Singles
  <2>13. Collects(t, h, k)
    <3>1. Len(E(next)) = k /\ Singles(w, E(next)) /\ Good(next, k)
      <4>1. Good(next, k)
        <5> HIDE DEF Good
        <5>1. QED
          BY <1>2
      <4>2. QED
        BY <2>3, <2>7, <2>12, <4>1
    <3>2. QED
      BY <2>3, <3>1, Zenon
  <2>14. h = [i \in 1..k |-> Inner(w, rest[i])]
    BY <2>7 DEF Inners
  <2> HIDE DEF g, h, t
  <2>15. g[1] = Inner(w, es[1]) /\ \A i \in 1..k : g[i + 1] = h[i]
    <3>1. g[1] = Inner(w, es[1])
      BY <2>6, <2>7
    <3>2. \A i \in 1..k : g[i + 1] = Inner(w, es[i + 1]) /\ h[i] = Inner(w, rest[i])
      BY <2>6, <2>11, <2>14
    <3>3. QED
      BY <2>11, <3>1, <3>2
  <2>16. g[1] \in ValueLists /\ Len(g[1]) <= 1
    BY <2>3, <2>4, <2>7, <2>15, InnerType
  <2>17. Collects(g[1] \o t, g, k + 1)
    BY <2>13, <2>15, <2>16, CollectOne
  <2>18. QED
    BY <2>5, <2>10, <2>15, <2>17 DEF g
<1> HIDE DEF Ready
<1>3. \A k \in Nat : k \in Ready
  BY <1>1, <1>2, Induct
<1>4. n \in Ready
  BY <1>3
<1>5. QED
  BY <1>4 DEF Ready

\* All that is found in a text.
AllIn(w, raw) == w[Place(raw, 1, FALSE)]

\* What one varbind of an answer gives.
LEMMA PairGives ==
  ASSUME NEW w, Gathers(w), NEW raw \in Seq(Byte), NEW name, NEW tag \in Byte,
         (tag \div 32) % 2 = 0, NEW value, PairSeen(Elements(raw, 1, 4), name, tag, value)
  PROVE  AllIn(w, raw) = IF tag = 6 THEN << >> ELSE ValueAfterName(tag, value)
<1> DEFINE es == Elements(raw, 1, 4)
           rest == Tail(es)
           last == Tail(rest)
           P == 1..Len(raw) + 1
<1>0. FALSE \in BOOLEAN /\ TRUE \in BOOLEAN
  OBVIOUS
<1>1. /\ es \in Seq(ElementSet) /\ Len(es) = 2
      /\ es[1].tag = 6 /\ es[2].tag = tag /\ es[2].value = value
  BY DEF PairSeen
<1>2. 1 \in P /\ Len(es) # 0
  <2>1. Len(raw) \in Nat
    BY LenProperties
  <2>2. Len(es) # 0
    BY <1>1
  <2>3. QED
    BY <2>1, <2>2
<1>3. GatheredFirst(w, raw, 1, FALSE)
  BY <1>0, <1>2, GatherStep
<1>4. PICK next \in P : /\ Elements(raw, next, 4) = rest
                        /\ w[Place(raw, 1, FALSE)] =
                              Given(w, es[1], FALSE) \o w[Place(raw, next, es[1].tag = 6)]
                        /\ w[Place(raw, next, es[1].tag = 6)] \in ValueLists
                        /\ Len(es) = Len(rest) + 1 /\ Len(rest) \in Nat
                        /\ \A i \in 1..Len(rest) : es[i + 1] = rest[i]
  BY <1>3, Zenon DEF GatheredFirst
<1> HIDE DEF es, rest
<1>5. Len(rest) = 1 /\ rest[1].tag = tag /\ rest[1].value = value
  <2>1. Len(rest) = 1
    BY <1>1, <1>4, TwoLess
  <2>2. rest[1] = es[2]
    <3>1. 1 \in 1..Len(rest) /\ 1 + 1 = 2
      BY <2>1
    <3>2. QED
      BY <1>4, <3>1
  <2>3. QED
    BY <1>1, <2>1, <2>2
<1> DEFINE t == w[Place(raw, next, TRUE)]
<1>6. w[Place(raw, 1, FALSE)] = t
  <2>1. (es[1].tag = 6) = TRUE /\ Given(w, es[1], FALSE) = << >>
    BY <1>1 DEF Given
  <2>2. t \in ValueLists /\ w[Place(raw, 1, FALSE)] = << >> \o t
    BY <1>4, <2>1
  <2> HIDE DEF t
  <2>3. QED
    BY <2>2, ValuesEnds
<1>7. GatheredFirst(w, raw, next, TRUE)
  <2>1. Len(Elements(raw, next, 4)) # 0
    <3>1. Elements(raw, next, 4) = rest
      BY <1>4
    <3>2. Len(rest) # 0
      BY <1>5
    <3>3. QED
      BY <3>1, <3>2
  <2>2. QED
    BY <1>0, <2>1, GatherStep
<1>8. PICK far \in P : /\ Elements(raw, far, 4) = last
                       /\ t = Given(w, rest[1], TRUE) \o w[Place(raw, far, rest[1].tag = 6)]
                       /\ Len(rest) = Len(last) + 1 /\ Len(last) \in Nat
                       /\ rest[1] \in ElementSet
  <2>1. PICK far \in P :
            /\ Elements(raw, far, 4) = Tail(Elements(raw, next, 4))
            /\ w[Place(raw, next, TRUE)] =
                   Given(w, Elements(raw, next, 4)[1], TRUE)
                   \o w[Place(raw, far, Elements(raw, next, 4)[1].tag = 6)]
            /\ Len(Elements(raw, next, 4)) = Len(Tail(Elements(raw, next, 4))) + 1
            /\ Len(Tail(Elements(raw, next, 4))) \in Nat
            /\ Elements(raw, next, 4)[1] \in ElementSet
    BY <1>7, Zenon DEF GatheredFirst
  <2>2. QED
    BY <1>4, <2>1
<1> HIDE DEF last, t
<1>9. Len(last) = 0
  BY <1>5, <1>8, OneLess
<1>10. \A b \in BOOLEAN : w[Place(raw, far, b)] = << >>
  BY <1>8, <1>9, GatherNone
<1> DEFINE v == IF tag = 6 THEN << >> ELSE ValueAfterName(tag, value)
<1>11. Given(w, rest[1], TRUE) = v
  <2>1. ~((tag \div 32) % 2 = 1)
    OBVIOUS
  <2> DEFINE b == rest[1]
             made == (b.tag \div 32) % 2 = 1
             y == ValueAfterName(b.tag, b.value)
  <2>2. Given(w, b, TRUE) = IF b.tag = 6 THEN << >> ELSE IF made THEN w[Place(b.value, 1, FALSE)]
                                                         ELSE When(TRUE, y)
    BY DEF Given
  <2>3. When(TRUE, y) = y
    BY DEF When
  <2>4. b.tag = tag /\ ~made /\ y = ValueAfterName(tag, value)
    BY <1>5, <2>1
  <2> HIDE DEF b, made, y
  <2>5. Given(w, b, TRUE) = v
    BY <2>2, <2>3, <2>4 DEF v
  <2>6. QED
    BY <2>5 DEF b
<1>12. v \in ValueLists
  <2>1. value \in Seq(Byte)
    BY <1>5, <1>8 DEF ElementSet
  <2>2. ValueAfterName(tag, value) \in ValueLists /\ << >> \in ValueLists
    BY <2>1, AfterNameType, EmptySeq DEF ValueLists
  <2>3. QED
    BY <2>2
<1> HIDE DEF v
<1>13. t = v \o << >>
  BY <1>8, <1>10, <1>11
<1>14. t = v
  BY <1>12, <1>13, ValuesEnds
<1>15. QED
  BY <1>6, <1>14 DEF v, AllIn

\* What follows a name is the value that was given.
LEMMA ValueGiven ==
  ASSUME NEW v, RawSeen(v, Raw(v))
  PROVE  (IF v.tag = 6 THEN << >> ELSE ValueAfterName(v.tag, Raw(v)))
            = IF HasValue(v) THEN <<Expected(v)>> ELSE << >>
<1> DEFINE raw == Raw(v)
<1>1. /\ v.tag \notin IntegerTags => raw = v.text
      /\ v.tag \in IntegerTags =>
            Len(raw) \in 1..8 /\ (v.tag = 2 => Signed(raw) = v.int)
            /\ (v.tag # 2 => Unsigned(raw) = v.int)
  BY DEF RawSeen
<1>2. 4 \notin IntegerTags /\ 6 \notin IntegerTags /\ \A n \in 1..8 : n \in 1..9
  BY DEF IntegerTags
<1>3. HasValue(v) <=> v.tag \in IntegerTags \/ v.tag = 4
  BY DEF HasValue
<1>4. Expected(v) = IF v.tag # 4 THEN <<v.int>>
                     ELSE IF ValidUtf8(v.text) THEN Characters(v.text) ELSE v.text
  BY DEF Expected
<1>5. ValueAfterName(v.tag, raw) =
         IF v.tag = 4 THEN <<IF ValidUtf8(raw) THEN Characters(raw) ELSE raw>>
         ELSE IF v.tag \in IntegerTags /\ Len(raw) \in 1..9
              THEN <<<<IF v.tag = 2 THEN Signed(raw) ELSE Unsigned(raw)>>>> ELSE << >>
  BY DEF ValueAfterName
<1> HIDE DEF raw
<1>6. CASE v.tag = 4
  <2>1. v.tag # 6 /\ raw = v.text
    BY <1>1, <1>2, <1>6
  <2>2. QED
    BY <1>3, <1>4, <1>5, <1>6, <2>1 DEF raw
<1>7. CASE v.tag \in IntegerTags
  <2>1. v.tag # 6 /\ v.tag # 4 /\ Len(raw) \in 1..9
    BY <1>1, <1>2, <1>7
  <2>2. (IF v.tag = 2 THEN Signed(raw) ELSE Unsigned(raw)) = v.int
    BY <1>1, <1>7
  <2>3. ValueAfterName(v.tag, raw) = <<<<v.int>>>>
    BY <1>5, <1>7, <2>1, <2>2
  <2>4. QED
    BY <1>3, <1>4, <1>7, <2>1, <2>3 DEF raw
<1>8. CASE v.tag # 4 /\ v.tag \notin IntegerTags
  BY <1>3, <1>5, <1>8 DEF raw
<1>9. QED
  BY <1>6, <1>7, <1>8

\* The same of a whole text.
LEMMA QuietFrom ==
  ASSUME NEW w, Gathers(w), NEW raw \in Seq(Byte), NEW es, es = Elements(raw, 1, 4),
         NEW k \in Nat, NothingSaid(es, k), NEW n, n = k + 1
  PROVE  AllIn(w, raw) = AllIn(w, es[n].value)
<1>1. 1 \in 1..Len(raw) + 1
  <2>1. Len(raw) \in Nat
    BY LenProperties
  <2>2. QED
    BY <2>1
<1>2. NothingSaid(Elements(raw, 1, 4), k)
  OBVIOUS
<1>3. w[Place(raw, 1, FALSE)] = Inner(w, Elements(raw, 1, 4)[k + 1])
  BY <1>1, <1>2, GatherQuiet
<1>4. QED
  BY <1>3 DEF AllIn, Inner

\* Which elements hold others.
LEMMA TagKinds ==
  /\ 2 # 6 /\ (2 \div 32) % 2 # 1 /\ 4 # 6 /\ (4 \div 32) % 2 # 1
  /\ 162 # 6 /\ (162 \div 32) % 2 = 1
  OBVIOUS

\* From the message on, the values of its PDU.
LEMMA MessageGathered ==
  ASSUME NEW w, Gathers(w), NEW community \in Seq(Byte), NEW pdu \in Fit,
         Len(Message(1, community, 162, pdu)) <= Datagram
  PROVE  /\ AllIn(w, Message(1, community, 162, pdu)) = AllIn(w, pdu)
         /\ pdu \in Seq(Byte) /\ Len(pdu) <= Datagram
<1> DEFINE data == Message(1, community, 162, pdu)
           body == MessageBody(1, community, 162, pdu)
           parts == MessageParts(1, community, 162, pdu)
           top == Elements(data, 1, 4)
           msg == Elements(body, 1, 4)
           one == <<Item(48, body)>>
<1>0. 1 \in Byte /\ 162 \in Byte /\ 4 \in Widths
  BY TagBytes
<1>1. MessageSeen(data, body, parts, pdu, 4)
  BY <1>0, MessageRead
<1>2. /\ Len(parts) = 3 /\ parts[1] = Item(2, <<1>>) /\ parts[2] = Item(4, community)
      /\ parts[3] = Item(162, pdu)
  BY DEF MessageParts
<1>3. Len(one) = 1 /\ one[1] = Item(48, body)
  OBVIOUS
<1> HIDE DEF data, body, parts
<1>4. /\ data \in Seq(Byte) /\ body \in Seq(Byte) /\ pdu \in Seq(Byte)
      /\ Len(pdu) <= Datagram
      /\ Like(msg, parts, Len(body) + 1) /\ Like(top, one, Len(data) + 1)
  BY <1>1 DEF MessageSeen
<1>5. /\ 1 \in 1..Len(data) + 1 /\ 1 \in 1..Len(body) + 1
  <2>1. Len(data) \in Nat /\ Len(body) \in Nat
    BY <1>4, LenProperties
  <2>2. QED
    BY <2>1
<1> HIDE DEF top, msg, one
<1>6. Len(top) = 1 /\ top[1].tag = 48 /\ top[1].value = body
  <2>1. Len(top) = 1 /\ HasItem(top[1], one[1])
    BY <1>3, <1>4 DEF Like
  <2>2. QED
    BY <1>3, <2>1 DEF HasItem, Item
<1>7. /\ Len(msg) = 3 /\ msg[1].tag = 2 /\ msg[2].tag = 4 /\ msg[3].tag = 162
      /\ msg[3].value = pdu
  <2>1. Len(msg) = 3 /\ \A i \in 1..3 : HasItem(msg[i], parts[i])
    BY <1>2, <1>4 DEF Like
  <2>2. HasItem(msg[1], parts[1]) /\ HasItem(msg[2], parts[2]) /\ HasItem(msg[3], parts[3])
    BY <2>1
  <2>3. QED
    BY <1>2, <2>1, <2>2 DEF HasItem, Item
<1>8. NothingSaid(top, 0)
  <2>1. ~\E i \in 1..0 : TRUE
    OBVIOUS
  <2>2. 0 + 1 = 1
    OBVIOUS
  <2>3. QED
    BY <1>6, <2>1, <2>2, Sequence48 DEF NothingSaid
<1>9. NothingSaid(msg, 2)
  <2>1. \A i \in 1..2 : i = 1 \/ i = 2
    OBVIOUS
  <2>2. Primitive(msg[1]) /\ Primitive(msg[2])
    BY <1>7, TagKinds DEF Primitive
  <2>3. \A i \in 1..2 : Primitive(msg[i])
    BY <2>1, <2>2
  <2>4. 2 + 1 = 3
    OBVIOUS
  <2>5. QED
    BY <1>7, <2>3, <2>4, TagKinds DEF NothingSaid
<1>10. AllIn(w, data) = AllIn(w, top[1].value)
  <2>1. 0 \in Nat /\ 0 + 1 = 1
    OBVIOUS
  <2>2. QED
    BY <1>4, <1>8, <2>1, QuietFrom DEF top
<1>11. AllIn(w, body) = AllIn(w, msg[3].value)
  <2>1. 2 \in Nat /\ 2 + 1 = 3
    OBVIOUS
  <2>2. QED
    BY <1>4, <1>9, <2>1, QuietFrom DEF msg
<1>12. QED
  BY <1>4, <1>6, <1>7, <1>10, <1>11 DEF data

\* From the PDU on, the values of its list.
LEMMA PduGathered ==
  ASSUME NEW w, Gathers(w), NEW a \in Fit, NEW b \in Fit, NEW c \in Fit, NEW list \in Fit,
         Pdu4(a, b, c, list) \in Seq(Byte), Len(Pdu4(a, b, c, list)) <= Datagram
  PROVE  AllIn(w, Pdu4(a, b, c, list)) = AllIn(w, list)
<1> DEFINE pdu == Pdu4(a, b, c, list)
           es == Elements(pdu, 1, 4)
<1>0. 4 \in Widths
  BY TagBytes
<1>1. FourSeen(es, a, b, c, list)
  BY <1>0, FourRead
<1>2. pdu \in Seq(Byte)
  OBVIOUS
<1> HIDE DEF pdu, es
<1>3. /\ Len(es) = 4 /\ es[1].tag = 2 /\ es[2].tag = 2 /\ es[3].tag = 2 /\ es[4].tag = 48
      /\ es[4].value = list
  BY <1>1 DEF FourSeen
<1>4. NothingSaid(es, 3)
  <2>1. \A i \in 1..3 : i = 1 \/ i = 2 \/ i = 3
    OBVIOUS
  <2>2. Primitive(es[1]) /\ Primitive(es[2]) /\ Primitive(es[3])
    BY <1>3, TagKinds DEF Primitive
  <2>3. \A i \in 1..3 : Primitive(es[i])
    BY <2>1, <2>2
  <2>4. 3 + 1 = 4
    OBVIOUS
  <2>5. QED
    BY <1>3, <2>3, <2>4, Sequence48 DEF NothingSaid
<1>5. 1 \in 1..Len(pdu) + 1
  <2>1. Len(pdu) \in Nat
    BY <1>2, LenProperties
  <2>2. QED
    BY <2>1
<1>6. AllIn(w, pdu) = AllIn(w, es[4].value)
  <2>1. 3 \in Nat /\ 3 + 1 = 4
    OBVIOUS
  <2>2. QED
    BY <1>2, <1>4, <2>1, QuietFrom DEF es
<1>7. QED
  BY <1>3, <1>6 DEF pdu

\* What each varbind gives.
LEMMA BindGiven ==
  ASSUME NEW w, Gathers(w), NEW arcs \in Seq(Nat), NEW v, RawSeen(v, Raw(v)),
         Len(AnswerBind(arcs, v)) <= Datagram
  PROVE  AllIn(w, AnswerBind(arcs, v)) = IF HasValue(v) THEN <<Expected(v)>> ELSE << >>
<1> DEFINE name == TrapName(arcs)
           raw == Raw(v)
           tag == v.tag
           x == AnswerBind(arcs, v)
           es == Elements(x, 1, 4)
<1>1. name \in Fit /\ raw \in Seq(Byte) /\ raw \in Fit /\ tag \in Byte /\ (tag \div 32) % 2 = 0
  <2>1. raw \in Seq(Byte) /\ tag \in Byte /\ (tag \div 32) % 2 = 0
    BY DEF RawSeen
  <2>2. QED
    BY <2>1, TrapNameFits, BytesFit
<1>2. 4 \in Widths
  BY TagBytes
<1>3. x = Tlv(6, name) \o Tlv(tag, raw) /\ Len(x) <= Datagram
  BY DEF AnswerBind
<1> HIDE DEF x, name, raw, tag
<1>4. PairSeen(es, name, tag, raw) /\ x \in Seq(Byte)
  <2>1. /\ PairSeen(Elements(Tlv(6, name) \o Tlv(tag, raw), 1, 4), name, tag, raw)
        /\ Reads(Tlv(6, name) \o Tlv(tag, raw), <<Item(6, name), Item(tag, raw)>>)
    BY <1>1, <1>2, <1>3, PairRead
  <2>2. QED
    BY <1>3, <2>1 DEF Reads
<1>5. AllIn(w, x) = IF tag = 6 THEN << >> ELSE ValueAfterName(tag, raw)
  BY <1>1, <1>4, PairGives
<1>6. QED
  BY <1>5, ValueGiven DEF x, raw, tag

\* The values of an answer's list, one for each varbind that has one.
LEMMA ListCollected ==
  ASSUME NEW w, Gathers(w), NEW r, NEW values, Answering(r, values),
         AnswerBinds(r, values) \in Seq(Byte), Len(AnswerBinds(r, values)) <= Datagram
  PROVE  \E g : /\ Collects(AllIn(w, AnswerBinds(r, values)), g, Len(values))
                /\ \A i \in 1..Len(values) :
                      g[i] = IF HasValue(values[i]) THEN <<Expected(values[i])>> ELSE << >>
<1> DEFINE N == Len(values)
           list == AnswerBinds(r, values)
           parts == AnswerParts(r, values)
           es == Elements(list, 1, 4)
           g == Inners(w, es)
           out(i) == IF HasValue(values[i]) THEN <<Expected(values[i])>> ELSE << >>
<1>0. N \in Nat /\ 4 \in Widths
  BY AnswerTypes, TagBytes
<1>1. ListSeen(es, parts) /\ Len(parts) = N
  BY <1>0, PartsFit
<1>2. list \in Seq(Byte)
  OBVIOUS
<1> HIDE DEF list, es
<1>3. /\ es \in Seq(ElementSet) /\ Len(es) = N
      /\ \A i \in 1..N : es[i].tag = 48 /\ es[i].value = parts[i] /\ Len(parts[i]) <= Datagram
  BY <1>1 DEF ListSeen
<1>4. g = [i \in 1..N |-> Inner(w, es[i])]
  BY <1>3 DEF Inners
<1>5. ASSUME NEW i \in 1..N PROVE Inner(w, es[i]) = out(i)
  <2> DEFINE arcs == r.names[i]
             v == values[i]
  <2>1. parts[i] = AnswerBind(arcs, v)
    BY PartsFit
  <2>2. RawSeen(v, Raw(v)) /\ arcs \in Seq(Nat)
    BY AnswerTypes
  <2>3. Len(AnswerBind(arcs, v)) <= Datagram /\ es[i].value = AnswerBind(arcs, v)
    BY <1>3, <2>1
  <2> HIDE DEF arcs, v
  <2>4. AllIn(w, AnswerBind(arcs, v)) = IF HasValue(v) THEN <<Expected(v)>> ELSE << >>
    BY <2>2, <2>3, BindGiven
  <2>5. QED
    BY <2>3, <2>4 DEF AllIn, Inner, v
<1>6. ASSUME NEW i \in 1..N PROVE Len(out(i)) <= 1
  OBVIOUS
<1> HIDE DEF g, N, out
<1>7. Singles(w, es)
  <2>1. \A i \in 1..N : es[i].tag = 48 /\ Len(Inner(w, es[i])) <= 1
    BY <1>3, <1>5, <1>6
  <2>2. QED
    BY <1>3, <2>1 DEF Singles
<1>8. Collects(AllIn(w, list), g, N)
  <2>1. 1 \in 1..Len(list) + 1
    <3>1. Len(list) \in Nat
      BY <1>2, LenProperties
    <3>2. QED
      BY <3>1
  <2>2. Len(Elements(list, 1, 4)) = N /\ Singles(w, Elements(list, 1, 4))
    BY <1>3, <1>7 DEF es
  <2>3. Collects(w[Place(list, 1, FALSE)], Inners(w, Elements(list, 1, 4)), N)
    BY <1>0, <1>2, <2>1, <2>2, GatherList
  <2>4. QED
    BY <2>3 DEF AllIn, g, es
<1>9. \A i \in 1..N : g[i] = out(i)
  BY <1>4, <1>5
<1>10. QED
  BY <1>8, <1>9 DEF list, N, out

\* A value for each name, or for none.
PositionsSeen(positions, values) ==
    \A i \in 1..Len(values) :
        positions[i] = IF \A j \in 1..Len(values) : HasValue(values[j])
                       THEN <<Expected(values[i])>> ELSE << >>

\* Values are placed at their names, or nowhere.
LEMMA PlacedIs ==
  ASSUME NEW r, NEW values, Answering(r, values), NEW t, NEW g, Collects(t, g, Len(values)),
         \A i \in 1..Len(values) :
            g[i] = IF HasValue(values[i]) THEN <<Expected(values[i])>> ELSE << >>
  PROVE  PositionsSeen(Placed(t, r), values)
<1> DEFINE N == Len(values)
           p == Placed(t, r)
           all == \A j \in 1..N : HasValue(values[j])
           has(i) == HasValue(values[i])
           x(i) == Expected(values[i])
<1>0. N \in Nat
  BY AnswerTypes
<1>1. Len(r.names) = N /\ DOMAIN r.names = 1..N
  <2>1. r.names \in Seq(Seq(Nat)) /\ Len(r.names) = N
    BY RequestTypes DEF Answering
  <2>2. QED
    BY <1>0, <2>1, LenProperties
<1>2. p = [i \in 1..N |-> IF Len(t) = N THEN <<t[i]>> ELSE << >>]
  BY <1>1 DEF Placed
<1>3. /\ Len(t) \in Nat
      /\ (\A i \in 1..N : Len(g[i]) = 1) => Len(t) = N /\ \A i \in 1..N : t[i] = g[i][1]
      /\ (\E i \in 1..N : Len(g[i]) = 0) => Len(t) < N
  BY DEF Collects
<1>4. \A i \in 1..N : g[i] = IF has(i) THEN <<x(i)>> ELSE << >>
  OBVIOUS
<1>5. all <=> \A i \in 1..N : has(i)
  OBVIOUS
<1> HIDE DEF N, p, all, has, x
<1>6. CASE all
  <2>1. \A i \in 1..N : Len(g[i]) = 1 /\ g[i][1] = x(i)
    <3> TAKE i \in 1..N
    <3>1. g[i] = <<x(i)>>
      BY <1>4, <1>5, <1>6
    <3>2. Len(<<x(i)>>) = 1 /\ <<x(i)>>[1] = x(i)
      OBVIOUS
    <3>3. QED
      BY <3>1, <3>2
  <2>2. Len(t) = N /\ \A i \in 1..N : t[i] = x(i)
    BY <1>3, <2>1
  <2>3. \A i \in 1..N : p[i] = <<x(i)>>
    BY <1>2, <2>2
  <2>4. QED
    BY <1>6, <2>3 DEF PositionsSeen, p, x, all, N
<1>7. CASE ~all
  <2>1. PICK j \in 1..N : ~has(j)
    BY <1>5, <1>7
  <2>2. Len(g[j]) = 0
    <3>1. g[j] = << >>
      BY <1>4, <2>1
    <3>2. Len(<< >>) = 0
      OBVIOUS
    <3>3. QED
      BY <3>1, <3>2
  <2>3. Len(t) # N
    BY <1>0, <1>3, <2>2
  <2>4. \A i \in 1..N : p[i] = << >>
    BY <1>2, <2>3
  <2>5. QED
    BY <1>7, <2>4 DEF PositionsSeen, p, all, N
<1>8. QED
  BY <1>6, <1>7

\* The client places the values of an answer where they belong.
LEMMA PositionsRead ==
  ASSUME NEW r, NEW values, Answering(r, values), NEW status \in {0, 2},
         Len(Response(r, status, values)) <= Datagram
  PROVE  PositionsSeen(Positions(Response(r, status, values), r), values)
<1> DEFINE data == Response(r, status, values)
           pdu == AnswerPdu(r, status, values)
           list == AnswerBinds(r, values)
           id == Octets(r.id)
           stat == <<status>>
           zero == <<0>>
<1>1. /\ pdu \in Fit /\ id \in Fit /\ stat \in Fit /\ zero \in Fit /\ list \in Fit
      /\ CommunitySent(r.community) \in Seq(Byte)
  BY PduFits, PartsFit
<1>2. data = Message(1, CommunitySent(r.community), 162, pdu) /\ Len(data) <= Datagram
  BY ResponseIs
<1>3. pdu = Pdu4(id, stat, zero, list)
  BY DEF AnswerPdu
<1>4. Len(list) <= Datagram
  BY ResponseOpened DEF ResponseSeen
<1>5. list \in Seq(Byte)
  BY <1>1, <1>4 DEF Fit
<1>6. PICK w : Gathers(w) /\ \A x : AnswerValues(x) = w[Place(x, 1, FALSE)]
  BY ValuesGathered
<1>7. Positions(data, r) = Placed(AllIn(w, data), r)
  BY <1>6 DEF Positions, AllIn
<1> HIDE DEF data, pdu, id, stat, zero
<1>8. AllIn(w, data) = AllIn(w, pdu) /\ pdu \in Seq(Byte) /\ Len(pdu) <= Datagram
  BY <1>1, <1>2, <1>6, MessageGathered
<1>9. AllIn(w, pdu) = AllIn(w, list)
  <2> HIDE DEF list
  <2>1. QED
    BY <1>1, <1>3, <1>6, <1>8, PduGathered
<1>10. PICK g : /\ Collects(AllIn(w, list), g, Len(values))
                /\ \A i \in 1..Len(values) :
                      g[i] = IF HasValue(values[i]) THEN <<Expected(values[i])>> ELSE << >>
  BY <1>4, <1>5, <1>6, ListCollected
<1>11. PositionsSeen(Placed(AllIn(w, list), r), values)
  BY <1>10, PlacedIs
<1>12. QED
  BY <1>7, <1>8, <1>9, <1>11 DEF data

\* Answers are understood.
LEMMA AnswerRead == CarriedInv => AnswerUnderstood
<1> SUFFICES ASSUME CarriedInv, hop = "answered" PROVE AnswerUnderstood
  BY DEF AnswerUnderstood
<1> DEFINE r == sent.request
           values == reply.values
           status == reply.status
           data == Response(r, status, values)
           N == Len(values)
           binds == Varbinds(data)
           positions == Positions(data, r)
<1>1. /\ ~IsTrap /\ AllAskable(r) /\ status \in {0, 2} /\ values \in AnswerLists
      /\ Len(values) = Len(r.names) /\ Carries(data)
  BY DEF CarriedInv, Carried, Answered
<1>2. r \in Requests /\ packet \in Seq(Byte) /\ whole \in BOOLEAN
  BY <1>1, SentIs DEF CarriedInv, CodecInv, CodecTypeOK
<1>3. Answering(r, values)
  BY <1>1, <1>2 DEF Answering
<1>4. /\ Len(data) <= Datagram
      /\ whole => packet = data
      /\ ~whole => \E n \in Nat : n < Len(data) /\ packet = SubSeq(data, 1, n)
  BY <1>1 DEF Carries
<1>5. AnswerUnderstood <=> IF ~whole THEN Header(packet) = << >>
                           ELSE ReadAsAnswered(r, values, Header(packet), Varbinds(packet),
                                               Positions(packet, r))
  BY DEF AnswerUnderstood
<1>6. DOMAIN values = 1..N
  BY <1>3, AnswerTypes
<1> HIDE DEF r, values, status
<1>7. CASE whole
  <2>1. packet = data
    BY <1>4, <1>7
  <2>2. ResponseSeen(data, r, status, values)
    BY <1>1, <1>3, <1>4, ResponseOpened
  <2>3. PositionsSeen(positions, values)
    BY <1>1, <1>3, <1>4, PositionsRead
  <2> HIDE DEF data
  <2>4. /\ Header(data) = <<r.id, status, 0>>
        /\ binds = VarbindsOf(Elements(AnswerBinds(r, values), 1, 4))
        /\ Len(AnswerBinds(r, values)) <= Datagram
    BY <2>2 DEF ResponseSeen
  <2>5. ASSUME \A i \in 1..N : Named(r.names[i])
        PROVE  /\ Len(binds) = N
               /\ \A i \in 1..N : BindAsAnswered(r.names[i], values[i], binds[i])
    BY <1>3, <2>4, <2>5, VarbindsRead
  <2> HIDE DEF binds, positions
  <2>6. \A i \in 1..N : positions[i] = IF \A j \in 1..N : HasValue(values[j])
                                       THEN <<Expected(values[i])>> ELSE << >>
    BY <2>3 DEF PositionsSeen
  <2>7. ReadAsAnswered(r, values, Header(data), binds, positions)
    BY <1>6, <2>4, <2>5, <2>6, Zenon DEF ReadAsAnswered, status
  <2>8. QED
    BY <1>5, <1>7, <2>1, <2>7 DEF binds, positions
<1>8. CASE ~whole
  <2>1. PICK n \in Nat : n < Len(data) /\ packet = SubSeq(data, 1, n)
    BY <1>4, <1>8
  <2>2. Header(SubSeq(data, 1, n)) = << >>
    BY <1>1, <1>2, <1>3, <1>4, <2>1, CutAnswer
  <2>3. QED
    BY <1>5, <1>8, <2>1, <2>2
<1>9. QED
  BY <1>2, <1>7, <1>8

\* What one end writes into a packet the other reads from it, whatever the names,
\* numbers and values: traps, requests and answers, whole or cut off.  Of the
\* community of a request these are its first CommunityMost characters, of a text
\* in an answer the characters its octets are decoded to, where Replacement
\* stands for what is no UTF-8, and in a varbind no space at either end
\* (nms/snmp.py:13-285, 690-723, nms/snmp_trap.py:33-489).
THEOREM PacketsCorrect == CodecSpec => []PacketsUnderstood
<1>1. CarriedInv => PacketsUnderstood
  BY TrapRead, RequestRead, AnswerRead DEF PacketsUnderstood
<1>2. QED
  BY CarriedInit, CarriedNext, <1>1, PTL DEF CodecSpec
=============================================================================
