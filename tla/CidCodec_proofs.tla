-------------------------- MODULE CidCodec_proofs ---------------------------
(***************************************************************************)
(* What the conversions of encoding/ and utils/endian.go do, for bytes of  *)
(* any number of values, hashes, keys, sizes and paddings of any length:   *)
(* with 256, 33, 32, 8 and 4, those of the code.  TLC checks bytes of six  *)
(* values and sizes of two bytes.                                          *)
(*                                                                         *)
(* The loops of the code need induction.  The library's theorems for it    *)
(* have an operator for a parameter; with a set in its place, the          *)
(* principle follows from the well-foundedness of < on the naturals.       *)
(***************************************************************************)
EXTENDS CidCodec, TLAPS, WellFoundedInduction, SequenceTheorems

-----------------------------------------------------------------------------
(* Induction and recursion *)

\* A set of numbers that is not empty has a least one.
LEMMA Least ==
    ASSUME NEW T \in SUBSET Nat, T # {}
    PROVE  \E m \in T : \A n \in T : m <= n
<1>1. PICK m \in T : \A n \in T : ~ (<<n, m>> \in OpToRel(<, Nat))
  BY WFMin, NatLessThanWellFounded
<1>2. \A n \in T : ~ (n < m)
  BY <1>1 DEF OpToRel
<1> QED
  BY <1>2

\* Induction: a set that holds 0 and with n also n + 1 holds every number.
LEMMA Induction ==
    ASSUME NEW T, 0 \in T, \A n \in Nat : n \in T => n + 1 \in T
    PROVE  Nat \subseteq T
<1> SUFFICES ASSUME Nat \ T # {} PROVE FALSE
  OBVIOUS
<1>1. PICK m \in Nat \ T : \A n \in Nat \ T : m <= n
  BY Least
<1>2. m # 0 /\ m - 1 \in Nat /\ ~ (m <= m - 1)
  BY <1>1
<1>3. m - 1 \in T
  BY <1>1, <1>2
<1> QED
  BY <1>1, <1>2, <1>3

\* The states of a loop that begins with a and takes s to G[<<s, n>>] in round n.
Rounds(f, S, a, G) ==
  /\ f \in [Nat -> S]
  /\ f[0] = a
  /\ \A n \in Nat : f[n + 1] = G[<<f[n], n>>]

\* Recursion: there are such states.
LEMMA Recursion ==
    ASSUME NEW S, NEW a \in S, NEW G \in [S \X Nat -> S]
    PROVE  \E f : Rounds(f, S, a, G)
<1> DEFINE Upto(n) == {g \in [0 .. n -> S] :
                         g[0] = a /\ \A i \in 0 .. n - 1 : g[i + 1] = G[<<g[i], i>>]}
<1>1. \A n \in Nat : Upto(n) # {}
  <2> DEFINE T == {n \in Nat : Upto(n) # {}}
  <2>1. 0 \in T
    <3>1. [i \in 0 .. 0 |-> a] \in Upto(0)
      OBVIOUS
    <3> QED
      BY <3>1
  <2>2. ASSUME NEW n \in Nat, n \in T PROVE n + 1 \in T
    <3>1. PICK g : g \in Upto(n)
      BY <2>2
    <3> DEFINE h == [i \in 0 .. n + 1 |-> IF i = n + 1 THEN G[<<g[n], n>>] ELSE g[i]]
    <3>2. g \in [0 .. n -> S] /\ g[0] = a /\ \A i \in 0 .. n - 1 : g[i + 1] = G[<<g[i], i>>]
      BY <3>1
    <3>3. G[<<g[n], n>>] \in S
      BY <3>2
    <3>4. h \in [0 .. n + 1 -> S]
      BY <3>2, <3>3
    <3>5. h[0] = a
      BY <3>2
    <3>6. ASSUME NEW i \in 0 .. n PROVE h[i + 1] = G[<<h[i], i>>]
      <4>1. CASE i = n
        <5>1. n \in 0 .. n + 1 /\ n + 1 \in 0 .. n + 1 /\ n # n + 1
          OBVIOUS
        <5>2. h[n + 1] = G[<<g[n], n>>] /\ h[n] = g[n]
          BY <5>1
        <5> QED
          BY <4>1, <5>2
      <4>2. CASE i # n
        <5>1. i \in 0 .. n - 1 /\ i + 1 \in 0 .. n + 1 /\ i \in 0 .. n + 1 /\ i # n + 1 /\ i + 1 # n + 1
          BY <4>2
        <5> QED
          BY <3>2, <5>1
      <4> QED
        BY <4>1, <4>2
    <3> HIDE DEF h
    <3>7. 0 .. (n + 1) - 1 = 0 .. n
      OBVIOUS
    <3>8. h \in Upto(n + 1)
      BY <3>4, <3>5, <3>6, <3>7
    <3> QED
      BY <3>8
  <2> HIDE DEF T
  <2>3. Nat \subseteq T
    BY <2>1, <2>2, Induction
  <2> QED
    BY <2>3 DEF T
<1>2. ASSUME NEW m \in Nat, NEW n \in Nat, m <= n, NEW g \in Upto(m), NEW h \in Upto(n)
      PROVE  g[m] = h[m]
  <2> DEFINE T == {i \in Nat : i <= m => g[i] = h[i]}
  <2>1. 0 \in T
    OBVIOUS
  <2>2. ASSUME NEW i \in Nat, i \in T PROVE i + 1 \in T
    <3>1. CASE i + 1 <= m
      <4>1. i \in 0 .. m - 1 /\ i \in 0 .. n - 1 /\ i <= m
        BY <1>2, <3>1
      <4>2. g[i] = h[i]
        BY <2>2, <4>1
      <4>3. g[i + 1] = G[<<g[i], i>>] /\ h[i + 1] = G[<<h[i], i>>]
        BY <4>1
      <4> QED
        BY <4>2, <4>3
    <3>2. CASE ~ (i + 1 <= m)
      BY <3>2
    <3> QED
      BY <3>1, <3>2
  <2> HIDE DEF T
  <2>3. Nat \subseteq T
    BY <2>1, <2>2, Induction
  <2> QED
    BY <2>3 DEF T
<1> DEFINE pick(n) == CHOOSE g : g \in Upto(n)
           f == [n \in Nat |-> pick(n)[n]]
<1>3. \A n \in Nat : pick(n) \in Upto(n)
  BY <1>1
<1> HIDE DEF pick
<1>4. f \in [Nat -> S]
  <2>1. \A n \in Nat : pick(n)[n] \in S
    BY <1>3
  <2> QED
    BY <2>1
<1>5. f[0] = a
  BY <1>3
<1>6. ASSUME NEW n \in Nat PROVE f[n + 1] = G[<<f[n], n>>]
  <2>1. pick(n + 1) \in Upto(n + 1) /\ pick(n) \in Upto(n) /\ n + 1 \in Nat /\ n <= n + 1
    BY <1>3
  <2>2. pick(n)[n] = pick(n + 1)[n]
    BY <1>2, <2>1
  <2>3. pick(n + 1)[n + 1] = G[<<pick(n + 1)[n], n>>]
    <3>1. n \in 0 .. (n + 1) - 1
      OBVIOUS
    <3> QED
      BY <2>1, <3>1
  <2> QED
    BY <2>2, <2>3
<1> HIDE DEF f
<1>7. Rounds(f, S, a, G)
  BY <1>4, <1>5, <1>6 DEF Rounds
<1> QED
  BY <1>7

\* The same for a loop of n rounds.
RoundsUpto(n, f, S, a, G) ==
  /\ f \in [0 .. n -> S]
  /\ f[0] = a
  /\ \A i \in 1 .. n : f[i] = G[<<f[i - 1], i - 1>>]

\* There are such states too.
LEMMA Loop ==
    ASSUME NEW S, NEW a \in S, NEW G \in [S \X Nat -> S], NEW n \in Nat
    PROVE  \E f : RoundsUpto(n, f, S, a, G)
<1>1. PICK f \in [Nat -> S] : f[0] = a /\ \A i \in Nat : f[i + 1] = G[<<f[i], i>>]
  <2>1. PICK f : Rounds(f, S, a, G)
    BY Recursion
  <2> QED
    BY <2>1 DEF Rounds
<1>2. ASSUME NEW i \in 1 .. n PROVE f[i] = G[<<f[i - 1], i - 1>>]
  <2>1. i - 1 \in Nat /\ (i - 1) + 1 = i
    OBVIOUS
  <2> QED
    BY <1>1, <2>1
<1> DEFINE g == [i \in 0 .. n |-> f[i]]
<1>3. g \in [0 .. n -> S]
  BY <1>1
<1>4. \A i \in 0 .. n : g[i] = f[i]
  OBVIOUS
<1>5. 0 \in 0 .. n /\ \A i \in 1 .. n : i \in 0 .. n /\ i - 1 \in 0 .. n
  OBVIOUS
<1> HIDE DEF g
<1>6. g[0] = a
  BY <1>1, <1>4, <1>5
<1>7. ASSUME NEW i \in 1 .. n PROVE g[i] = G[<<g[i - 1], i - 1>>]
  BY <1>2, <1>4, <1>5
<1> QED
  BY <1>3, <1>6, <1>7 DEF RoundsUpto

-----------------------------------------------------------------------------
(* Numbers *)

\* Quotient and remainder.
LEMMA DivMod ==
    ASSUME NEW a \in Nat, NEW b \in Nat, b > 0
    PROVE  /\ a \div b \in Nat
           /\ a % b \in 0 .. (b - 1)
           /\ a = b * (a \div b) + (a % b)
OBVIOUS

\* They are the only ones.
LEMMA Unique ==
    ASSUME NEW b \in Nat, b > 0, NEW q \in Nat, NEW r \in 0 .. (b - 1)
    PROVE  /\ (b * q + r) \div b = q
           /\ (b * q + r) % b = r
OBVIOUS

\* The digit of a number behind p: what is below it, and it, make up the number
\* below the next digit.
LEMMA NextDigit ==
    ASSUME NEW v \in Nat, NEW p \in Nat, p > 0, NEW b \in Nat, b > 0
    PROVE  /\ v % (b * p) = (v % p) + ((v \div p) % b) * p
           /\ b * p \in Nat /\ b * p > 0
<1>1. PICK q \in Nat, r \in 0 .. (p - 1) : v = p * q + r /\ q = v \div p /\ r = v % p
  BY DivMod
<1>2. PICK t \in Nat, d \in 0 .. (b - 1) : q = b * t + d /\ d = q % b
  BY DivMod
<1>3. b * p \in Nat /\ b * p > 0
  OBVIOUS
<1>4. v = (b * p) * t + (r + d * p)
  BY <1>1, <1>2
<1>5. r + d * p \in 0 .. (b * p - 1)
  <2>1. d * p <= (b - 1) * p /\ (b - 1) * p = b * p - p
    OBVIOUS
  <2> QED
    BY <2>1
<1>6. v % (b * p) = r + d * p
  BY <1>3, <1>4, <1>5, Unique
<1> QED
  BY <1>1, <1>2, <1>3, <1>6

\* The constants are numbers, and a byte has more than one value.
LEMMA Widths == /\ Base \in Nat /\ Base > 1
                /\ HashLen \in Nat \ {0} /\ SizeLen \in Nat \ {0}
                /\ KeyLen \in Nat \ {0} /\ PadLen \in Nat \ {0}
<1>1. Raw \in 0 .. (Base - 1) /\ Bridge \in 0 .. (Base - 1) /\ Raw # Bridge
  BY CidAssumption DEF Byte, CIDTypeMap
<1> QED
  BY <1>1, CidAssumption

\* The recursive definition of Pow defines a function, with these values.
LEMMA Powers ==
    /\ Pow[0] = 1
    /\ \A n \in Nat : Pow[n + 1] = Base * Pow[n]
    /\ \A n \in Nat : Pow[n] \in Nat /\ Pow[n] > 0
<1> DEFINE G == [x \in Nat \X Nat |-> Base * x[1]]
<1>1. G \in [Nat \X Nat -> Nat]
  BY Widths
<1>2. PICK f \in [Nat -> Nat] : f[0] = 1 /\ \A n \in Nat : f[n + 1] = G[<<f[n], n>>]
  <2>1. 1 \in Nat
    OBVIOUS
  <2> HIDE DEF G
  <2>2. PICK f : Rounds(f, Nat, 1, G)
    BY <1>1, <2>1, Recursion
  <2> QED
    BY <2>2 DEF Rounds
<1>3. \A n \in Nat : f[n + 1] = Base * f[n]
  BY <1>2
<1>4. f = [n \in Nat |-> IF n = 0 THEN 1 ELSE Base * f[n - 1]]
  <2>1. ASSUME NEW n \in Nat PROVE f[n] = IF n = 0 THEN 1 ELSE Base * f[n - 1]
    <3>1. CASE n = 0
      BY <1>2, <3>1
    <3>2. CASE n # 0
      <4>1. n - 1 \in Nat /\ (n - 1) + 1 = n
        BY <3>2
      <4> QED
        BY <1>3, <3>2, <4>1
    <3> QED
      BY <3>1, <3>2
  <2> QED
    BY <1>2, <2>1
<1>5. Pow = [n \in Nat |-> IF n = 0 THEN 1 ELSE Base * Pow[n - 1]]
  BY <1>4 DEF Pow
<1>6. Pow[0] = 1
  BY <1>5
<1>7. ASSUME NEW n \in Nat PROVE Pow[n + 1] = Base * Pow[n]
  <2>1. n + 1 \in Nat /\ n + 1 # 0 /\ (n + 1) - 1 = n
    OBVIOUS
  <2> QED
    BY <1>5, <2>1
<1>8. \A n \in Nat : Pow[n] \in Nat /\ Pow[n] > 0
  <2> DEFINE T == {n \in Nat : Pow[n] \in Nat /\ Pow[n] > 0}
  <2>1. 0 \in T
    BY <1>6
  <2>2. ASSUME NEW n \in Nat, n \in T PROVE n + 1 \in T
    BY <1>7, <2>2, Widths
  <2> HIDE DEF T
  <2>3. Nat \subseteq T
    BY <2>1, <2>2, Induction
  <2> QED
    BY <2>3 DEF T
<1> QED
  BY <1>6, <1>7, <1>8

\* Pow grows.
LEMMA PowersGrow ==
    ASSUME NEW m \in Nat, NEW n \in Nat, m <= n
    PROVE  Pow[m] <= Pow[n] /\ (m < n => Pow[m] < Pow[n])
<1> DEFINE T == {k \in Nat : Pow[m] <= Pow[m + k] /\ (k > 0 => Pow[m] < Pow[m + k])}
<1>1. 0 \in T
  BY Powers
<1>2. ASSUME NEW k \in Nat, k \in T PROVE k + 1 \in T
  <2>1. Pow[m + (k + 1)] = Base * Pow[m + k]
    <3>1. m + k \in Nat /\ m + (k + 1) = (m + k) + 1
      OBVIOUS
    <3> QED
      BY <3>1, Powers
  <2>2. Pow[m + k] \in Nat /\ Pow[m + k] > 0 /\ Pow[m] \in Nat /\ m + k \in Nat
    BY Powers
  <2>3. Base * Pow[m + k] > Pow[m + k]
    BY <2>2, Widths
  <2>4. Pow[m] <= Pow[m + k]
    BY <1>2
  <2>5. Pow[m] <= Pow[m + (k + 1)] /\ Pow[m] < Pow[m + (k + 1)]
    <3>1. PICK x, y, z : x = Pow[m] /\ y = Pow[m + k] /\ z = Base * Pow[m + k]
      OBVIOUS
    <3>2. x \in Nat /\ y \in Nat /\ z \in Nat /\ x <= y /\ y < z
      BY <2>2, <2>3, <2>4, <3>1, Widths
    <3> QED
      BY <2>1, <3>1, <3>2
  <2> QED
    BY <2>5
<1> HIDE DEF T
<1>3. Nat \subseteq T
  BY <1>1, <1>2, Induction
<1>4. n - m \in T /\ m + (n - m) = n
  BY <1>3
<1> QED
  BY <1>4 DEF T

\* What k bytes of a number hold, and the next byte.
LEMMA Digits ==
    ASSUME NEW v \in Nat, NEW k \in Nat
    PROVE  /\ v % Pow[k] \in 0 .. (Pow[k] - 1)
           /\ (v \div Pow[k]) % Base \in Byte
           /\ v % Pow[k + 1] = (v % Pow[k]) + ((v \div Pow[k]) % Base) * Pow[k]
<1>1. Pow[k] \in Nat /\ Pow[k] > 0 /\ Pow[k + 1] = Base * Pow[k] /\ Base \in Nat /\ Base > 0
  BY Powers, Widths
<1>2. v % Pow[k] \in 0 .. (Pow[k] - 1) /\ v \div Pow[k] \in Nat
  BY <1>1, DivMod
<1>3. (v \div Pow[k]) % Base \in 0 .. (Base - 1)
  BY <1>1, <1>2, DivMod
<1>4. v % (Base * Pow[k]) = (v % Pow[k]) + ((v \div Pow[k]) % Base) * Pow[k]
  BY <1>1, NextDigit
<1> QED
  BY <1>1, <1>2, <1>3, <1>4 DEF Byte

\* EncodeEndian yields as many bytes as it is asked for.
LEMMA EncodeType ==
    ASSUME NEW v \in Nat, NEW n \in Nat
    PROVE  /\ EncodeEndian(v, n) \in Seq(Byte)
           /\ Len(EncodeEndian(v, n)) = n
           /\ \A i \in 1 .. n : EncodeEndian(v, n)[i] = (v \div Pow[i - 1]) % Base
<1>1. ASSUME NEW i \in 1 .. n PROVE (v \div Pow[i - 1]) % Base \in Byte
  <2>1. i - 1 \in Nat
    OBVIOUS
  <2> QED
    BY <2>1, Digits
<1> QED
  BY <1>1 DEF EncodeEndian

\* The loop of DecodeEndian.
Decoding(bytes, loop) ==
  /\ loop \in [0 .. Len(bytes) -> [total : Nat, multiplier : Nat]]
  /\ loop[0] = [total |-> 0, multiplier |-> 1]
  /\ \A i \in 1 .. Len(bytes) :
       /\ loop[i].total = (loop[i - 1].total + bytes[i] * loop[i - 1].multiplier) % Pow[SizeLen]
       /\ loop[i].multiplier = (loop[i - 1].multiplier * Base) % Pow[SizeLen]

\* The recursive definition in DecodeEndian has those states.
LEMMA DecodeLoop ==
    ASSUME NEW bytes \in Seq(Byte)
    PROVE  \E loop : Decoding(bytes, loop) /\ DecodeEndian(bytes) = loop[Len(bytes)].total
<1>0. Pow[SizeLen] \in Nat /\ Pow[SizeLen] > 0 /\ Base \in Nat /\ Len(bytes) \in Nat
  <2>1. SizeLen \in Nat /\ Base \in Nat
    BY Widths
  <2>2. Pow[SizeLen] \in Nat /\ Pow[SizeLen] > 0
    BY <2>1, Powers
  <2> QED
    BY <2>1, <2>2
<1> DEFINE M == Pow[SizeLen]
           S == [total : Nat, multiplier : Nat]
           a == [total |-> 0, multiplier |-> 1]
           at(i) == IF i \in 1 .. Len(bytes) THEN bytes[i] ELSE 0
           step(s, i) == [total |-> (s.total + at(i) * s.multiplier) % M,
                          multiplier |-> (s.multiplier * Base) % M]
           G == [x \in S \X Nat |-> step(x[1], x[2] + 1)]
<1>1. M \in Nat /\ M > 0 /\ Base \in Nat /\ Len(bytes) \in Nat
  BY <1>0
<1>2. \A i \in Nat : at(i) \in Nat
  BY <1>1 DEF Byte
<1> HIDE DEF M
<1>3. ASSUME NEW s \in S, NEW i \in Nat PROVE step(s, i) \in S
  <2> HIDE DEF at
  <2>0. s.total \in Nat /\ s.multiplier \in Nat /\ at(i) \in Nat
    BY <1>2
  <2>1. s.total + at(i) * s.multiplier \in Nat /\ s.multiplier * Base \in Nat
    BY <1>1, <2>0
  <2>2. (s.total + at(i) * s.multiplier) % M \in Nat /\ (s.multiplier * Base) % M \in Nat
    BY <1>1, <2>1
  <2> QED
    BY <2>2
<1> HIDE DEF at
<1>4. G \in [S \X Nat -> S]
  <2>1. ASSUME NEW x \in S \X Nat PROVE step(x[1], x[2] + 1) \in S
    <3> HIDE DEF step, S
    <3>1. x[1] \in S /\ x[2] + 1 \in Nat
      OBVIOUS
    <3> QED
      BY <1>3, <3>1
  <2> HIDE DEF step, S
  <2> QED
    BY <2>1
<1>5. a \in S
  OBVIOUS
<1>6. PICK f \in [0 .. Len(bytes) -> S] :
         f[0] = a /\ \A i \in 1 .. Len(bytes) : f[i] = G[<<f[i - 1], i - 1>>]
  <2> HIDE DEF a, G, S
  <2>1. PICK f : RoundsUpto(Len(bytes), f, S, a, G)
    BY <1>1, <1>4, <1>5, Loop
  <2> QED
    BY <2>1 DEF RoundsUpto
<1>7. ASSUME NEW i \in 1 .. Len(bytes)
      PROVE  f[i] = [total |-> (f[i - 1].total + bytes[i] * f[i - 1].multiplier) % M,
                     multiplier |-> (f[i - 1].multiplier * Base) % M]
  <2>1. i - 1 \in Nat /\ i - 1 \in 0 .. Len(bytes) /\ (i - 1) + 1 = i
    BY <1>1
  <2>2. f[i - 1] \in S /\ <<f[i - 1], i - 1>> \in S \X Nat
    BY <1>6, <2>1
  <2>3. G[<<f[i - 1], i - 1>>] = step(f[i - 1], i)
    BY <2>1, <2>2
  <2>4. at(i) = bytes[i]
    BY DEF at
  <2> QED
    BY <1>6, <2>3, <2>4
<1> DEFINE F(l) == [i \in 0 .. Len(bytes) |->
                      IF i = 0 THEN a
                      ELSE [total |-> (l[i - 1].total + bytes[i] * l[i - 1].multiplier) % M,
                            multiplier |-> (l[i - 1].multiplier * Base) % M]]
           loop == CHOOSE l : l = F(l)
<1> HIDE DEF a
<1>8. f = F(f)
  <2>1. ASSUME NEW i \in 0 .. Len(bytes) PROVE f[i] = F(f)[i]
    <3>1. i = 0 \/ i \in 1 .. Len(bytes)
      BY <1>1
    <3> QED
      BY <1>6, <1>7, <3>1
  <2> QED
    BY <1>6, <2>1
<1>9. loop = F(loop)
  BY <1>8
<1>10. DecodeEndian(bytes) = loop[Len(bytes)].total
  BY DEF DecodeEndian, M, a
<1> HIDE DEF loop
<1>11. ASSUME NEW i \in 1 .. Len(bytes)
       PROVE  /\ loop[i].total = (loop[i - 1].total + bytes[i] * loop[i - 1].multiplier) % M
              /\ loop[i].multiplier = (loop[i - 1].multiplier * Base) % M
  <2>1. i \in 0 .. Len(bytes) /\ i # 0
    BY <1>1
  <2>2. loop[i] = F(loop)[i]
    BY <1>9, Zenon
  <2>3. F(loop)[i] = [total |-> (loop[i - 1].total + bytes[i] * loop[i - 1].multiplier) % M,
                      multiplier |-> (loop[i - 1].multiplier * Base) % M]
    BY <2>1
  <2> QED
    BY <2>2, <2>3
<1>12. loop[0] = a
  BY <1>1, <1>9
<1>13. loop \in [0 .. Len(bytes) -> S]
  <2> DEFINE T == {i \in Nat : i <= Len(bytes) => loop[i] \in S}
  <2>1. 0 \in T
    BY <1>5, <1>12
  <2>2. ASSUME NEW i \in Nat, i \in T PROVE i + 1 \in T
    <3>1. CASE i + 1 <= Len(bytes)
      <4>1. i + 1 \in 1 .. Len(bytes) /\ i <= Len(bytes) /\ (i + 1) - 1 = i /\ i + 1 # 0
        BY <1>1, <3>1
      <4>2. loop[i] \in S
        BY <2>2, <4>1
      <4> DEFINE j == i + 1
      <4>3. F(loop)[j] = step(loop[i], j)
        BY <1>1, <4>1 DEF at
      <4>4. loop[j] = F(loop)[j]
        BY <1>9, Zenon
      <4> HIDE DEF step, S
      <4>5. step(loop[i], j) \in S
        BY <1>3, <4>2
      <4> QED
        BY <4>3, <4>4, <4>5
    <3>2. CASE ~ (i + 1 <= Len(bytes))
      BY <3>2
    <3> QED
      BY <3>1, <3>2
  <2> HIDE DEF T
  <2>3. Nat \subseteq T
    BY <2>1, <2>2, Induction
  <2>4. \A i \in 0 .. Len(bytes) : loop[i] \in S
    BY <1>1, <2>3 DEF T
  <2>5. loop = [i \in 0 .. Len(bytes) |-> loop[i]]
    BY <1>9
  <2> HIDE DEF S
  <2> QED
    BY <2>4, <2>5
<1> QED
  BY <1>10, <1>11, <1>12, <1>13 DEF Decoding, M, a

\* DecodeEndian: a number read is as wide as a size, whatever and however many
\* the bytes.
LEMMA DecodeWidth ==
    ASSUME NEW bytes \in Seq(Byte)
    PROVE  DecodeEndian(bytes) \in 0 .. (Pow[SizeLen] - 1)
<1>1. PICK loop : Decoding(bytes, loop) /\ DecodeEndian(bytes) = loop[Len(bytes)].total
  BY DecodeLoop
<1>2. SizeLen \in Nat /\ Len(bytes) \in Nat
  BY Widths
<1>3. Pow[SizeLen] \in Nat /\ Pow[SizeLen] > 0
  BY <1>2, Powers
<1>4. CASE Len(bytes) = 0
  BY <1>1, <1>3, <1>4 DEF Decoding
<1>5. CASE Len(bytes) # 0
  <2> DEFINE n == Len(bytes)
  <2>1. n \in 1 .. n /\ n - 1 \in 0 .. n
    BY <1>2, <1>5
  <2>2. PICK t, m, b : t = loop[n - 1].total /\ m = loop[n - 1].multiplier /\ b = bytes[n]
    OBVIOUS
  <2>3. t \in Nat /\ m \in Nat /\ b \in Nat
    <3>1. loop[n - 1] \in [total : Nat, multiplier : Nat]
      BY <1>1, <2>1 DEF Decoding
    <3>2. bytes[n] \in Byte
      BY <2>1
    <3>3. bytes[n] \in Nat
      BY <3>2, Widths DEF Byte
    <3> QED
      BY <2>2, <3>1, <3>3
  <2>4. DecodeEndian(bytes) = (t + b * m) % Pow[SizeLen]
    BY <1>1, <2>1, <2>2 DEF Decoding
  <2>5. t + b * m \in Nat
    BY <2>3
  <2> QED
    BY <1>3, <2>4, <2>5, DivMod
<1> QED
  BY <1>4, <1>5

\* The first k bytes of a number, k no more than a size has, are read as the
\* number without what the other bytes hold.
LEMMA DecodeOfEncode ==
    ASSUME NEW v \in Nat, NEW bytes \in Seq(Byte), Len(bytes) <= SizeLen,
           \A i \in 1 .. Len(bytes) : bytes[i] = (v \div Pow[i - 1]) % Base
    PROVE  DecodeEndian(bytes) = v % Pow[Len(bytes)]
<1> DEFINE M == Pow[SizeLen]
<1>1. PICK loop : Decoding(bytes, loop) /\ DecodeEndian(bytes) = loop[Len(bytes)].total
  BY DecodeLoop
<1>2. SizeLen \in Nat /\ Len(bytes) \in Nat /\ Base \in Nat /\ Base > 0 /\ SizeLen > 0
  BY Widths
<1>3. M \in Nat /\ M > 0
  BY <1>2, Powers
<1>4. \A k \in Nat : Pow[k] \in Nat /\ Pow[k] > 0 /\ Pow[k + 1] = Base * Pow[k]
  BY Powers
<1>5. \A k \in Nat : k <= SizeLen => Pow[k] <= M /\ (k < SizeLen => Pow[k] < M)
  BY <1>2, PowersGrow
<1> HIDE DEF M
<1> DEFINE T == {k \in Nat : k <= Len(bytes) => /\ loop[k].total = v % Pow[k]
                                                /\ loop[k].multiplier = Pow[k] % M}
<1>6. 0 \in T
  <2>1. Pow[0] = 1
    BY Powers
  <2>2. 1 < M
    <3>1. 0 \in Nat /\ 0 <= SizeLen /\ 0 < SizeLen
      BY <1>2
    <3>2. Pow[0] < M
      BY <1>5, <3>1
    <3> QED
      BY <2>1, <3>2
  <2>3. v % 1 = 0 /\ 1 % M = 1
    BY <1>3, <2>2
  <2> QED
    BY <1>1, <2>1, <2>3 DEF Decoding
<1>7. ASSUME NEW k \in Nat, k \in T PROVE k + 1 \in T
  <2>1. CASE ~ (k + 1 <= Len(bytes))
    BY <2>1
  <2>2. CASE k + 1 <= Len(bytes)
    <3>1. k + 1 \in 1 .. Len(bytes) /\ (k + 1) - 1 = k /\ k <= Len(bytes) /\ k < SizeLen /\ k + 1 <= SizeLen
          /\ k + 1 \in Nat
      BY <1>2, <2>2
    <3>2. PICK p, d, r : p = Pow[k] /\ d = (v \div Pow[k]) % Base /\ r = v % Pow[k]
      OBVIOUS
    <3>3. p \in Nat /\ p > 0 /\ p < M /\ d \in Nat /\ r \in 0 .. (p - 1) /\ Pow[k + 1] = Base * p
      <4>1. Pow[k] \in Nat /\ Pow[k] > 0 /\ Pow[k + 1] = Base * Pow[k]
        BY <1>4
      <4>2. Pow[k] < M
        <5>1. k <= SizeLen /\ k < SizeLen
          BY <1>2, <3>1
        <5> QED
          BY <1>5, <5>1
      <4>3. d \in Byte /\ r \in 0 .. (p - 1)
        BY <3>2, Digits
      <4> QED
        BY <1>2, <3>2, <4>1, <4>2, <4>3 DEF Byte
    <3>4. loop[k].total = r /\ loop[k].multiplier = p
      <4>1. p % M = p
        BY <1>3, <3>3
      <4> QED
        BY <1>7, <3>1, <3>2, <4>1
    <3>5. bytes[k + 1] = d
      BY <3>1, <3>2
    <3>6. loop[k + 1].total = (r + d * p) % M /\ loop[k + 1].multiplier = (p * Base) % M
      BY <1>1, <3>1, <3>4, <3>5 DEF Decoding, M
    <3>7. v % Pow[k + 1] = r + d * p /\ v % Pow[k + 1] \in 0 .. (Pow[k + 1] - 1)
      BY <3>1, <3>2, Digits
    <3>8. Pow[k + 1] <= M /\ Pow[k + 1] \in Nat
      BY <1>4, <1>5, <3>1
    <3>9. (r + d * p) % M = r + d * p
      <4>1. PICK x : x = r + d * p
        OBVIOUS
      <4>2. x \in 0 .. (M - 1)
        BY <1>3, <3>7, <3>8, <4>1
      <4>3. x % M = x
        BY <1>3, <4>2
      <4> QED
        BY <4>1, <4>3
    <3>10. p * Base = Base * p
      BY <1>2, <3>3
    <3>11. loop[k + 1].total = v % Pow[k + 1] /\ loop[k + 1].multiplier = Pow[k + 1] % M
      BY <3>3, <3>6, <3>7, <3>9, <3>10
    <3> QED
      BY <3>11
  <2> QED
    BY <2>1, <2>2
<1> HIDE DEF T
<1>8. Nat \subseteq T
  BY <1>6, <1>7, Induction
<1>9. Len(bytes) \in T
  BY <1>2, <1>8
<1> QED
  BY <1>1, <1>2, <1>9 DEF T

-----------------------------------------------------------------------------
(* Byte strings *)

\* A slice within the bounds.
LEMMA Between ==
    ASSUME NEW b \in Seq(Byte), NEW m \in Nat \ {0}, NEW n \in Nat, m <= n + 1, n <= Len(b)
    PROVE  /\ SubSeq(b, m, n) \in Seq(Byte)
           /\ Len(SubSeq(b, m, n)) = (n - m) + 1
           /\ \A i \in 1 .. (n - m) + 1 : SubSeq(b, m, n)[i] = b[(m + i) - 1]
<1>1. \A i \in m .. n : b[i] \in Byte
  OBVIOUS
<1>2. m \in Int /\ n \in Int
  OBVIOUS
<1>3. /\ SubSeq(b, m, n) \in Seq(Byte)
      /\ Len(SubSeq(b, m, n)) = IF m <= n THEN n - m + 1 ELSE 0
      /\ \A i \in 1 .. n - m + 1 : SubSeq(b, m, n)[i] = b[m + i - 1]
  BY <1>1, <1>2, SubSeqProperties
<1> QED
  BY <1>3

\* Two byte strings one after the other.
LEMMA Joined ==
    ASSUME NEW x \in Seq(Byte), NEW y \in Seq(Byte)
    PROVE  /\ x \o y \in Seq(Byte)
           /\ Len(x \o y) = Len(x) + Len(y)
           /\ \A i \in 1 .. Len(x) : (x \o y)[i] = x[i]
           /\ \A i \in 1 .. Len(y) : (x \o y)[Len(x) + i] = y[i]
<1>1. Len(x) \in Nat /\ Len(y) \in Nat
  OBVIOUS
<1>2. /\ x \o y \in Seq(Byte)
      /\ Len(x \o y) = Len(x) + Len(y)
      /\ \A i \in 1 .. Len(x) + Len(y) : (x \o y)[i] = IF i <= Len(x) THEN x[i] ELSE y[i - Len(x)]
  BY ConcatProperties
<1>3. ASSUME NEW i \in 1 .. Len(y) PROVE (x \o y)[Len(x) + i] = y[i]
  <2>1. Len(x) + i \in 1 .. Len(x) + Len(y) /\ ~ (Len(x) + i <= Len(x)) /\ (Len(x) + i) - Len(x) = i
    BY <1>1
  <2> QED
    BY <1>2, <2>1
<1>4. ASSUME NEW i \in 1 .. Len(x) PROVE (x \o y)[i] = x[i]
  <2>1. i \in 1 .. Len(x) + Len(y) /\ i <= Len(x)
    BY <1>1
  <2> QED
    BY <1>2, <2>1
<1> QED
  BY <1>2, <1>3, <1>4

\* A slice of the first of two.
LEMMA FrontSlice ==
    ASSUME NEW x \in Seq(Byte), NEW y \in Seq(Byte), NEW m \in Nat \ {0}, NEW n \in Nat,
           m <= n + 1, n <= Len(x)
    PROVE  SubSeq(x \o y, m, n) = SubSeq(x, m, n)
<1>1. x \o y \in Seq(Byte) /\ n <= Len(x \o y)
  BY Joined
<1> DEFINE s == SubSeq(x \o y, m, n)
           t == SubSeq(x, m, n)
<1>2. s \in Seq(Byte) /\ Len(s) = (n - m) + 1 /\ \A i \in 1 .. (n - m) + 1 : s[i] = (x \o y)[(m + i) - 1]
  BY <1>1, Between
<1>3. t \in Seq(Byte) /\ Len(t) = (n - m) + 1 /\ \A i \in 1 .. (n - m) + 1 : t[i] = x[(m + i) - 1]
  BY Between
<1> HIDE DEF s, t
<1>4. ASSUME NEW i \in 1 .. Len(s) PROVE s[i] = t[i]
  <2>1. i \in 1 .. (n - m) + 1 /\ (m + i) - 1 \in 1 .. Len(x)
    BY <1>2
  <2>2. (x \o y)[(m + i) - 1] = x[(m + i) - 1]
    BY <2>1, Joined
  <2> QED
    BY <1>2, <1>3, <2>1, <2>2
<1>5. s = t
  BY <1>2, <1>3, <1>4, SeqEqual
<1> QED
  BY <1>5 DEF s, t

\* The second of two.
LEMMA BackSlice ==
    ASSUME NEW x \in Seq(Byte), NEW y \in Seq(Byte)
    PROVE  SubSeq(x \o y, Len(x) + 1, Len(x) + Len(y)) = y
<1> DEFINE m == Len(x) + 1
           n == Len(x) + Len(y)
           s == SubSeq(x \o y, m, n)
<1>1. x \o y \in Seq(Byte) /\ n <= Len(x \o y) /\ m \in Nat \ {0} /\ n \in Nat /\ m <= n + 1
      /\ Len(y) \in Nat /\ Len(x) \in Nat
  BY Joined
<1>2. (n - m) + 1 = Len(y) /\ \A i \in 1 .. Len(y) : (m + i) - 1 = Len(x) + i
  BY <1>1
<1> HIDE DEF m, n
<1>3. s \in Seq(Byte) /\ Len(s) = (n - m) + 1 /\ \A i \in 1 .. (n - m) + 1 : s[i] = (x \o y)[(m + i) - 1]
  BY <1>1, Between
<1> HIDE DEF s
<1>4. ASSUME NEW i \in 1 .. Len(s) PROVE s[i] = y[i]
  <2>1. i \in 1 .. Len(y) /\ i \in 1 .. (n - m) + 1 /\ (m + i) - 1 = Len(x) + i
    BY <1>2, <1>3
  <2>2. (x \o y)[Len(x) + i] = y[i]
    BY <2>1, Joined
  <2> QED
    BY <1>3, <2>1, <2>2
<1>5. s = y
  BY <1>2, <1>3, <1>4, SeqEqual
<1> QED
  BY <1>5 DEF s, m, n

\* A size of any value that fits its width is written without its trailing zero
\* bytes, in one byte at least, and read as it was: the bytes dropped are zero and
\* the loop of DecodeEndian has not wrapped (cid.go ToBytes, endian.go).
THEOREM SizeRead ==
    ASSUME NEW v \in 0 .. (Pow[SizeLen] - 1)
    PROVE  /\ SizeBytes(v) \in Seq(Byte)
           /\ Len(SizeBytes(v)) > 0
           /\ DecodeEndian(SizeBytes(v)) = v
<1> DEFINE bytes == EncodeEndian(v, SizeLen)
           Kept(n) == /\ n = 1 \/ bytes[n] # 0
                      /\ \A i \in (n + 1) .. SizeLen : bytes[i] = 0
           kept == CHOOSE n \in 1 .. SizeLen : Kept(n)
<1>1. SizeLen \in Nat /\ SizeLen > 0 /\ v \in Nat /\ Pow[SizeLen] \in Nat /\ Pow[SizeLen] > 0
  <2>1. SizeLen \in Nat /\ SizeLen > 0
    BY Widths
  <2>2. Pow[SizeLen] \in Nat /\ Pow[SizeLen] > 0
    BY <2>1, Powers
  <2> QED
    BY <2>1, <2>2
<1>2. /\ bytes \in Seq(Byte)
      /\ Len(bytes) = SizeLen
      /\ \A i \in 1 .. SizeLen : bytes[i] = (v \div Pow[i - 1]) % Base
  BY <1>1, EncodeType
<1> HIDE DEF bytes
<1>3. \E n \in 1 .. SizeLen : Kept(n)
  <2> DEFINE T == {n \in 1 .. SizeLen : \A i \in (n + 1) .. SizeLen : bytes[i] = 0}
  <2>1. SizeLen \in T /\ T \in SUBSET Nat
    BY <1>1
  <2> HIDE DEF T
  <2>2. PICK m \in T : \A n \in T : m <= n
    BY <2>1, Least
  <2>3. m \in 1 .. SizeLen /\ \A i \in (m + 1) .. SizeLen : bytes[i] = 0
    BY <2>2 DEF T
  <2>4. ASSUME m # 1, bytes[m] = 0 PROVE FALSE
    <3>1. m - 1 \in 1 .. SizeLen
      BY <1>1, <2>3, <2>4
    <3>2. ASSUME NEW i \in ((m - 1) + 1) .. SizeLen PROVE bytes[i] = 0
      <4>1. i = m \/ i \in (m + 1) .. SizeLen
        BY <1>1, <2>3
      <4> QED
        BY <2>3, <2>4, <4>1
    <3>3. m - 1 \in T
      BY <3>1, <3>2 DEF T
    <3>4. m <= m - 1
      BY <2>2, <3>3
    <3> QED
      BY <2>3, <3>4
  <2> QED
    BY <2>3, <2>4
<1>4. kept \in 1 .. SizeLen /\ Kept(kept)
  BY <1>3
<1>5. SizeBytes(v) = SubSeq(bytes, 1, kept)
  BY DEF SizeBytes, bytes
<1> HIDE DEF kept
<1> DEFINE s == SubSeq(bytes, 1, kept)
<1>6. s \in Seq(Byte) /\ Len(s) = kept /\ \A i \in 1 .. kept : s[i] = bytes[i]
  <2>1. 1 \in Nat \ {0} /\ kept \in Nat /\ 1 <= kept + 1 /\ kept <= Len(bytes) /\ (kept - 1) + 1 = kept
        /\ \A i \in 1 .. kept : (1 + i) - 1 = i
    BY <1>1, <1>2, <1>4
  <2>2. /\ SubSeq(bytes, 1, kept) \in Seq(Byte)
        /\ Len(SubSeq(bytes, 1, kept)) = (kept - 1) + 1
        /\ \A i \in 1 .. (kept - 1) + 1 : SubSeq(bytes, 1, kept)[i] = bytes[(1 + i) - 1]
    BY <1>2, <2>1, Between
  <2> QED
    BY <2>1, <2>2
<1> HIDE DEF s
<1>7. DecodeEndian(s) = v % Pow[kept]
  <2>1. Len(s) <= SizeLen
    BY <1>1, <1>4, <1>6
  <2>2. \A i \in 1 .. Len(s) : s[i] = (v \div Pow[i - 1]) % Base
    BY <1>1, <1>2, <1>4, <1>6
  <2> QED
    BY <1>1, <1>6, <2>1, <2>2, DecodeOfEncode
<1>8. v % Pow[kept] = v % Pow[SizeLen]
  <2> DEFINE T == {k \in Nat : kept + k <= SizeLen => v % Pow[kept + k] = v % Pow[kept]}
  <2>1. 0 \in T
    BY <1>4
  <2>2. ASSUME NEW k \in Nat, k \in T PROVE k + 1 \in T
    <3>1. CASE ~ (kept + (k + 1) <= SizeLen)
      BY <3>1
    <3>2. CASE kept + (k + 1) <= SizeLen
      <4>1. PICK j \in Nat : j = kept + k
        BY <1>4
      <4>2. j + 1 = kept + (k + 1) /\ j + 1 \in (kept + 1) .. SizeLen /\ j + 1 \in 1 .. SizeLen
            /\ (j + 1) - 1 = j /\ kept + k <= SizeLen
        BY <1>1, <1>4, <3>2, <4>1
      <4>3. (v \div Pow[j]) % Base = 0
        BY <1>2, <1>4, <4>2
      <4>4. v % Pow[j + 1] = (v % Pow[j]) + ((v \div Pow[j]) % Base) * Pow[j]
        BY <1>1, Digits
      <4>5. v % Pow[j] \in Nat /\ Pow[j] \in Nat
        <5>1. Pow[j] \in Nat /\ Pow[j] > 0
          BY Powers
        <5> QED
          BY <1>1, <5>1, DivMod
      <4>6. v % Pow[j + 1] = v % Pow[j]
        BY <4>3, <4>4, <4>5
      <4>7. v % Pow[j] = v % Pow[kept]
        BY <2>2, <4>1, <4>2
      <4> QED
        BY <4>2, <4>6, <4>7
    <3> QED
      BY <3>1, <3>2
  <2> HIDE DEF T
  <2>3. Nat \subseteq T
    BY <2>1, <2>2, Induction
  <2>4. SizeLen - kept \in T /\ kept + (SizeLen - kept) = SizeLen
    BY <1>1, <1>4, <2>3
  <2> QED
    BY <1>1, <2>4 DEF T
<1>9. v % Pow[SizeLen] = v
  BY <1>1
<1> QED
  BY <1>4, <1>5, <1>6, <1>7, <1>8, <1>9 DEF s

-----------------------------------------------------------------------------
(* CIDs *)

\* The types are bytes, and those the codec singles out differ.
LEMMA TypesAreBytes == CIDTypeMap \subseteq Byte /\ Bridge \in CIDTypeMap /\ Raw \in CIDTypeMap
                       /\ Resolver \in CIDTypeMap /\ Raw # Bridge /\ Raw # Resolver
                       /\ Bridge # Resolver /\ EncryptedStatic \in Byte
BY CidAssumption DEF CIDTypeMap

\* Canonical field by field.
LEMMA CanonicalIs ==
    ASSUME NEW c \in CIDValues
    PROVE  /\ Canonical(c) = NewCID(c.type, c.hash, IF c.type = Raw THEN c.size ELSE 0)
           /\ Canonical(c) \in CIDValues
<1>1. 0 \in 0 .. (Pow[SizeLen] - 1)
  <2>1. SizeLen \in Nat
    BY Widths
  <2>2. Pow[SizeLen] \in Nat /\ Pow[SizeLen] > 0
    BY <2>1, Powers
  <2> QED
    BY <2>2
<1>2. Canonical(c) = NewCID(c.type, c.hash, IF c.type = Raw THEN c.size ELSE 0)
  BY DEF Canonical, NewCID, CIDValues
<1> QED
  BY <1>1, <1>2 DEF NewCID, CIDValues

\* initCID makes a CID of any bytes, or an error, or leaves the slice: that only
\* for a bridge CID that is too short (encoding/cid.go initCID).
THEOREM ReadAny ==
    ASSUME NEW bytes \in Seq(Byte)
    PROVE  \/ initCID(bytes) = Error
           \/ /\ initCID(bytes) = Overrun
              /\ bytes # <<>> /\ bytes[1] = Bridge /\ Len(bytes) < HashLen + 2
           \/ \E c \in CIDValues : initCID(bytes) = Ok(c)
<1>1. HashLen \in Nat /\ HashLen > 0 /\ Len(bytes) \in Nat /\ SizeLen \in Nat
  BY Widths
<1>2. Pow[SizeLen] \in Nat /\ Pow[SizeLen] > 0
  BY <1>1, Powers
<1>3. CASE bytes = <<>>
  BY <1>3 DEF initCID
<1>4. CASE bytes # <<>> /\ bytes[1] = Bridge
  <2>1. CASE Len(bytes) < HashLen + 2
    BY <1>4, <2>1 DEF initCID
  <2>2. CASE ~ (Len(bytes) < HashLen + 2)
    <3> DEFINE h == SubSeq(bytes, 2, HashLen + 2)
               c == NewCID(Bridge, h, 0)
    <3>1. 2 \in Nat \ {0} /\ HashLen + 2 \in Nat /\ 2 <= (HashLen + 2) + 1 /\ HashLen + 2 <= Len(bytes)
          /\ ((HashLen + 2) - 2) + 1 = HashLen + 1
      BY <1>1, <2>2
    <3>2. h \in Seq(Byte) /\ Len(h) = ((HashLen + 2) - 2) + 1
      BY <3>1, Between
    <3>3. initCID(bytes) = Ok(c)
      BY <1>4, <2>2 DEF initCID
    <3> HIDE DEF h
    <3>4. c \in CIDValues
      BY <1>2, <3>1, <3>2, TypesAreBytes DEF CIDValues, NewCID
    <3> QED
      BY <3>3, <3>4
  <2> QED
    BY <2>1, <2>2
<1>5. CASE bytes # <<>> /\ bytes[1] # Bridge
  <2>1. CASE Len(bytes) < HashLen + 1 \/ bytes[1] \notin CIDTypeMap
    BY <1>5, <2>1 DEF initCID
  <2>2. CASE ~ (Len(bytes) < HashLen + 1 \/ bytes[1] \notin CIDTypeMap)
    <3> DEFINE h == SubSeq(bytes, 2, HashLen + 1)
               z == SubSeq(bytes, HashLen + 2, Len(bytes))
               c == NewCID(bytes[1], h, DecodeEndian(z))
    <3>1. 2 \in Nat \ {0} /\ HashLen + 1 \in Nat /\ 2 <= (HashLen + 1) + 1 /\ HashLen + 1 <= Len(bytes)
          /\ ((HashLen + 1) - 2) + 1 = HashLen
          /\ HashLen + 2 \in Nat \ {0} /\ HashLen + 2 <= Len(bytes) + 1 /\ Len(bytes) <= Len(bytes)
      BY <1>1, <2>2
    <3>2. h \in Seq(Byte) /\ Len(h) = ((HashLen + 1) - 2) + 1
      BY <3>1, Between
    <3>3. z \in Seq(Byte)
      BY <1>1, <3>1, Between
    <3>4. DecodeEndian(z) \in 0 .. (Pow[SizeLen] - 1)
      BY <3>3, DecodeWidth
    <3>5. initCID(bytes) = Ok(c)
      BY <1>5, <2>2 DEF initCID
    <3> HIDE DEF h, z
    <3>6. c \in CIDValues
      BY <2>2, <3>1, <3>2, <3>4 DEF CIDValues, NewCID
    <3> QED
      BY <3>5, <3>6
  <2> QED
    BY <2>1, <2>2
<1> QED
  BY <1>3, <1>4, <1>5

\* initCID reads a CID from the bytes that ToBytes writes as it was, but for the
\* size of types that have none, exactly if it is not a bridge CID and its hash
\* has the length that initCID assumes (encoding/cid.go ToBytes, initCID).
THEOREM ReadCID ==
    ASSUME NEW c \in CIDValues
    PROVE  /\ ToBytes(c) \in Seq(Byte)
           /\ WellFormed(c) => initCID(ToBytes(c)) = Ok(Canonical(c))
           /\ ~ WellFormed(c) => initCID(ToBytes(c)) # Ok(Canonical(c))
<1> DEFINE b == ToBytes(c)
           h == c.hash
<1>1. c.type \in CIDTypeMap /\ c.type \in Byte /\ h \in Seq(Byte) /\ Len(h) \in {HashLen, HashLen + 1}
      /\ c.size \in 0 .. (Pow[SizeLen] - 1)
  BY TypesAreBytes DEF CIDValues
<1>2. HashLen \in Nat /\ HashLen > 0 /\ Len(h) \in Nat
  BY <1>1, Widths
<1>3. PICK x : x = <<c.type>> \o h
  OBVIOUS
<1>4. x \in Seq(Byte) /\ Len(x) = 1 + Len(h) /\ x[1] = c.type /\ SubSeq(x, 2, Len(h) + 1) = h
  <2>1. <<c.type>> \in Seq(Byte) /\ Len(<<c.type>>) = 1 /\ <<c.type>>[1] = c.type
    BY <1>1
  <2>2. PICK a : a = <<c.type>>
    OBVIOUS
  <2>3. a \in Seq(Byte) /\ Len(a) = 1 /\ a[1] = c.type
    BY <2>1, <2>2
  <2>4. /\ a \o h \in Seq(Byte)
        /\ Len(a \o h) = Len(a) + Len(h)
        /\ \A i \in 1 .. Len(a) : (a \o h)[i] = a[i]
    BY <1>1, <2>3, Joined
  <2>5. SubSeq(a \o h, Len(a) + 1, Len(a) + Len(h)) = h
    BY <1>1, <2>3, BackSlice
  <2>6. Len(a) + 1 = 2 /\ Len(a) + Len(h) = Len(h) + 1 /\ 1 \in 1 .. Len(a)
    BY <1>2, <2>3
  <2> QED
    BY <1>3, <2>2, <2>3, <2>4, <2>5, <2>6
\* The bytes are those of type and hash, and of a size.
<1>5. ASSUME c.type # Bridge
      PROVE  \E z \in Seq(Byte) : /\ b \in Seq(Byte)
                                  /\ Len(b) = (1 + Len(h)) + Len(z)
                                  /\ b[1] = c.type
                                  /\ SubSeq(b, 2, Len(h) + 1) = h
                                  /\ SubSeq(b, Len(h) + 2, Len(b)) = z
                                  /\ DecodeEndian(z) = IF c.type = Raw THEN c.size ELSE 0
  <2>1. CASE c.type = Raw
    <3>1. PICK z : z = SizeBytes(c.size)
      OBVIOUS
    <3>2. z \in Seq(Byte) /\ DecodeEndian(z) = c.size
      BY <1>1, <3>1, SizeRead
    <3>3. b = x \o z
      BY <1>3, <1>5, <2>1, <3>1 DEF ToBytes
    <3>4. /\ x \o z \in Seq(Byte)
          /\ Len(x \o z) = Len(x) + Len(z)
          /\ \A i \in 1 .. Len(x) : (x \o z)[i] = x[i]
      BY <1>4, <3>2, Joined
    <3>5. 2 \in Nat \ {0} /\ Len(h) + 1 \in Nat /\ 2 <= (Len(h) + 1) + 1 /\ Len(h) + 1 <= Len(x)
          /\ 1 \in 1 .. Len(x) /\ Len(x) + 1 = Len(h) + 2
      BY <1>2, <1>4
    <3>6. SubSeq(x \o z, 2, Len(h) + 1) = SubSeq(x, 2, Len(h) + 1)
      BY <1>4, <3>2, <3>5, FrontSlice
    <3>7. SubSeq(x \o z, Len(x) + 1, Len(x) + Len(z)) = z
      BY <1>4, <3>2, BackSlice
    <3> HIDE DEF b, h
    <3>8. /\ b \in Seq(Byte) /\ Len(b) = (1 + Len(h)) + Len(z) /\ b[1] = c.type
          /\ SubSeq(b, 2, Len(h) + 1) = h /\ SubSeq(b, Len(h) + 2, Len(b)) = z
      BY <1>4, <3>3, <3>4, <3>5, <3>6, <3>7
    <3> QED
      BY <2>1, <3>2, <3>8
  <2>2. CASE c.type # Raw
    <3>1. b = x
      BY <1>3, <1>5, <2>2 DEF ToBytes
    <3>2. <<>> \in Seq(Byte) /\ Len(<<>>) = 0
      OBVIOUS
    <3>3. DecodeEndian(<<>>) = 0
      <4>1. PICK z \in Seq(Byte) : z = <<>> /\ Len(z) = 0
        BY <3>2
      <4>2. 0 <= SizeLen /\ Pow[0] = 1 /\ 0 % 1 = 0 /\ 0 \in Nat
        BY Widths, Powers
      <4>3. Len(z) <= SizeLen /\ \A i \in 1 .. Len(z) : z[i] = (0 \div Pow[i - 1]) % Base
        BY <4>1, <4>2
      <4>4. DecodeEndian(z) = 0 % Pow[Len(z)]
        BY <4>2, <4>3, DecodeOfEncode
      <4> QED
        BY <4>1, <4>2, <4>4
    <3>4. SubSeq(x, Len(h) + 2, Len(x)) = <<>>
      <4>1. Len(h) + 2 \in Int /\ Len(x) \in Int /\ Len(x) < Len(h) + 2
        BY <1>2, <1>4
      <4> QED
        BY <4>1, SubSeqEmpty
    <3> HIDE DEF b, h
    <3>5. Len(b) = (1 + Len(h)) + Len(<<>>)
      BY <1>2, <1>4, <3>1, <3>2
    <3> QED
      BY <1>4, <2>2, <3>1, <3>2, <3>3, <3>4, <3>5
  <2> QED
    BY <2>1, <2>2
<1>6. Canonical(c) = NewCID(c.type, h, IF c.type = Raw THEN c.size ELSE 0)
  BY CanonicalIs
<1>7. CASE c.type # Bridge
  <2>1. PICK z \in Seq(Byte) : /\ b \in Seq(Byte)
                               /\ Len(b) = (1 + Len(h)) + Len(z)
                               /\ b[1] = c.type
                               /\ SubSeq(b, 2, Len(h) + 1) = h
                               /\ SubSeq(b, Len(h) + 2, Len(b)) = z
                               /\ DecodeEndian(z) = IF c.type = Raw THEN c.size ELSE 0
    BY <1>5, <1>7
  <2> HIDE DEF b, h
  <2>2. Len(z) \in Nat
    OBVIOUS
  <2>3. b # <<>> /\ ~ (Len(b) < HashLen + 1)
    <3>1. Len(h) = HashLen \/ Len(h) = HashLen + 1
      BY <1>1
    <3>2. Len(b) >= HashLen + 1
      BY <1>2, <2>1, <2>2, <3>1
    <3>3. Len(<<>>) = 0
      OBVIOUS
    <3> QED
      BY <1>2, <2>1, <3>2, <3>3
  <2>4. initCID(b) = Ok(NewCID(c.type, SubSeq(b, 2, HashLen + 1),
                               DecodeEndian(SubSeq(b, HashLen + 2, Len(b)))))
    BY <1>1, <1>7, <2>1, <2>3 DEF initCID
  <2>5. ASSUME WellFormed(c) PROVE initCID(b) = Ok(Canonical(c))
    <3>1. Len(h) = HashLen
      BY <2>5 DEF WellFormed, h
    <3> QED
      BY <1>6, <2>1, <2>4, <3>1
  <2>6. ASSUME ~ WellFormed(c) PROVE initCID(b) # Ok(Canonical(c))
    <3>1. Len(h) = HashLen + 1
      BY <1>1, <1>7, <2>6 DEF WellFormed, h
    <3>2. Len(SubSeq(b, 2, HashLen + 1)) = HashLen
      <4>1. 2 \in Nat \ {0} /\ HashLen + 1 \in Nat /\ 2 <= (HashLen + 1) + 1 /\ HashLen + 1 <= Len(b)
            /\ ((HashLen + 1) - 2) + 1 = HashLen
        BY <1>2, <2>1, <2>2, <2>3
      <4>2. Len(SubSeq(b, 2, HashLen + 1)) = ((HashLen + 1) - 2) + 1
        BY <2>1, <4>1, Between
      <4> QED
        BY <4>1, <4>2
    <3>3. SubSeq(b, 2, HashLen + 1) # h
      BY <1>2, <3>1, <3>2
    <3> QED
      BY <1>6, <2>4, <3>3 DEF Ok, NewCID
  <2> QED
    BY <2>1, <2>5, <2>6 DEF b
<1>8. CASE c.type = Bridge
  <2>1. b = h
    BY <1>8, TypesAreBytes DEF ToBytes
  <2> HIDE DEF b, h
  <2>2. ~ WellFormed(c)
    BY <1>8 DEF WellFormed
  <2>3. Len(h) < HashLen + 2 /\ h # <<>>
    BY <1>1, <1>2
  <2>4. Canonical(c).type = Bridge
    BY <1>6, <1>8 DEF NewCID
  <2>5. CASE h[1] = Bridge
    <3>1. initCID(h) = Overrun
      BY <2>3, <2>5 DEF initCID
    <3>2. Overrun.is # "ok" /\ Ok(Canonical(c)).is = "ok"
      BY DEF Overrun, Ok
    <3> QED
      BY <1>1, <2>1, <2>2, <3>1, <3>2 DEF b
  <2>6. CASE h[1] # Bridge
    <3>1. \/ initCID(h) = Error
          \/ initCID(h) = Ok(NewCID(h[1], SubSeq(h, 2, HashLen + 1),
                                    DecodeEndian(SubSeq(h, HashLen + 2, Len(h)))))
      BY <2>3, <2>6 DEF initCID
    <3>2. Error.is # "ok" /\ Ok(Canonical(c)).is = "ok" /\ Ok(Canonical(c)).val.type = Bridge
      BY <2>4 DEF Error, Ok
    <3>3. \A t, y, n : Ok(NewCID(t, y, n)).val.type = t
      BY DEF Ok, NewCID
    <3>4. initCID(h) # Ok(Canonical(c))
      BY <2>6, <3>1, <3>2, <3>3
    <3> QED
      BY <1>1, <2>1, <2>2, <3>4 DEF b
  <2> QED
    BY <2>5, <2>6
<1> QED
  BY <1>7, <1>8

-----------------------------------------------------------------------------
(* Encrypted CIDs *)

\* The length of what precedes the CID.
CIDOffset == ((3 + HashLen) + KeyLen) + PadLen

\* EncryptedCIDFromBytes makes an encrypted CID of any bytes, or an error, or
\* what initCID makes of the rest; it panics only if the bytes end before the CID
\* begins (encoding/encrypted_cid.go EncryptedCIDFromBytes).
THEOREM ReadAnyEncrypted ==
    ASSUME NEW data \in Seq(Byte)
    PROVE  LET cid == initCID(SubSeq(data, CIDOffset + 1, Len(data)))
           IN  \/ EncryptedCIDFromBytes(data) = Error
               \/ EncryptedCIDFromBytes(data) = Panic /\ Len(data) < CIDOffset
               \/ /\ EncryptedCIDFromBytes(data) = cid
                  /\ Len(data) >= CIDOffset /\ cid.is # "ok"
               \/ \E e \in EncryptedValues : EncryptedCIDFromBytes(data) = Ok(e)
<1> DEFINE key == 3 + HashLen
           pad == key + KeyLen
           rest == SubSeq(data, pad + PadLen + 1, Len(data))
           cid == initCID(rest)
<1>1. /\ HashLen \in Nat /\ HashLen > 0 /\ KeyLen \in Nat /\ KeyLen > 0 /\ PadLen \in Nat /\ PadLen > 0
      /\ Len(data) \in Nat /\ Base \in Nat
  BY Widths
<1>2. /\ key \in Nat /\ pad \in Nat /\ pad > key /\ key > 3 /\ pad + PadLen \in Nat /\ pad + PadLen > pad
      /\ CIDOffset = pad + PadLen
  BY <1>1 DEF CIDOffset
<1>3. CASE data = <<>>
  <2>1. EncryptedCIDFromBytes(data) = Panic
    BY <1>3 DEF EncryptedCIDFromBytes
  <2>2. Len(data) = 0
    BY <1>3
  <2> QED
    BY <1>2, <2>1, <2>2
<1>4. CASE data # <<>> /\ data[1] # EncryptedStatic
  BY <1>4 DEF EncryptedCIDFromBytes
<1>5. CASE data # <<>> /\ data[1] = EncryptedStatic
  <2>1. CASE Len(data) < pad + PadLen
    BY <1>2, <1>5, <2>1 DEF EncryptedCIDFromBytes
  <2>2. CASE ~ (Len(data) < pad + PadLen) /\ cid.is # "ok"
    <3>1. EncryptedCIDFromBytes(data) = cid
      BY <1>5, <2>2 DEF EncryptedCIDFromBytes
    <3> QED
      BY <1>1, <1>2, <2>2, <3>1
  <2>3. CASE ~ (Len(data) < pad + PadLen) /\ cid.is = "ok"
    <3> DEFINE e == NewEncryptedCID(SubSeq(data, 4, key), cid.val, SubSeq(data, key + 1, pad),
                       DecodeEndian(SubSeq(data, pad + 1, pad + PadLen)), data[3], data[2])
    <3>1. EncryptedCIDFromBytes(data) = Ok(e)
      BY <1>5, <2>3 DEF EncryptedCIDFromBytes
    <3>2. cid.val \in CIDValues
      <4>1. rest \in Seq(Byte)
        <5>1. /\ pad + PadLen + 1 \in Nat \ {0} /\ pad + PadLen + 1 <= Len(data) + 1
              /\ Len(data) <= Len(data)
          BY <1>1, <1>2, <2>3
        <5> HIDE DEF pad
        <5> QED
          BY <1>1, <5>1, Between
      <4> HIDE DEF rest
      <4>2. \/ cid = Error \/ cid = Overrun \/ \E c \in CIDValues : cid = Ok(c)
        BY <4>1, ReadAny
      <4> QED
        BY <2>3, <4>2 DEF Error, Overrun, Ok
    <3>3. SubSeq(data, 4, key) \in Seq(Byte) /\ Len(SubSeq(data, 4, key)) = HashLen
      <4>1. 4 \in Nat \ {0} /\ 4 <= key + 1 /\ key <= Len(data) /\ (key - 4) + 1 = HashLen
        BY <1>1, <1>2, <2>3
      <4> HIDE DEF key
      <4> QED
        BY <1>2, <4>1, Between
    <3>4. SubSeq(data, key + 1, pad) \in Seq(Byte) /\ Len(SubSeq(data, key + 1, pad)) = KeyLen
      <4>1. key + 1 \in Nat \ {0} /\ key + 1 <= pad + 1 /\ pad <= Len(data) /\ (pad - (key + 1)) + 1 = KeyLen
        BY <1>1, <1>2, <2>3
      <4> HIDE DEF key, pad
      <4> QED
        BY <1>2, <4>1, Between
    <3>5. DecodeEndian(SubSeq(data, pad + 1, pad + PadLen)) \in Nat
      <4>1. pad + 1 \in Nat \ {0} /\ pad + 1 <= (pad + PadLen) + 1 /\ pad + PadLen <= Len(data)
        BY <1>1, <1>2, <2>3
      <4> HIDE DEF pad
      <4>2. SubSeq(data, pad + 1, pad + PadLen) \in Seq(Byte)
        BY <1>2, <4>1, Between
      <4>3. Pow[SizeLen] \in Nat
        <5>1. SizeLen \in Nat
          BY Widths
        <5> QED
          BY <5>1, Powers
      <4>4. DecodeEndian(SubSeq(data, pad + 1, pad + PadLen)) \in 0 .. (Pow[SizeLen] - 1)
        BY <4>2, DecodeWidth
      <4> QED
        BY <4>3, <4>4
    <3>6. data[2] \in Byte /\ data[3] \in Byte /\ data[3] \in Nat
      <4>1. 2 \in 1 .. Len(data) /\ 3 \in 1 .. Len(data)
        BY <1>1, <1>2, <2>3
      <4>2. data[2] \in Byte /\ data[3] \in Byte
        BY <4>1
      <4> QED
        BY <1>1, <4>2 DEF Byte
    <3>7. e \in EncryptedValues
      <4> HIDE DEF key, pad, cid
      <4> QED
        BY <3>2, <3>3, <3>4, <3>5, <3>6 DEF EncryptedValues, NewEncryptedCID
    <3> HIDE DEF e
    <3> QED
      BY <3>1, <3>7
  <2> QED
    BY <2>1, <2>2, <2>3
<1> QED
  BY <1>3, <1>4, <1>5

\* An encrypted CID once it has been written and read.
EncryptedCanonical(e) ==
  NewEncryptedCID(e.blobHash, Canonical(e.cid), e.key, e.padding % Pow[PadLen],
                  e.chunkPower % Base, e.algorithm)

\* EncryptedCIDFromBytes reads an encrypted CID from the bytes that ToBytes
\* writes as it was, with as much of the padding and of the chunk size as their
\* fields hold, exactly if the CID in it is well formed (encoding/
\* encrypted_cid.go ToBytes, EncryptedCIDFromBytes).
THEOREM ReadEncrypted ==
    ASSUME NEW e \in EncryptedValues, PadLen <= SizeLen
    PROVE  /\ EncryptedToBytes(e) \in Seq(Byte)
           /\ WellFormed(e.cid) => EncryptedCIDFromBytes(EncryptedToBytes(e)) = Ok(EncryptedCanonical(e))
           /\ ~ WellFormed(e.cid) => EncryptedCIDFromBytes(EncryptedToBytes(e)) # Ok(EncryptedCanonical(e))
<1>1. /\ e.blobHash \in Seq(Byte) /\ Len(e.blobHash) = HashLen /\ e.cid \in CIDValues
      /\ e.key \in Seq(Byte) /\ Len(e.key) = KeyLen /\ e.padding \in Nat /\ e.chunkPower \in Nat
      /\ e.algorithm \in Byte
  BY DEF EncryptedValues
<1>2. /\ HashLen \in Nat /\ HashLen > 0 /\ KeyLen \in Nat /\ KeyLen > 0 /\ PadLen \in Nat /\ PadLen > 0
      /\ Base \in Nat /\ Base > 0
  BY Widths
<1>3. PICK a, h, k, p, c : /\ a = <<EncryptedStatic, e.algorithm, e.chunkPower % Base>>
                           /\ h = e.blobHash /\ k = e.key
                           /\ p = EncodeEndian(e.padding, PadLen) /\ c = ToBytes(e.cid)
  OBVIOUS
<1>4. h \in Seq(Byte) /\ Len(h) = HashLen /\ k \in Seq(Byte) /\ Len(k) = KeyLen
  BY <1>1, <1>3
<1>5. a \in Seq(Byte) /\ Len(a) = 3 /\ a[1] = EncryptedStatic /\ a[2] = e.algorithm
      /\ a[3] = e.chunkPower % Base
  <2>1. e.chunkPower % Base \in Byte
    BY <1>1, <1>2, DivMod DEF Byte
  <2>2. EncryptedStatic \in Byte
    BY TypesAreBytes
  <2> QED
    BY <1>1, <1>3, <2>1, <2>2
<1>6. p \in Seq(Byte) /\ Len(p) = PadLen /\ DecodeEndian(p) = e.padding % Pow[PadLen]
  <2>1. p \in Seq(Byte) /\ Len(p) = PadLen
        /\ \A i \in 1 .. PadLen : p[i] = (e.padding \div Pow[i - 1]) % Base
    BY <1>1, <1>2, <1>3, EncodeType
  <2>2. Len(p) <= SizeLen /\ \A i \in 1 .. Len(p) : p[i] = (e.padding \div Pow[i - 1]) % Base
    BY <2>1
  <2>3. DecodeEndian(p) = e.padding % Pow[Len(p)]
    BY <1>1, <2>1, <2>2, DecodeOfEncode
  <2> QED
    BY <2>1, <2>3
<1>7. c \in Seq(Byte)
      /\ (WellFormed(e.cid) => initCID(c) = Ok(Canonical(e.cid)))
      /\ (~ WellFormed(e.cid) => initCID(c) # Ok(Canonical(e.cid)))
  BY <1>1, <1>3, ReadCID
<1>8. PICK x, y, w, d : x = a \o h /\ y = x \o k /\ w = y \o p /\ d = w \o c
  OBVIOUS
<1>9. d = EncryptedToBytes(e)
  BY <1>3, <1>8 DEF EncryptedToBytes
<1> DEFINE key == 3 + HashLen
           pad == key + KeyLen
<1>10. x \in Seq(Byte) /\ Len(x) = key /\ \A i \in 1 .. 3 : x[i] = a[i]
  <2>1. /\ a \o h \in Seq(Byte) /\ Len(a \o h) = Len(a) + Len(h)
        /\ \A i \in 1 .. Len(a) : (a \o h)[i] = a[i]
    BY <1>4, <1>5, Joined
  <2> QED
    BY <1>4, <1>5, <1>8, <2>1
<1>11. key \in Nat /\ pad \in Nat /\ key > 3 /\ pad > key /\ pad + PadLen > pad /\ pad + PadLen \in Nat
  BY <1>2
<1>12. SubSeq(x, 4, key) = h
  <2>1. SubSeq(a \o h, Len(a) + 1, Len(a) + Len(h)) = h
    BY <1>4, <1>5, BackSlice
  <2>2. Len(a) + 1 = 4 /\ Len(a) + Len(h) = key
    BY <1>4, <1>5
  <2> QED
    BY <1>8, <2>1, <2>2
<1> HIDE DEF key
<1>13. /\ y \in Seq(Byte) /\ Len(y) = pad /\ SubSeq(y, key + 1, pad) = k
       /\ \A i \in 1 .. key : y[i] = x[i]
  <2>1. SubSeq(x \o k, Len(x) + 1, Len(x) + Len(k)) = k
    BY <1>4, <1>10, BackSlice
  <2>2. /\ x \o k \in Seq(Byte) /\ Len(x \o k) = Len(x) + Len(k)
        /\ \A i \in 1 .. Len(x) : (x \o k)[i] = x[i]
    BY <1>4, <1>10, Joined
  <2> QED
    BY <1>4, <1>8, <1>10, <2>1, <2>2 DEF pad
<1> HIDE DEF pad
<1>14. /\ w \in Seq(Byte) /\ Len(w) = pad + PadLen /\ SubSeq(w, pad + 1, pad + PadLen) = p
       /\ \A i \in 1 .. pad : w[i] = y[i]
  <2>1. SubSeq(y \o p, Len(y) + 1, Len(y) + Len(p)) = p
    BY <1>6, <1>13, BackSlice
  <2>2. /\ y \o p \in Seq(Byte) /\ Len(y \o p) = Len(y) + Len(p)
        /\ \A i \in 1 .. Len(y) : (y \o p)[i] = y[i]
    BY <1>6, <1>13, Joined
  <2> QED
    BY <1>6, <1>8, <1>13, <2>1, <2>2
<1>15. /\ d \in Seq(Byte) /\ Len(d) = (pad + PadLen) + Len(c)
       /\ SubSeq(d, (pad + PadLen) + 1, (pad + PadLen) + Len(c)) = c
       /\ \A i \in 1 .. pad + PadLen : d[i] = w[i]
  <2>1. SubSeq(w \o c, Len(w) + 1, Len(w) + Len(c)) = c
    BY <1>7, <1>14, BackSlice
  <2>2. /\ w \o c \in Seq(Byte) /\ Len(w \o c) = Len(w) + Len(c)
        /\ \A i \in 1 .. Len(w) : (w \o c)[i] = w[i]
    BY <1>7, <1>14, Joined
  <2> QED
    BY <1>7, <1>8, <1>14, <2>1, <2>2
<1>16. Len(c) \in Nat
  BY <1>7
<1>17. d[1] = EncryptedStatic /\ d[2] = e.algorithm /\ d[3] = e.chunkPower % Base
  <2>1. \A i \in 1 .. 3 : i \in 1 .. key /\ i \in 1 .. pad /\ i \in 1 .. pad + PadLen
    BY <1>11
  <2>2. \A i \in 1 .. 3 : d[i] = a[i]
    BY <1>10, <1>13, <1>14, <1>15, <2>1
  <2> QED
    BY <1>5, <2>2
<1>18. SubSeq(d, 4, key) = h
  <2>1. /\ 4 \in Nat \ {0} /\ 4 <= key + 1 /\ key <= Len(x) /\ key <= Len(y) /\ key <= Len(w)
    BY <1>2, <1>10, <1>11, <1>13, <1>14
  <2>2. SubSeq(x \o k, 4, key) = SubSeq(x, 4, key)
    BY <1>4, <1>10, <1>11, <2>1, FrontSlice
  <2>3. SubSeq(y \o p, 4, key) = SubSeq(y, 4, key)
    BY <1>6, <1>11, <1>13, <2>1, FrontSlice
  <2>4. SubSeq(w \o c, 4, key) = SubSeq(w, 4, key)
    BY <1>7, <1>11, <1>14, <2>1, FrontSlice
  <2> QED
    BY <1>8, <1>12, <2>2, <2>3, <2>4
<1>19. SubSeq(d, key + 1, pad) = k
  <2>1. key + 1 \in Nat \ {0} /\ key + 1 <= pad + 1 /\ pad <= Len(y) /\ pad <= Len(w)
    BY <1>2, <1>11, <1>13, <1>14
  <2>2. SubSeq(y \o p, key + 1, pad) = SubSeq(y, key + 1, pad)
    BY <1>6, <1>11, <1>13, <2>1, FrontSlice
  <2>3. SubSeq(w \o c, key + 1, pad) = SubSeq(w, key + 1, pad)
    BY <1>7, <1>11, <1>14, <2>1, FrontSlice
  <2> QED
    BY <1>8, <1>13, <2>2, <2>3
<1>20. SubSeq(d, pad + 1, pad + PadLen) = p
  <2>1. pad + 1 \in Nat \ {0} /\ pad + 1 <= (pad + PadLen) + 1 /\ pad + PadLen <= Len(w)
    BY <1>2, <1>11, <1>14
  <2>2. SubSeq(w \o c, pad + 1, pad + PadLen) = SubSeq(w, pad + 1, pad + PadLen)
    BY <1>7, <1>11, <1>14, <2>1, FrontSlice
  <2> QED
    BY <1>8, <1>14, <2>2
<1>21. SubSeq(d, pad + PadLen + 1, Len(d)) = c
  BY <1>15
<1>22. d # <<>> /\ ~ (Len(d) < pad + PadLen)
  <2>1. Len(<<>>) = 0
    OBVIOUS
  <2> QED
    BY <1>11, <1>15, <1>16, <2>1
<1> DEFINE got == EncryptedCIDFromBytes(d)
<1>23. got = IF initCID(c).is # "ok" THEN initCID(c)
             ELSE Ok(NewEncryptedCID(h, initCID(c).val, k, DecodeEndian(p), d[3], d[2]))
  BY <1>17, <1>18, <1>19, <1>20, <1>21, <1>22 DEF EncryptedCIDFromBytes, key, pad
<1> HIDE DEF got
<1>24. EncryptedCanonical(e) = NewEncryptedCID(h, Canonical(e.cid), k, DecodeEndian(p), d[3], d[2])
  BY <1>3, <1>6, <1>17 DEF EncryptedCanonical
<1>25. ASSUME WellFormed(e.cid) PROVE got = Ok(EncryptedCanonical(e))
  <2>1. initCID(c) = Ok(Canonical(e.cid))
    BY <1>7, <1>25
  <2>2. initCID(c).is = "ok" /\ initCID(c).val = Canonical(e.cid)
    BY <2>1 DEF Ok
  <2> QED
    BY <1>23, <1>24, <2>2
<1>26. ASSUME ~ WellFormed(e.cid), got = Ok(EncryptedCanonical(e)) PROVE FALSE
  <2>1. got.is = "ok" /\ got.val = EncryptedCanonical(e)
    BY <1>26 DEF Ok
  <2>2. initCID(c).is = "ok" /\ EncryptedCanonical(e) =
           NewEncryptedCID(h, initCID(c).val, k, DecodeEndian(p), d[3], d[2])
    BY <1>23, <2>1 DEF Ok
  <2>3. initCID(c).val = Canonical(e.cid)
    BY <1>24, <2>2 DEF NewEncryptedCID
  <2>4. \E v \in CIDValues : initCID(c) = Ok(v)
    BY <1>7, <2>2, ReadAny DEF Error, Overrun
  <2>5. initCID(c) = Ok(Canonical(e.cid))
    BY <2>3, <2>4 DEF Ok
  <2> QED
    BY <1>7, <1>26, <2>5
<1> QED
  BY <1>9, <1>15, <1>25, <1>26 DEF got
=============================================================================
