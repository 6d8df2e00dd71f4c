-------------------------- MODULE Metadata_proofs ---------------------------
(***************************************************************************)
(* The properties of Metadata, for any documents, CIDs, signatures and     *)
(* wrong bytes.  The first half is about the formats, without any state:   *)
(* what a linked map is after its operations, what encoding and decoding   *)
(* make of each part of a document and hence of a directory or web app,    *)
(* and what reading foreign bytes yields.  The second half is the          *)
(* inductive invariant of the program that edits, publishes and reads.     *)
(***************************************************************************)
EXTENDS Metadata, CidCodec_proofs, FiniteSetTheorems

-----------------------------------------------------------------------------
(* Linked maps *)

\* No key twice, of a linked map that is there.
Distinct(s) == \A i, j \in DOMAIN s : s[i].key = s[j].key => i = j

\* The members of a sequence.
LEMMA Members ==
    ASSUME NEW S, NEW s \in Seq(S)
    PROVE  /\ DOMAIN s = 1 .. Len(s) /\ Len(s) \in Nat
           /\ \A i \in DOMAIN s : s[i] \in S /\ s[i] \in ToSet(s)
           /\ ToSet(s) \subseteq S
           /\ s \in Seq(ToSet(s))
<1>1. DOMAIN s = 1 .. Len(s) /\ Len(s) \in Nat /\ \A i \in DOMAIN s : s[i] \in S
  OBVIOUS
<1>2. \A i \in DOMAIN s : s[i] \in ToSet(s)
  BY DEF ToSet
<1>3. ToSet(s) \subseteq S
  BY <1>1 DEF ToSet
<1>4. s = [i \in 1 .. Len(s) |-> s[i]]
  BY <1>1
<1> QED
  BY <1>1, <1>2, <1>3, <1>4

\* Putting an entry keeps a map one.
LEMMA PutKeeps ==
    ASSUME NEW S, NEW s \in Seq(S), NEW e \in S, Distinct(s)
    PROVE  Put(s, e) \in Seq(S) /\ Distinct(Put(s, e))
<1>1. DOMAIN s = 1 .. Len(s) /\ Len(s) \in Nat /\ \A i \in DOMAIN s : s[i] \in S
  BY Members
<1>2. CASE \E i \in DOMAIN s : s[i].key = e.key
  <2> DEFINE t == [i \in DOMAIN s |-> IF s[i].key = e.key THEN e ELSE s[i]]
  <2>1. Put(s, e) = t
    BY <1>2 DEF Put
  <2>2. t \in Seq(S)
    BY <1>1
  <2>3. \A i \in DOMAIN t : i \in DOMAIN s /\ t[i].key = s[i].key
    OBVIOUS
  <2> HIDE DEF t
  <2>4. Distinct(t)
    BY <2>3 DEF Distinct
  <2> QED
    BY <2>1, <2>2, <2>4
<1>3. CASE ~ \E i \in DOMAIN s : s[i].key = e.key
  <2>1. Put(s, e) = Append(s, e)
    BY <1>3 DEF Put
  <2>2. Append(s, e) \in Seq(S) /\ Len(Append(s, e)) = Len(s) + 1
    BY <1>1
  <2>3. /\ \A i \in 1 .. Len(s) : Append(s, e)[i] = s[i]
        /\ Append(s, e)[Len(s) + 1] = e
        /\ DOMAIN Append(s, e) = 1 .. Len(s) + 1
    BY <1>1
  <2>4. Distinct(Append(s, e))
    <3>1. SUFFICES ASSUME NEW i \in 1 .. Len(s) + 1, NEW j \in 1 .. Len(s) + 1,
                          Append(s, e)[i].key = Append(s, e)[j].key
                   PROVE  i = j
      BY <2>3 DEF Distinct
    <3>2. i \in 1 .. Len(s) \/ i = Len(s) + 1
      BY <1>1
    <3>3. j \in 1 .. Len(s) \/ j = Len(s) + 1
      BY <1>1
    <3> QED
      BY <1>1, <1>3, <2>3, <3>1, <3>2, <3>3 DEF Distinct
  <2> QED
    BY <2>1, <2>2, <2>4
<1> QED
  BY <1>2, <1>3

\* The loop of PutAll.
Putting(entries, S, put) ==
  /\ put \in [0 .. Len(entries) -> Seq(S)]
  /\ put[0] = <<>>
  /\ \A i \in 1 .. Len(entries) : put[i] = Put(put[i - 1], entries[i])

\* The loop that PutAll stands for: each round puts one entry.
LEMMA PutLoop ==
    ASSUME NEW S, NEW entries \in Seq(S)
    PROVE  \E put : Putting(entries, S, put) /\ PutAll(entries) = put[Len(entries)]
<1> DEFINE n == Len(entries)
           step(s, i) == IF i \in 1 .. n THEN Put(s, entries[i]) ELSE s
           G == [x \in Seq(S) \X Nat |-> step(x[1], x[2] + 1)]
<1>1. n \in Nat /\ \A i \in 1 .. n : entries[i] \in S
  BY Members
<1> HIDE DEF n
<1>2. ASSUME NEW s \in Seq(S), NEW e \in S PROVE Put(s, e) \in Seq(S)
  <2>1. DOMAIN s = 1 .. Len(s) /\ Len(s) \in Nat /\ \A i \in DOMAIN s : s[i] \in S
    BY Members
  <2>2. Append(s, e) \in Seq(S)
    OBVIOUS
  <2>3. [i \in DOMAIN s |-> IF s[i].key = e.key THEN e ELSE s[i]] \in Seq(S)
    BY <2>1
  <2> QED
    BY <2>2, <2>3 DEF Put
<1>3. ASSUME NEW s \in Seq(S), NEW i \in Nat PROVE step(s, i) \in Seq(S)
  BY <1>1, <1>2
<1>4. G \in [Seq(S) \X Nat -> Seq(S)]
  <2>1. ASSUME NEW x \in Seq(S) \X Nat PROVE step(x[1], x[2] + 1) \in Seq(S)
    <3> HIDE DEF step
    <3>1. x[1] \in Seq(S) /\ x[2] + 1 \in Nat
      OBVIOUS
    <3> QED
      BY <1>3, <3>1
  <2> HIDE DEF step
  <2> QED
    BY <2>1
<1>5. PICK f \in [0 .. n -> Seq(S)] :
        f[0] = <<>> /\ \A i \in 1 .. n : f[i] = G[<<f[i - 1], i - 1>>]
  <2> HIDE DEF G
  <2>1. <<>> \in Seq(S)
    OBVIOUS
  <2>2. PICK f : RoundsUpto(n, f, Seq(S), <<>>, G)
    BY <1>1, <1>4, <2>1, Loop
  <2> QED
    BY <2>2 DEF RoundsUpto
<1>6. ASSUME NEW i \in 1 .. n PROVE f[i] = Put(f[i - 1], entries[i])
  <2>1. i - 1 \in Nat /\ i - 1 \in 0 .. n /\ (i - 1) + 1 = i
    BY <1>1
  <2>2. <<f[i - 1], i - 1>> \in Seq(S) \X Nat
    BY <1>5, <2>1
  <2>3. G[<<f[i - 1], i - 1>>] = step(f[i - 1], i)
    BY <2>1, <2>2
  <2> QED
    BY <1>5, <2>3
<1> DEFINE F(l) == [i \in 0 .. n |-> IF i = 0 THEN <<>> ELSE Put(l[i - 1], entries[i])]
           loop == CHOOSE l : l = F(l)
<1>7. f = F(f)
  <2>1. ASSUME NEW i \in 0 .. n PROVE f[i] = F(f)[i]
    <3>1. i = 0 \/ i \in 1 .. n
      BY <1>1
    <3> QED
      BY <1>5, <1>6, <3>1
  <2> QED
    BY <1>5, <2>1
<1>8. loop = F(loop)
  BY <1>7
<1>9. PutAll(entries) = loop[n]
  BY DEF PutAll, n
<1> HIDE DEF loop
<1>10. \A i \in 0 .. n : loop[i] = f[i]
  <2> DEFINE T == {i \in Nat : i <= n => loop[i] = f[i]}
  <2>0. 0 \in 0 .. n
    BY <1>1
  <2>1. 0 \in T
    <3>1. F(loop)[0] = <<>>
      BY <2>0
    <3>2. loop[0] = F(loop)[0]
      BY <1>8, Zenon
    <3> QED
      BY <1>5, <3>1, <3>2
  <2>2. ASSUME NEW i \in Nat, i \in T PROVE i + 1 \in T
    <3>1. CASE i + 1 <= n
      <4>1. i + 1 \in 1 .. n /\ i + 1 \in 0 .. n /\ i <= n /\ (i + 1) - 1 = i /\ i + 1 # 0
        BY <1>1, <3>1
      <4>2. loop[i] = f[i]
        BY <2>2, <4>1
      <4> DEFINE j == i + 1
      <4>3. F(loop)[j] = Put(loop[i], entries[j])
        BY <4>1
      <4>4. loop[j] = F(loop)[j]
        BY <1>8, Zenon
      <4>5. f[j] = Put(f[i], entries[j])
        BY <1>6, <4>1
      <4> QED
        BY <4>2, <4>3, <4>4, <4>5
    <3>2. CASE ~ (i + 1 <= n)
      BY <3>2
    <3> QED
      BY <3>1, <3>2
  <2> HIDE DEF T
  <2>3. Nat \subseteq T
    BY <2>1, <2>2, Induction
  <2> QED
    BY <1>1, <2>3 DEF T
<1>11. PutAll(entries) = f[n]
  BY <1>1, <1>9, <1>10
<1>12. Putting(entries, S, f)
  BY <1>5, <1>6 DEF Putting, n
<1> QED
  BY <1>11, <1>12 DEF n

\* What is put one by one is a map, and if no key comes twice the sequence itself.
LEMMA AllPut ==
    ASSUME NEW S, NEW entries \in Seq(S)
    PROVE  /\ PutAll(entries) \in Seq(S)
           /\ Distinct(PutAll(entries))
           /\ Distinct(entries) => PutAll(entries) = entries
<1>1. PICK put : Putting(entries, S, put) /\ PutAll(entries) = put[Len(entries)]
  BY PutLoop
<1> DEFINE n == Len(entries)
<1>2. n \in Nat /\ DOMAIN entries = 1 .. n /\ \A i \in 1 .. n : entries[i] \in S
  BY Members
<1>3. /\ put \in [0 .. n -> Seq(S)]
      /\ put[0] = <<>>
      /\ \A i \in 1 .. n : put[i] = Put(put[i - 1], entries[i])
  BY <1>1 DEF Putting
<1> HIDE DEF n
<1>4. \A i \in 0 .. n : Distinct(put[i])
  <2> DEFINE T == {i \in Nat : i <= n => Distinct(put[i])}
  <2>1. 0 \in T
    BY <1>3 DEF Distinct
  <2>2. ASSUME NEW i \in Nat, i \in T PROVE i + 1 \in T
    <3>1. CASE i + 1 <= n
      <4>1. i + 1 \in 1 .. n /\ i \in 0 .. n /\ i <= n /\ (i + 1) - 1 = i
        BY <1>2, <3>1
      <4>2. Distinct(put[i]) /\ put[i] \in Seq(S) /\ entries[i + 1] \in S
        BY <1>2, <1>3, <2>2, <4>1
      <4>3. put[i + 1] = Put(put[i], entries[i + 1])
        BY <1>3, <4>1
      <4>4. Distinct(Put(put[i], entries[i + 1]))
        BY <4>2, PutKeeps
      <4> QED
        BY <4>3, <4>4
    <3>2. CASE ~ (i + 1 <= n)
      BY <3>2
    <3> QED
      BY <3>1, <3>2
  <2> HIDE DEF T
  <2>3. Nat \subseteq T
    BY <2>1, <2>2, Induction
  <2> QED
    BY <1>2, <2>3 DEF T
<1>5. ASSUME Distinct(entries) PROVE PutAll(entries) = entries
  <2> DEFINE T == {i \in Nat : i <= n => Len(put[i]) = i /\ \A j \in 1 .. i : put[i][j] = entries[j]}
  <2>1. 0 \in T
    BY <1>3
  <2>2. ASSUME NEW i \in Nat, i \in T PROVE i + 1 \in T
    <3>1. CASE i + 1 <= n
      <4>1. i + 1 \in 1 .. n /\ i \in 0 .. n /\ i <= n /\ (i + 1) - 1 = i
        BY <1>2, <3>1
      <4>2. PICK s \in Seq(S) : s = put[i]
        BY <1>3, <4>1
      <4>3. Len(s) = i /\ \A j \in 1 .. i : s[j] = entries[j]
        BY <2>2, <4>1, <4>2
      <4>4. \A j \in DOMAIN s : s[j].key # entries[i + 1].key
        <5>1. DOMAIN s = 1 .. i
          BY <4>2, <4>3
        <5>2. \A j \in 1 .. i : j \in 1 .. n /\ j # i + 1
          BY <1>2, <4>1
        <5> QED
          BY <1>2, <1>5, <4>1, <4>3, <5>1, <5>2 DEF Distinct
      <4>5. put[i + 1] = Append(s, entries[i + 1])
        BY <1>3, <4>1, <4>2, <4>4 DEF Put
      <4>6. PICK e \in S : e = entries[i + 1]
        BY <1>2, <4>1
      <4>7. Len(Append(s, e)) = i + 1 /\ \A j \in 1 .. i + 1 :
              Append(s, e)[j] = IF j = i + 1 THEN e ELSE s[j]
        BY <4>3
      <4>8. \A j \in 1 .. i + 1 : j = i + 1 \/ j \in 1 .. i
        OBVIOUS
      <4> QED
        BY <4>3, <4>5, <4>6, <4>7, <4>8
    <3>2. CASE ~ (i + 1 <= n)
      BY <3>2
    <3> QED
      BY <3>1, <3>2
  <2> HIDE DEF T
  <2>3. Nat \subseteq T
    BY <2>1, <2>2, Induction
  <2>4. Len(put[n]) = n /\ \A j \in 1 .. n : put[n][j] = entries[j]
    BY <1>2, <2>3 DEF T
  <2>5. put[n] \in Seq(S)
    BY <1>2, <1>3
  <2> QED
    BY <1>1, <1>2, <2>4, <2>5 DEF n
<1>6. n \in 0 .. n
  BY <1>2
<1> QED
  BY <1>1, <1>3, <1>4, <1>5, <1>6 DEF n

-----------------------------------------------------------------------------
\* No member twice.
Injective(s) == \A i, j \in DOMAIN s : s[i] = s[j] => i = j

\* Appending, and the members of the longer sequence.
LEMMA Appended ==
    ASSUME NEW S, NEW s \in Seq(S), NEW e \in S
    PROVE  /\ Append(s, e) \in Seq(S)
           /\ ToSet(Append(s, e)) = ToSet(s) \cup {e}
           /\ Injective(s) /\ e \notin ToSet(s) => Injective(Append(s, e))
<1>1. DOMAIN s = 1 .. Len(s) /\ Len(s) \in Nat
  BY Members
<1>0. Append(s, e) \in Seq(S)
  OBVIOUS
<1>2. PICK t \in Seq(S) : t = Append(s, e)
  BY <1>0
<1>3. /\ DOMAIN t = 1 .. Len(s) + 1
      /\ \A i \in 1 .. Len(s) : t[i] = s[i]
      /\ t[Len(s) + 1] = e
  BY <1>1, <1>2
<1>4. \A i \in 1 .. Len(s) + 1 : i \in 1 .. Len(s) \/ i = Len(s) + 1
  BY <1>1
<1>5. Len(s) + 1 \in 1 .. Len(s) + 1 /\ 1 .. Len(s) \subseteq 1 .. Len(s) + 1
  BY <1>1
<1>6. ToSet(t) = ToSet(s) \cup {e}
  BY <1>1, <1>3, <1>4, <1>5 DEF ToSet
<1>7. ASSUME Injective(s), e \notin ToSet(s) PROVE Injective(t)
  <2>1. \A i \in 1 .. Len(s) : s[i] # e
    BY <1>1, <1>7 DEF ToSet
  <2> QED
    BY <1>1, <1>3, <1>4, <1>7, <2>1 DEF Injective
<1> QED
  BY <1>2, <1>6, <1>7

\* The loop of Kept.
Keeping(s, keep, S, kept) ==
  /\ kept \in [0 .. Len(s) -> Seq(S)]
  /\ kept[0] = <<>>
  /\ \A i \in 1 .. Len(s) :
       kept[i] = IF s[i] \in keep THEN Append(kept[i - 1], s[i]) ELSE kept[i - 1]

\* The loop that Kept stands for: each round keeps or drops one member.
LEMMA KeepLoop ==
    ASSUME NEW S, NEW s \in Seq(S), NEW keep
    PROVE  \E kept : Keeping(s, keep, S, kept) /\ Kept(s, keep) = kept[Len(s)]
<1> DEFINE n == Len(s)
           step(k, i) == IF i \in 1 .. n
                         THEN IF s[i] \in keep THEN Append(k, s[i]) ELSE k
                         ELSE k
           G == [x \in Seq(S) \X Nat |-> step(x[1], x[2] + 1)]
<1>1. n \in Nat /\ \A i \in 1 .. n : s[i] \in S
  BY Members
<1> HIDE DEF n
<1>2. ASSUME NEW k \in Seq(S), NEW e \in S PROVE Append(k, e) \in Seq(S)
  OBVIOUS
<1>3. ASSUME NEW k \in Seq(S), NEW i \in Nat PROVE step(k, i) \in Seq(S)
  BY <1>1, <1>2
<1>4. G \in [Seq(S) \X Nat -> Seq(S)]
  <2>1. ASSUME NEW x \in Seq(S) \X Nat PROVE step(x[1], x[2] + 1) \in Seq(S)
    <3> HIDE DEF step
    <3>1. x[1] \in Seq(S) /\ x[2] + 1 \in Nat
      OBVIOUS
    <3> QED
      BY <1>3, <3>1
  <2> HIDE DEF step
  <2> QED
    BY <2>1
<1>5. PICK f \in [0 .. n -> Seq(S)] :
        f[0] = <<>> /\ \A i \in 1 .. n : f[i] = G[<<f[i - 1], i - 1>>]
  <2> HIDE DEF G
  <2>1. <<>> \in Seq(S)
    OBVIOUS
  <2>2. PICK f : RoundsUpto(n, f, Seq(S), <<>>, G)
    BY <1>1, <1>4, <2>1, Loop
  <2> QED
    BY <2>2 DEF RoundsUpto
<1>6. ASSUME NEW i \in 1 .. n
      PROVE  f[i] = IF s[i] \in keep THEN Append(f[i - 1], s[i]) ELSE f[i - 1]
  <2>1. i - 1 \in Nat /\ i - 1 \in 0 .. n /\ (i - 1) + 1 = i
    BY <1>1
  <2>2. <<f[i - 1], i - 1>> \in Seq(S) \X Nat
    BY <1>5, <2>1
  <2>3. G[<<f[i - 1], i - 1>>] = step(f[i - 1], i)
    BY <2>1, <2>2
  <2> QED
    BY <1>5, <2>3
<1> DEFINE F(l) == [i \in 0 .. n |->
                      IF i = 0 THEN <<>>
                      ELSE IF s[i] \in keep THEN Append(l[i - 1], s[i]) ELSE l[i - 1]]
           loop == CHOOSE l : l = F(l)
<1>7. f = F(f)
  <2>1. ASSUME NEW i \in 0 .. n PROVE f[i] = F(f)[i]
    <3>1. i = 0 \/ i \in 1 .. n
      BY <1>1
    <3> QED
      BY <1>5, <1>6, <3>1
  <2> QED
    BY <1>5, <2>1
<1>8. loop = F(loop)
  BY <1>7
<1>9. Kept(s, keep) = loop[n]
  BY DEF Kept, n
<1> HIDE DEF loop
<1>10. \A i \in 0 .. n : loop[i] = f[i]
  <2> DEFINE T == {i \in Nat : i <= n => loop[i] = f[i]}
  <2>0. 0 \in 0 .. n
    BY <1>1
  <2>1. 0 \in T
    <3>1. F(loop)[0] = <<>>
      BY <2>0
    <3>2. loop[0] = F(loop)[0]
      BY <1>8, Zenon
    <3> QED
      BY <1>5, <3>1, <3>2
  <2>2. ASSUME NEW i \in Nat, i \in T PROVE i + 1 \in T
    <3>1. CASE i + 1 <= n
      <4>1. i + 1 \in 1 .. n /\ i + 1 \in 0 .. n /\ i <= n /\ (i + 1) - 1 = i /\ i + 1 # 0
        BY <1>1, <3>1
      <4>2. loop[i] = f[i]
        BY <2>2, <4>1
      <4> DEFINE j == i + 1
      <4>3. F(loop)[j] = IF s[j] \in keep THEN Append(loop[i], s[j]) ELSE loop[i]
        BY <4>1
      <4>4. loop[j] = F(loop)[j]
        BY <1>8, Zenon
      <4>5. f[j] = IF s[j] \in keep THEN Append(f[i], s[j]) ELSE f[i]
        BY <1>6, <4>1
      <4> QED
        BY <4>2, <4>3, <4>4, <4>5
    <3>2. CASE ~ (i + 1 <= n)
      BY <3>2
    <3> QED
      BY <3>1, <3>2
  <2> HIDE DEF T
  <2>3. Nat \subseteq T
    BY <2>1, <2>2, Induction
  <2> QED
    BY <1>1, <2>3 DEF T
<1>11. Kept(s, keep) = f[n]
  BY <1>1, <1>9, <1>10
<1>12. Keeping(s, keep, S, f)
  BY <1>5, <1>6 DEF Keeping, n
<1> QED
  BY <1>11, <1>12 DEF n

\* Kept is the sequence of those members, none twice if none was before.
LEMMA AllKept ==
    ASSUME NEW S, NEW s \in Seq(S), NEW keep
    PROVE  /\ Kept(s, keep) \in Seq(S)
           /\ ToSet(Kept(s, keep)) = ToSet(s) \cap keep
           /\ Injective(s) => Injective(Kept(s, keep))
<1>1. PICK kept : Keeping(s, keep, S, kept) /\ Kept(s, keep) = kept[Len(s)]
  BY KeepLoop
<1> DEFINE n == Len(s)
           first(i) == {s[j] : j \in 1 .. i}
           T == {i \in Nat : i <= n => /\ ToSet(kept[i]) = first(i) \cap keep
                                       /\ Injective(s) => Injective(kept[i])}
<1>2. n \in Nat /\ DOMAIN s = 1 .. n /\ \A i \in 1 .. n : s[i] \in S
  BY Members
<1>3. /\ kept \in [0 .. n -> Seq(S)]
      /\ kept[0] = <<>>
      /\ \A i \in 1 .. n :
           kept[i] = IF s[i] \in keep THEN Append(kept[i - 1], s[i]) ELSE kept[i - 1]
  BY <1>1 DEF Keeping
<1> HIDE DEF n
<1>4. 0 \in T
  <2>1. ToSet(<<>>) = {} /\ first(0) = {} /\ Injective(<<>>)
    BY DEF ToSet, Injective
  <2> QED
    BY <1>3, <2>1
<1>5. ASSUME NEW i \in Nat, i \in T PROVE i + 1 \in T
  <2>1. CASE i + 1 <= n
    <3>1. i + 1 \in 1 .. n /\ i \in 0 .. n /\ i <= n /\ (i + 1) - 1 = i
      BY <1>2, <2>1
    <3>2. PICK k \in Seq(S), e \in S : k = kept[i] /\ e = s[i + 1]
      BY <1>2, <1>3, <3>1
    <3>3. /\ ToSet(k) = first(i) \cap keep
          /\ Injective(s) => Injective(k)
      BY <1>5, <3>1, <3>2
    <3>4. first(i + 1) = first(i) \cup {e}
      <4>1. \A j \in 1 .. i + 1 : j \in 1 .. i \/ j = i + 1
        OBVIOUS
      <4>2. 1 .. i \subseteq 1 .. i + 1 /\ i + 1 \in 1 .. i + 1
        OBVIOUS
      <4> QED
        BY <3>2, <4>1, <4>2
    <3>5. kept[i + 1] = IF e \in keep THEN Append(k, e) ELSE k
      BY <1>3, <3>1, <3>2
    <3>6. Injective(s) => e \notin first(i)
      <4>1. \A j \in 1 .. i : j \in 1 .. n /\ j # i + 1
        BY <1>2, <3>1
      <4> QED
        BY <1>2, <3>1, <3>2, <4>1 DEF Injective
    <3> HIDE DEF first
    <3>7. /\ ToSet(Append(k, e)) = ToSet(k) \cup {e}
          /\ Injective(k) /\ e \notin ToSet(k) => Injective(Append(k, e))
      BY Appended
    <3>8. ToSet(kept[i + 1]) = first(i + 1) \cap keep
      BY <3>3, <3>4, <3>5, <3>7
    <3>9. Injective(s) => Injective(kept[i + 1])
      BY <3>3, <3>5, <3>6, <3>7
    <3> QED
      BY <3>8, <3>9
  <2>2. CASE ~ (i + 1 <= n)
    BY <2>2
  <2> QED
    BY <2>1, <2>2
<1> HIDE DEF T
<1>6. Nat \subseteq T
  BY <1>4, <1>5, Induction
<1>7. /\ ToSet(kept[n]) = first(n) \cap keep
      /\ Injective(s) => Injective(kept[n])
  <2>1. n \in T /\ n <= n
    BY <1>2, <1>6
  <2> HIDE DEF first
  <2> QED
    BY <2>1 DEF T
<1>8. first(n) = ToSet(s)
  BY <1>2 DEF ToSet
<1>9. kept[n] \in Seq(S)
  BY <1>2, <1>3
<1> QED
  BY <1>1, <1>7, <1>8, <1>9 DEF n

-----------------------------------------------------------------------------
(* Sorted paths *)

\* The keys of paths, sorted.
KeysOf(paths) == Kept(PathOrder, {p.key : p \in ToSet(paths)})

\* The keys of a map of paths, sorted, are those of the map, each once.
LEMMA KeysSorted ==
    ASSUME NEW paths
    PROVE  /\ KeysOf(paths) \in Seq(ToSet(PathOrder))
           /\ ToSet(KeysOf(paths)) = ToSet(PathOrder) \cap {p.key : p \in ToSet(paths)}
           /\ Injective(KeysOf(paths))
<1>1. PICK present : present = {p.key : p \in ToSet(paths)}
  OBVIOUS
<1>2. PathOrder \in Seq(ToSet(PathOrder)) /\ Injective(PathOrder)
  BY PathAssumption DEF Injective
<1>3. KeysOf(paths) = Kept(PathOrder, present)
  BY <1>1 DEF KeysOf
<1> QED
  BY <1>1, <1>2, <1>3, AllKept

\* Sort yields the entries with these keys.
LEMMA Sorted ==
    ASSUME NEW K, NEW paths \in Seq([key : K, cid : CIDValues])
    PROVE  /\ Sort(paths) \in Seq(PathEntry)
           /\ DOMAIN Sort(paths) = DOMAIN KeysOf(paths)
           /\ \A i \in DOMAIN Sort(paths) :
                Sort(paths)[i].key = KeysOf(paths)[i] /\ Sort(paths)[i] \in ToSet(paths)
           /\ Distinct(Sort(paths))
<1> DEFINE keys == KeysOf(paths)
           entry(i) == CHOOSE p \in ToSet(paths) : p.key = keys[i]
           sorted == [i \in DOMAIN keys |-> entry(i)]
<1>1. /\ keys \in Seq(ToSet(PathOrder))
      /\ ToSet(keys) = ToSet(PathOrder) \cap {p.key : p \in ToSet(paths)}
      /\ Injective(keys)
  BY KeysSorted
<1>2. Sort(paths) = sorted
  BY DEF Sort, KeysOf
<1>3. ToSet(paths) \subseteq [key : K, cid : CIDValues]
  BY Members
<1> HIDE DEF keys
<1>4. ASSUME NEW i \in DOMAIN keys
      PROVE  /\ entry(i) \in ToSet(paths)
             /\ entry(i).key = keys[i]
             /\ entry(i) \in PathEntry
  <2>1. keys[i] \in ToSet(keys) /\ keys[i] \in ToSet(PathOrder)
    BY <1>1 DEF ToSet
  <2>2. \E p \in ToSet(paths) : p.key = keys[i]
    BY <1>1, <2>1
  <2>3. entry(i) \in ToSet(paths) /\ entry(i).key = keys[i]
    BY <2>2
  <2> QED
    BY <1>3, <2>1, <2>3 DEF PathEntry
<1> HIDE DEF entry
<1>5. sorted \in Seq(PathEntry)
  <2>1. DOMAIN keys = 1 .. Len(keys) /\ Len(keys) \in Nat
    BY <1>1
  <2> QED
    BY <1>4, <2>1
<1>6. Distinct(sorted)
  BY <1>1, <1>4 DEF Distinct, Injective
<1> QED
  BY <1>2, <1>4, <1>5, <1>6 DEF keys

\* The order of insertion does not matter.
LEMMA SortOfSet ==
    ASSUME NEW a, NEW b, ToSet(a) = ToSet(b)
    PROVE  Sort(a) = Sort(b)
BY DEF Sort

\* Sorting entries with the keys of a sorted map in their order changes nothing.
LEMMA SortedAlready ==
    ASSUME NEW paths \in Seq(PathEntry), NEW rows \in Seq(PathEntry),
           DOMAIN rows = DOMAIN Sort(paths),
           \A i \in DOMAIN rows : rows[i].key = Sort(paths)[i].key
    PROVE  Distinct(rows) /\ Sort(rows) = rows
<1> DEFINE keys == KeysOf(paths)
           present(s) == {p.key : p \in ToSet(s)}
<1>1. /\ DOMAIN Sort(paths) = DOMAIN keys
      /\ \A i \in DOMAIN Sort(paths) : Sort(paths)[i].key = keys[i]
  <2>1. paths \in Seq([key : ToSet(PathOrder), cid : CIDValues])
    BY DEF PathEntry
  <2> QED
    BY <2>1, Sorted
<1>2. /\ keys \in Seq(ToSet(PathOrder))
      /\ ToSet(keys) = ToSet(PathOrder) \cap present(paths)
      /\ Injective(keys)
  BY KeysSorted
<1>3. ToSet(paths) \subseteq PathEntry
  BY Members
<1>4. present(paths) \subseteq ToSet(PathOrder)
  BY <1>3 DEF PathEntry
<1> HIDE DEF keys
<1>5. \A i \in DOMAIN rows : rows[i].key = keys[i]
  BY <1>1
<1>6. present(rows) = ToSet(keys)
  BY <1>1, <1>5 DEF ToSet
<1>7. KeysOf(rows) = keys
  <2>1. present(rows) = present(paths)
    BY <1>2, <1>4, <1>6
  <2> QED
    BY <2>1 DEF KeysOf, keys
<1>8. Distinct(rows)
  BY <1>1, <1>2, <1>5 DEF Distinct, Injective
<1>9. /\ DOMAIN Sort(rows) = DOMAIN rows
      /\ \A i \in DOMAIN Sort(rows) : Sort(rows)[i].key = keys[i] /\ Sort(rows)[i] \in ToSet(rows)
      /\ Sort(rows) \in Seq(PathEntry)
  <2>1. rows \in Seq([key : ToSet(PathOrder), cid : CIDValues])
    BY DEF PathEntry
  <2> QED
    BY <1>1, <1>7, <2>1, Sorted
<1>10. ASSUME NEW i \in DOMAIN rows PROVE Sort(rows)[i] = rows[i]
  <2>1. PICK j \in DOMAIN rows : Sort(rows)[i] = rows[j]
    BY <1>9 DEF ToSet
  <2>2. rows[j].key = rows[i].key
    BY <1>5, <1>9, <2>1
  <2> QED
    BY <1>8, <2>1, <2>2 DEF Distinct
<1> QED
  BY <1>8, <1>9, <1>10

-----------------------------------------------------------------------------
(* Maps that are written and read *)

IsSeq(s) == s \in Seq(ToSet(s))

\* Two sequences, one after the other.
LEMMA Joins ==
    ASSUME NEW a, IsSeq(a), NEW b, IsSeq(b)
    PROVE  IsSeq(a \o b) /\ ToSet(a \o b) = ToSet(a) \cup ToSet(b)
<1>1. PICK S : S = ToSet(a) \cup ToSet(b)
  OBVIOUS
<1>2. a \in Seq(S) /\ b \in Seq(S)
  BY <1>1 DEF IsSeq
<1>3. /\ DOMAIN a = 1 .. Len(a) /\ Len(a) \in Nat
      /\ DOMAIN b = 1 .. Len(b) /\ Len(b) \in Nat
  BY <1>2
<1>4. a \o b \in Seq(S)
  BY <1>2
<1>5. /\ DOMAIN (a \o b) = 1 .. Len(a) + Len(b)
      /\ \A i \in 1 .. Len(a) : (a \o b)[i] = a[i]
      /\ \A i \in 1 .. Len(a) + Len(b) : i > Len(a) => (a \o b)[i] = b[i - Len(a)]
  BY <1>2, <1>3
<1>6. PICK c : c = a \o b
  OBVIOUS
<1>7. ASSUME NEW x \in ToSet(a) PROVE x \in ToSet(c)
  <2>1. PICK i \in 1 .. Len(a) : x = a[i]
    BY <1>3 DEF ToSet
  <2>2. i \in 1 .. Len(a) + Len(b)
    BY <1>3
  <2> QED
    BY <1>5, <1>6, <2>1, <2>2 DEF ToSet
<1>8. ASSUME NEW x \in ToSet(b) PROVE x \in ToSet(c)
  <2>1. PICK i \in 1 .. Len(b) : x = b[i]
    BY <1>3 DEF ToSet
  <2>2. PICK j : j = Len(a) + i
    OBVIOUS
  <2>3. j \in 1 .. Len(a) + Len(b) /\ j > Len(a) /\ j - Len(a) = i
    BY <1>3, <2>2
  <2> QED
    BY <1>5, <1>6, <2>1, <2>3 DEF ToSet
<1>9. c \in Seq(S) /\ ToSet(c) \subseteq S
  BY <1>4, <1>6, Members
<1>10. ToSet(c) = S
  BY <1>1, <1>7, <1>8, <1>9
<1> QED
  BY <1>1, <1>6, <1>9, <1>10 DEF IsSeq

\* The members of short sequences.
LEMMA Tuples ==
    /\ IsSeq(<<>>) /\ ToSet(<<>>) = {}
    /\ \A x : IsSeq(<<x>>) /\ ToSet(<<x>>) = {x}
    /\ \A w, x, y, z : IsSeq(<<w, x, y, z>>) /\ ToSet(<<w, x, y, z>>) = {w, x, y, z}
<1>1. ToSet(<<>>) = {}
  BY DEF ToSet
<1>2. ASSUME NEW x PROVE ToSet(<<x>>) = {x}
  BY DEF ToSet
<1>3. ASSUME NEW w, NEW x, NEW y, NEW z PROVE ToSet(<<w, x, y, z>>) = {w, x, y, z}
  <2>1. PICK s : s = <<w, x, y, z>>
    OBVIOUS
  <2>2. DOMAIN s = {1, 2, 3, 4} /\ s[1] = w /\ s[2] = x /\ s[3] = y /\ s[4] = z
    BY <2>1
  <2> QED
    BY <2>1, <2>2 DEF ToSet
<1> QED
  BY <1>1, <1>2, <1>3 DEF IsSeq

\* A bounded set of numbers that is not empty has a greatest one.
LEMMA Greatest ==
    ASSUME NEW n \in Nat, NEW T \in SUBSET (1 .. n), T # {}
    PROVE  Max(T) \in T
<1> DEFINE U == {n - i : i \in T}
<1>1. U \in SUBSET Nat /\ U # {}
  OBVIOUS
<1> HIDE DEF U
<1>2. PICK m \in U : \A k \in U : m <= k
  BY <1>1, Least
<1>3. PICK i \in T : m = n - i
  BY <1>2 DEF U
<1>4. \A j \in T : n - j \in U
  BY DEF U
<1>5. \A j \in T : i >= j
  BY <1>2, <1>3, <1>4
<1> QED
  BY <1>5 DEF Max

\* The item under a key is that of an entry with the key, or nil if there is none.
LEMMA ItemFound ==
    ASSUME NEW entries, IsSeq(entries), NEW key
    PROVE  \/ /\ \A e \in ToSet(entries) : e.key # key
              /\ ItemAt(entries, key) = Nil
           \/ \E e \in ToSet(entries) : e.key = key /\ ItemAt(entries, key) = e.item
<1> DEFINE hits == {i \in DOMAIN entries : entries[i].key = key}
<1>1. DOMAIN entries = 1 .. Len(entries) /\ Len(entries) \in Nat
  BY DEF IsSeq
<1>2. CASE hits = {}
  BY <1>2 DEF ItemAt, ToSet
<1>3. CASE hits # {}
  <2>1. hits \in SUBSET (1 .. Len(entries))
    BY <1>1
  <2>2. Max(hits) \in hits
    BY <1>1, <1>3, <2>1, Greatest
  <2>3. ItemAt(entries, key) = entries[Max(hits)].item
    BY <1>3 DEF ItemAt
  <2>4. PICK i \in DOMAIN entries : i = Max(hits) /\ entries[i].key = key
    BY <2>2
  <2> QED
    BY <2>3, <2>4 DEF ToSet
<1> QED
  BY <1>2, <1>3

\* What is found under a key that only one entry has.
LEMMA ItemOnly ==
    ASSUME NEW entries, IsSeq(entries), NEW e \in ToSet(entries),
           \A x \in ToSet(entries) : x.key = e.key => x = e
    PROVE  /\ ItemAt(entries, e.key) = e.item
           /\ \A d : At(entries, e.key, d) = Value(e.item)
<1>1. ItemAt(entries, e.key) = e.item
  BY ItemFound
<1> QED
  BY <1>1 DEF At

\* What is found under a key that no entry has.
LEMMA ItemMissing ==
    ASSUME NEW entries, IsSeq(entries), NEW key, \A x \in ToSet(entries) : x.key # key
    PROVE  ItemAt(entries, key) = Nil /\ \A d : At(entries, key, d) = d
<1>1. ItemAt(entries, key) = Nil
  BY ItemFound
<1> QED
  BY <1>1 DEF At

-----------------------------------------------------------------------------
\* All went well, or what went wrong first is the outcome.
LEMMA UnlessOk ==
    ASSUME NEW outcomes, DOMAIN outcomes \subseteq Nat, NEW v
    PROVE  /\ (\A i \in DOMAIN outcomes : outcomes[i].is = "ok") => Unless(outcomes, v) = Ok(v)
           /\ Unless(outcomes, v).is = "ok" =>
                /\ Unless(outcomes, v) = Ok(v)
                /\ \A i \in DOMAIN outcomes : outcomes[i].is = "ok"
<1> DEFINE bad == {i \in DOMAIN outcomes : outcomes[i].is # "ok"}
<1>1. CASE bad = {}
  BY <1>1 DEF Unless
<1>2. CASE bad # {}
  <2>1. bad \in SUBSET Nat
    OBVIOUS
  <2>2. \E m \in bad : \A n \in bad : m <= n
    BY <2>1, <1>2, Least
  <2>3. Min(bad) \in bad
    BY <2>2 DEF Min
  <2>4. Unless(outcomes, v) = outcomes[Min(bad)]
    BY <1>2 DEF Unless
  <2> QED
    BY <2>3, <2>4
<1> QED
  BY <1>1, <1>2

\* The Go types that marshallMapMsgpack knows.
Known == {"*FileReference", "*DirectoryReference", "string", "uint64", "Base64UrlBinary",
          "*FileVersion", "*CID"}

EntriesOf(fields) == [i \in DOMAIN fields |-> Entry(fields[i].key, fields[i].out.val)]

\* A map that could be written is the list of its fields, each under its key.
LEMMA MapWritten ==
    ASSUME NEW fields, IsSeq(fields), marshallMapMsgpack(fields).is = "ok"
    PROVE  /\ \A f \in ToSet(fields) : f.type \in Known /\ f.out.is = "ok"
           /\ marshallMapMsgpack(fields) = Ok(MapOf(EntriesOf(fields)))
           /\ IsSeq(EntriesOf(fields))
           /\ ToSet(EntriesOf(fields)) = {Entry(f.key, f.out.val) : f \in ToSet(fields)}
<1> DEFINE outcomes == [i \in DOMAIN fields |-> IF fields[i].type \in Known
                                                THEN fields[i].out ELSE Error]
<1>1. DOMAIN fields = 1 .. Len(fields) /\ Len(fields) \in Nat
  BY DEF IsSeq
<1>2. marshallMapMsgpack(fields) = Unless(outcomes, MapOf(EntriesOf(fields)))
  BY DEF marshallMapMsgpack, Known, EntriesOf
<1>3. DOMAIN outcomes = DOMAIN fields /\ DOMAIN outcomes \subseteq Nat
  BY <1>1
<1>4. \A i \in DOMAIN fields : outcomes[i].is = "ok" => fields[i].type \in Known /\ fields[i].out.is = "ok"
  BY DEF Error
<1> HIDE DEF outcomes
<1>5. /\ marshallMapMsgpack(fields) = Ok(MapOf(EntriesOf(fields)))
      /\ \A i \in DOMAIN fields : outcomes[i].is = "ok"
  BY <1>2, <1>3, UnlessOk
<1>6. \A f \in ToSet(fields) : f.type \in Known /\ f.out.is = "ok"
  BY <1>4, <1>5 DEF ToSet
<1>7. ToSet(EntriesOf(fields)) = {Entry(f.key, f.out.val) : f \in ToSet(fields)}
  BY DEF ToSet, EntriesOf
<1>8. IsSeq(EntriesOf(fields))
  <2>1. EntriesOf(fields) = [i \in 1 .. Len(fields) |-> EntriesOf(fields)[i]]
    BY <1>1 DEF EntriesOf
  <2>2. \A i \in 1 .. Len(fields) : EntriesOf(fields)[i] \in ToSet(EntriesOf(fields))
    BY <1>1 DEF EntriesOf, ToSet
  <2> QED
    BY <1>1, <2>1, <2>2 DEF IsSeq
<1> QED
  BY <1>5, <1>6, <1>7, <1>8

-----------------------------------------------------------------------------
(* References to directories *)

\* A map with these entries.
Written(out, S) == \E entries : IsSeq(entries) /\ out = Ok(MapOf(entries)) /\ ToSet(entries) = S

DirectoryReferenceEntries(r) ==
  {Entry(1, Str("text")), Entry(2, Number(r.created)),
   Entry(3, KeyItem(r.publicKey)), Entry(4, KeyItem(r.writeKey))}

\* What a reference to a directory is written as, if it can be.
LEMMA DirectoryReferenceWritten ==
    ASSUME NEW r \in DirectoryReference, EncodeDirectoryReference(r).is = "ok"
    PROVE  /\ r.encryptionKey = None /\ r.ext = FALSE
           /\ Written(EncodeDirectoryReference(r), DirectoryReferenceEntries(r))
<1> DEFINE f1 == Field(1, "string", Ok(Str("text")))
           f2 == Field(2, "uint64", Ok(Number(r.created)))
           f3 == Field(3, "Base64UrlBinary", Ok(KeyItem(r.publicKey)))
           f4 == Field(4, "Base64UrlBinary", Ok(KeyItem(r.writeKey)))
           f5 == Field(5, "*Base64UrlBinary", Ok(KeyItem(r.encryptionKey)))
           f6 == Field(6, "map[string]interface{}", Ok(MapOf(<<>>)))
           a == <<f1, f2, f3, f4>>
           b == IF r.encryptionKey = None THEN <<>> ELSE <<f5>>
           c == IF r.ext THEN <<f6>> ELSE <<>>
           fields == (a \o b) \o c
<1>0. r.ext \in BOOLEAN
  BY DEF DirectoryReference
<1>1. EncodeDirectoryReference(r) = marshallMapMsgpack(fields)
  BY DEF EncodeDirectoryReference
<1>2. f5.type \notin Known /\ f6.type \notin Known
  BY DEF Field, Known
<1>3. {Entry(f.key, f.out.val) : f \in {f1, f2, f3, f4}} = DirectoryReferenceEntries(r)
  BY DEF Field, DirectoryReferenceEntries, Ok
<1> HIDE DEF f1, f2, f3, f4, f5, f6
<1>4. /\ IsSeq(a) /\ ToSet(a) = {f1, f2, f3, f4}
      /\ IsSeq(b) /\ ToSet(b) = IF r.encryptionKey = None THEN {} ELSE {f5}
      /\ IsSeq(c) /\ ToSet(c) = IF r.ext THEN {f6} ELSE {}
  <2>1. IsSeq(a) /\ ToSet(a) = {f1, f2, f3, f4}
    BY Tuples
  <2>2. IsSeq(b) /\ ToSet(b) = IF r.encryptionKey = None THEN {} ELSE {f5}
    BY Tuples
  <2>3. IsSeq(c) /\ ToSet(c) = IF r.ext THEN {f6} ELSE {}
    BY <1>0, Tuples
  <2> QED
    BY <2>1, <2>2, <2>3
<1> HIDE DEF a, b, c
<1>5. IsSeq(fields) /\ ToSet(fields) = (ToSet(a) \cup ToSet(b)) \cup ToSet(c)
  <2>1. IsSeq(a \o b) /\ ToSet(a \o b) = ToSet(a) \cup ToSet(b)
    BY <1>4, Joins
  <2> QED
    BY <1>4, <2>1, Joins
<1> HIDE DEF fields
<1>6. /\ \A f \in ToSet(fields) : f.type \in Known /\ f.out.is = "ok"
      /\ marshallMapMsgpack(fields) = Ok(MapOf(EntriesOf(fields)))
      /\ IsSeq(EntriesOf(fields))
      /\ ToSet(EntriesOf(fields)) = {Entry(f.key, f.out.val) : f \in ToSet(fields)}
  BY <1>1, <1>5, MapWritten
<1>7. r.encryptionKey = None /\ r.ext = FALSE
  BY <1>0, <1>2, <1>4, <1>5, <1>6
<1>8. ToSet(fields) = {f1, f2, f3, f4}
  BY <1>4, <1>5, <1>7
<1> QED
  BY <1>1, <1>3, <1>6, <1>7, <1>8 DEF Written

\* A reference comes back without its local fields if its time needs eight bytes
\* and it has both keys; otherwise it is not read at all.
LEMMA DirectoryReferenceRead ==
    ASSUME NEW r \in DirectoryReference, EncodeDirectoryReference(r).is = "ok"
    PROVE  LET out == DecodeDirectoryReference(EncodeDirectoryReference(r).val)
           IN  IF r.created = "uint64" /\ r.publicKey # None /\ r.writeKey # None
               THEN out = Ok([r EXCEPT !.local = FALSE])
               ELSE out.is # "ok"
<1>1. /\ r.encryptionKey = None /\ r.ext = FALSE
      /\ Written(EncodeDirectoryReference(r), DirectoryReferenceEntries(r))
  BY DirectoryReferenceWritten
<1>2. PICK entries : /\ IsSeq(entries)
                     /\ EncodeDirectoryReference(r) = Ok(MapOf(entries))
                     /\ ToSet(entries) = DirectoryReferenceEntries(r)
  BY <1>1 DEF Written
<1> DEFINE item == MapOf(entries)
           want == <<"string", "uint64", "bytes", "bytes", "*Base64UrlBinary", "map">>
           wrong(e) == e.key \in DOMAIN want /\ TypeIn(e.item) # want[e.key]
           e1 == Entry(1, Str("text"))
           e2 == Entry(2, Number(r.created))
           e3 == Entry(3, KeyItem(r.publicKey))
           e4 == Entry(4, KeyItem(r.writeKey))
           read == [created |-> r.created, publicKey |-> r.publicKey, writeKey |-> r.writeKey,
                    encryptionKey |-> None, ext |-> FALSE, local |-> FALSE]
<1>3. EncodeDirectoryReference(r).val = item /\ Value(item) = entries
  BY <1>2 DEF Ok, MapOf, Item, Value
<1>4. e1.key = 1 /\ e2.key = 2 /\ e3.key = 3 /\ e4.key = 4
  BY DEF Entry
<1>5. /\ TypeIn(e1.item) = "string"
      /\ TypeIn(e2.item) = r.created /\ Value(e2.item) = r.created
      /\ TypeIn(e3.item) = IF r.publicKey = None THEN "nil" ELSE "bytes"
      /\ Value(e3.item) = r.publicKey
      /\ TypeIn(e4.item) = IF r.writeKey = None THEN "nil" ELSE "bytes"
      /\ Value(e4.item) = r.writeKey
  BY DEF Entry, Str, Number, KeyItem, Bin, Nil, Item, TypeIn, Value
<1>6. ToSet(entries) = {e1, e2, e3, e4}
  BY <1>2 DEF DirectoryReferenceEntries
<1> HIDE DEF e1, e2, e3, e4
<1>7. (\E e \in ToSet(entries) : wrong(e)) <=>
         ~ (r.created = "uint64" /\ r.publicKey # None /\ r.writeKey # None)
  BY <1>4, <1>5, <1>6
<1>8. /\ At(entries, 2, "int8") = r.created
      /\ At(entries, 3, None) = r.publicKey
      /\ At(entries, 4, None) = r.writeKey
  <2>1. \A x \in ToSet(entries) : /\ x.key = e2.key => x = e2
                                  /\ x.key = e3.key => x = e3
                                  /\ x.key = e4.key => x = e4
    BY <1>4, <1>6
  <2>2. At(entries, e2.key, "int8") = Value(e2.item)
    BY <1>2, <1>6, <2>1, ItemOnly
  <2>3. At(entries, e3.key, None) = Value(e3.item)
    BY <1>2, <1>6, <2>1, ItemOnly
  <2>4. At(entries, e4.key, None) = Value(e4.item)
    BY <1>2, <1>6, <2>1, ItemOnly
  <2> QED
    BY <1>4, <1>5, <2>2, <2>3, <2>4
<1>9. (\E e \in ToSet(entries) : e.key = 6) = FALSE
  BY <1>4, <1>6
<1>10. DecodeDirectoryReference(item) =
         IF \E e \in ToSet(entries) : wrong(e) THEN Panic
         ELSE Ok([created |-> At(entries, 2, "int8"), publicKey |-> At(entries, 3, None),
                  writeKey |-> At(entries, 4, None), encryptionKey |-> None,
                  ext |-> \E e \in ToSet(entries) : e.key = 6, local |-> FALSE])
  BY <1>3 DEF DecodeDirectoryReference
<1>11. [r EXCEPT !.local = FALSE] = read
  <2>1. r = [created |-> r.created, publicKey |-> r.publicKey, writeKey |-> r.writeKey,
             encryptionKey |-> r.encryptionKey, ext |-> r.ext, local |-> r.local]
    BY DEF DirectoryReference
  <2>2. ASSUME NEW l
        PROVE  [r EXCEPT !.local = l] =
                 [created |-> r.created, publicKey |-> r.publicKey, writeKey |-> r.writeKey,
                  encryptionKey |-> r.encryptionKey, ext |-> r.ext, local |-> l]
    BY <2>1
  <2>3. [r EXCEPT !.local = FALSE] =
          [created |-> r.created, publicKey |-> r.publicKey, writeKey |-> r.writeKey,
           encryptionKey |-> r.encryptionKey, ext |-> r.ext, local |-> FALSE]
    BY <2>2, Zenon
  <2> QED
    BY <1>1, <2>3, Zenon
<1> HIDE DEF item, wrong
<1>12. CASE r.created = "uint64" /\ r.publicKey # None /\ r.writeKey # None
  BY <1>3, <1>7, <1>8, <1>9, <1>10, <1>11, <1>12
<1>13. CASE ~ (r.created = "uint64" /\ r.publicKey # None /\ r.writeKey # None)
  BY <1>3, <1>7, <1>10, <1>13 DEF Panic
<1> QED
  BY <1>12, <1>13

-----------------------------------------------------------------------------
(* References to files *)

VersionEntries(v) ==
  {Entry(8, Number(v.ts))}
    \cup (IF v.plaintext = None THEN {} ELSE {Entry(2, Bin(ToBytes(v.plaintext)))})

\* What a version of a file is written as, if it can be.
LEMMA FileVersionWritten ==
    ASSUME NEW v \in FileVersion, EncodeFileVersion(v).is = "ok"
    PROVE  /\ v.encrypted = None /\ v.hashes = FALSE /\ v.thumbnail = None
           /\ Written(EncodeFileVersion(v), VersionEntries(v))
<1> DEFINE f8  == Field(8, "uint64", Ok(Number(v.ts)))
           f1  == Field(1, "*EncryptedCID", Ok(Bin(EncryptedToBytes(v.encrypted))))
           f2  == Field(2, "*CID", Ok(Bin(ToBytes(v.plaintext))))
           f9  == Field(9, "[][]byte", Ok(Arr(<<Bin(<<0>>)>>)))
           f10 == Field(10, "*FileVersionThumbnail", EncodeFileVersionThumbnail(v.thumbnail))
           a == <<f8>>
           b == IF v.encrypted = None THEN <<>> ELSE <<f1>>
           c == IF v.plaintext = None THEN <<>> ELSE <<f2>>
           d == IF v.hashes THEN <<f9>> ELSE <<>>
           e == IF v.thumbnail = None THEN <<>> ELSE <<f10>>
           fields == (((a \o b) \o c) \o d) \o e
<1>0. v.hashes \in BOOLEAN
  BY DEF FileVersion
<1>1. EncodeFileVersion(v) = marshallMapMsgpack(fields)
  BY DEF EncodeFileVersion
<1>2. f1.type \notin Known /\ f9.type \notin Known /\ f10.type \notin Known
  BY DEF Field, Known
<1>3. /\ Entry(f8.key, f8.out.val) = Entry(8, Number(v.ts))
      /\ Entry(f2.key, f2.out.val) = Entry(2, Bin(ToBytes(v.plaintext)))
  BY DEF Field, Ok
<1> HIDE DEF f8, f1, f2, f9, f10
<1>4. /\ IsSeq(a) /\ ToSet(a) = {f8}
      /\ IsSeq(b) /\ ToSet(b) = IF v.encrypted = None THEN {} ELSE {f1}
      /\ IsSeq(c) /\ ToSet(c) = IF v.plaintext = None THEN {} ELSE {f2}
      /\ IsSeq(d) /\ ToSet(d) = IF v.hashes THEN {f9} ELSE {}
      /\ IsSeq(e) /\ ToSet(e) = IF v.thumbnail = None THEN {} ELSE {f10}
  <2>1. IsSeq(a) /\ ToSet(a) = {f8}
    BY Tuples
  <2>2. IsSeq(b) /\ ToSet(b) = IF v.encrypted = None THEN {} ELSE {f1}
    BY Tuples
  <2>3. IsSeq(c) /\ ToSet(c) = IF v.plaintext = None THEN {} ELSE {f2}
    BY Tuples
  <2>4. IsSeq(d) /\ ToSet(d) = IF v.hashes THEN {f9} ELSE {}
    BY <1>0, Tuples
  <2>5. IsSeq(e) /\ ToSet(e) = IF v.thumbnail = None THEN {} ELSE {f10}
    BY Tuples
  <2> QED
    BY <2>1, <2>2, <2>3, <2>4, <2>5
<1> HIDE DEF a, b, c, d, e
<1>5. /\ IsSeq(fields)
      /\ ToSet(fields) = (((ToSet(a) \cup ToSet(b)) \cup ToSet(c)) \cup ToSet(d)) \cup ToSet(e)
  <2>1. IsSeq(a \o b) /\ ToSet(a \o b) = ToSet(a) \cup ToSet(b)
    BY <1>4, Joins
  <2>2. PICK ab : ab = a \o b
    OBVIOUS
  <2>3. IsSeq(ab \o c) /\ ToSet(ab \o c) = ToSet(ab) \cup ToSet(c)
    BY <1>4, <2>1, <2>2, Joins
  <2>4. PICK abc : abc = ab \o c
    OBVIOUS
  <2>5. IsSeq(abc \o d) /\ ToSet(abc \o d) = ToSet(abc) \cup ToSet(d)
    BY <1>4, <2>3, <2>4, Joins
  <2>6. PICK abcd : abcd = abc \o d
    OBVIOUS
  <2>7. IsSeq(abcd \o e) /\ ToSet(abcd \o e) = ToSet(abcd) \cup ToSet(e)
    BY <1>4, <2>5, <2>6, Joins
  <2> QED
    BY <2>1, <2>2, <2>3, <2>4, <2>5, <2>6, <2>7
<1> HIDE DEF fields
<1>6. /\ \A f \in ToSet(fields) : f.type \in Known /\ f.out.is = "ok"
      /\ marshallMapMsgpack(fields) = Ok(MapOf(EntriesOf(fields)))
      /\ IsSeq(EntriesOf(fields))
      /\ ToSet(EntriesOf(fields)) = {Entry(f.key, f.out.val) : f \in ToSet(fields)}
  BY <1>1, <1>5, MapWritten
<1>7. v.encrypted = None /\ v.hashes = FALSE /\ v.thumbnail = None
  BY <1>0, <1>2, <1>4, <1>5, <1>6
<1>8. ToSet(fields) = {f8} \cup (IF v.plaintext = None THEN {} ELSE {f2})
  BY <1>4, <1>5, <1>7
<1>9. ToSet(EntriesOf(fields)) = VersionEntries(v)
  BY <1>3, <1>6, <1>8 DEF VersionEntries
<1> QED
  BY <1>1, <1>6, <1>7, <1>9 DEF Written

\* A version of a file comes back with a canonical CID exactly if the CID is well
\* formed.
LEMMA FileVersionRead ==
    ASSUME NEW v \in FileVersion, EncodeFileVersion(v).is = "ok"
    PROVE  LET out == DecodeFileVersion(EncodeFileVersion(v).val)
           IN  IF v.plaintext # None => WellFormed(v.plaintext)
               THEN out = Ok(CanonicalVersion(v))
               ELSE out.is = "ok" => out = Ok(out.val) /\ out.val # CanonicalVersion(v)
<1>1. /\ v.encrypted = None /\ v.hashes = FALSE /\ v.thumbnail = None
      /\ Written(EncodeFileVersion(v), VersionEntries(v))
  BY FileVersionWritten
<1>2. PICK entries : /\ IsSeq(entries)
                     /\ EncodeFileVersion(v) = Ok(MapOf(entries))
                     /\ ToSet(entries) = VersionEntries(v)
  BY <1>1 DEF Written
<1> DEFINE item == MapOf(entries)
           e8 == Entry(8, Number(v.ts))
           e2 == Entry(2, Bin(ToBytes(v.plaintext)))
           plaintext == IF v.plaintext = None THEN Ok(None) ELSE initCID(ToBytes(v.plaintext))
           parts == <<Ok(None), plaintext, Ok(None), Ok(None)>>
           read(p) == [ts |-> v.ts, encrypted |-> None, plaintext |-> p, hashes |-> FALSE,
                       thumbnail |-> None, local |-> FALSE]
<1>3. EncodeFileVersion(v).val = item /\ Value(item) = entries
  BY <1>2 DEF Ok, MapOf, Item, Value
<1>4. e8.key = 8 /\ e2.key = 2
  BY DEF Entry
<1>5. /\ Value(e8.item) = v.ts
      /\ e2.item # Nil /\ Value(e2.item) = ToBytes(v.plaintext)
  BY DEF Entry, Number, Bin, Nil, Item, Value
<1>6. ToSet(entries) = {e8} \cup (IF v.plaintext = None THEN {} ELSE {e2})
  BY <1>2 DEF VersionEntries
<1> HIDE DEF e8, e2
<1>7. At(entries, 8, "int8") = v.ts
  <2>1. e8 \in ToSet(entries) /\ \A x \in ToSet(entries) : x.key = e8.key => x = e8
    BY <1>4, <1>6
  <2>2. At(entries, e8.key, "int8") = Value(e8.item)
    BY <1>2, <2>1, ItemOnly
  <2> QED
    BY <1>4, <1>5, <2>2
<1>8. ItemAt(entries, 1) = Nil /\ ItemAt(entries, 9) = Nil /\ ItemAt(entries, 10) = Nil
  <2>1. \A x \in ToSet(entries) : x.key # 1 /\ x.key # 9 /\ x.key # 10
    BY <1>4, <1>6
  <2> QED
    BY <1>2, <2>1, ItemMissing
<1>9. IF v.plaintext = None THEN ItemAt(entries, 2) = Nil ELSE ItemAt(entries, 2) = e2.item
  <2>1. CASE v.plaintext = None
    <3>1. \A x \in ToSet(entries) : x.key # 2
      BY <1>4, <1>6, <2>1
    <3> QED
      BY <1>2, <2>1, <3>1, ItemMissing
  <2>2. CASE v.plaintext # None
    <3>1. e2 \in ToSet(entries) /\ \A x \in ToSet(entries) : x.key = e2.key => x = e2
      BY <1>4, <1>6, <2>2
    <3>2. ItemAt(entries, e2.key) = e2.item
      BY <1>2, <3>1, ItemOnly
    <3> QED
      BY <1>4, <2>2, <3>2
  <2> QED
    BY <2>1, <2>2
<1>10. plaintext = IF ItemAt(entries, 2) = Nil THEN Ok(None) ELSE initCID(Value(ItemAt(entries, 2)))
  BY <1>5, <1>9
<1> HIDE DEF plaintext
<1>11. DecodeFileVersion(item) = Unless(parts, read(plaintext.val))
  <2>1. Ok(None).val = None
    BY DEF Ok
  <2>2. (ItemAt(entries, 9) # Nil) = FALSE
    BY <1>8
  <2> HIDE DEF item
  <2> QED
    BY <1>3, <1>7, <1>8, <1>10, <2>1, <2>2 DEF DecodeFileVersion
<1>12. DOMAIN parts = 1 .. 4 /\ parts[2] = plaintext
       /\ (plaintext.is = "ok" => \A i \in 1 .. 4 : parts[i].is = "ok")
  BY DEF Ok
<1>13. CanonicalVersion(v) = read(IF v.plaintext = None THEN None ELSE Canonical(v.plaintext))
  <2>1. v = [ts |-> v.ts, encrypted |-> v.encrypted, plaintext |-> v.plaintext,
             hashes |-> v.hashes, thumbnail |-> v.thumbnail, local |-> v.local]
    BY DEF FileVersion
  <2>2. ASSUME NEW p, NEW l
        PROVE  [v EXCEPT !.local = l, !.plaintext = p] =
                 [ts |-> v.ts, encrypted |-> v.encrypted, plaintext |-> p,
                  hashes |-> v.hashes, thumbnail |-> v.thumbnail, local |-> l]
    <3>1. PICK w : w = [v EXCEPT !.local = l]
      OBVIOUS
    <3>2. w = [ts |-> v.ts, encrypted |-> v.encrypted, plaintext |-> v.plaintext,
               hashes |-> v.hashes, thumbnail |-> v.thumbnail, local |-> l]
      BY <2>1, <3>1
    <3>3. [w EXCEPT !.plaintext = p] =
            [ts |-> v.ts, encrypted |-> v.encrypted, plaintext |-> p,
             hashes |-> v.hashes, thumbnail |-> v.thumbnail, local |-> l]
      BY <3>2
    <3> QED
      BY <3>1, <3>3
  <2>3. PICK p : p = IF v.plaintext = None THEN None ELSE Canonical(v.plaintext)
    OBVIOUS
  <2>4. PICK l : l = FALSE
    OBVIOUS
  <2>5. CanonicalVersion(v) = [v EXCEPT !.local = l, !.plaintext = p]
    BY <2>3, <2>4 DEF CanonicalVersion
  <2>6. [v EXCEPT !.local = l, !.plaintext = p] = read(p)
    BY <1>1, <2>2, <2>4, Zenon
  <2> QED
    BY <2>3, <2>5, <2>6
<1>14. \A p, q : read(p) = read(q) => p = q
  OBVIOUS
<1> HIDE DEF parts, read, item
<1>15. DOMAIN parts \subseteq Nat
  BY <1>12
<1>16. /\ plaintext.is = "ok" => DecodeFileVersion(item) = Ok(read(plaintext.val))
       /\ DecodeFileVersion(item).is = "ok" =>
            DecodeFileVersion(item) = Ok(read(plaintext.val)) /\ plaintext.is = "ok"
  BY <1>11, <1>12, <1>15, UnlessOk
<1>17. \A x : Ok(x).val = x /\ Ok(x).is = "ok"
  BY DEF Ok
<1>18. CASE v.plaintext = None
  <2>1. plaintext = Ok(None)
    BY <1>18 DEF plaintext
  <2> QED
    BY <1>3, <1>13, <1>16, <1>17, <1>18, <2>1
<1>19. CASE v.plaintext # None
  <2>1. v.plaintext \in CIDValues
    BY <1>19 DEF FileVersion
  <2>2. /\ WellFormed(v.plaintext) => initCID(ToBytes(v.plaintext)) = Ok(Canonical(v.plaintext))
        /\ ~ WellFormed(v.plaintext) => initCID(ToBytes(v.plaintext)) # Ok(Canonical(v.plaintext))
        /\ ToBytes(v.plaintext) \in Seq(Byte)
    BY <2>1, ReadCID
  <2>3. plaintext = initCID(ToBytes(v.plaintext))
    BY <1>19 DEF plaintext
  <2>4. plaintext.is = "ok" => plaintext = Ok(plaintext.val)
    <3>1. \/ plaintext = Error \/ plaintext = Overrun
          \/ \E c \in CIDValues : plaintext = Ok(c)
      BY <2>2, <2>3, ReadAny
    <3> QED
      BY <1>17, <3>1 DEF Error, Overrun
  <2>5. CASE WellFormed(v.plaintext)
    BY <1>3, <1>13, <1>16, <1>17, <1>19, <2>2, <2>3, <2>5
  <2>6. CASE ~ WellFormed(v.plaintext)
    BY <1>3, <1>13, <1>14, <1>16, <1>17, <1>19, <2>2, <2>3, <2>4, <2>6
  <2> QED
    BY <2>5, <2>6
<1> QED
  BY <1>18, <1>19

VersionItem(f) == IF f.file = None THEN Nil ELSE EncodeFileVersion(f.file).val

FileReferenceEntries(f) ==
  {Entry(1, Str("text")), Entry(2, Number(f.created)), Entry(4, VersionItem(f)),
   Entry(5, Number(f.version))}

\* What a reference to a file is written as, if it can be.
LEMMA FileReferenceWritten ==
    ASSUME NEW f \in FileReference, EncodeFileReference(f).is = "ok"
    PROVE  /\ f.ext = "empty" /\ f.history = "empty"
           /\ f.file # None => EncodeFileVersion(f.file).is = "ok"
           /\ Written(EncodeFileReference(f), FileReferenceEntries(f))
<1> DEFINE version == IF f.file = None THEN Ok(Nil) ELSE EncodeFileVersion(f.file)
           f1 == Field(1, "string", Ok(Str("text")))
           f2 == Field(2, "uint64", Ok(Number(f.created)))
           f4 == Field(4, "*FileVersion", version)
           f5 == Field(5, "uint64", Ok(Number(f.version)))
           f7 == Field(7, "ExtMap", Ok(MapOf(<<>>)))
           f8 == Field(8, "FileHistoryMap", Ok(MapOf(<<>>)))
           a == <<f1, f2, f4, f5>>
           b == IF f.ext = "filled" THEN <<f7>> ELSE <<>>
           c == IF f.history = "filled" THEN <<f8>> ELSE <<>>
           fields == (a \o b) \o c
<1>0. f.ext \in {"unset", "empty", "filled"} /\ f.history \in {"unset", "empty", "filled"}
  BY DEF FileReference
<1>1. /\ f.ext # "unset" /\ f.history # "unset"
      /\ EncodeFileReference(f) = marshallMapMsgpack(fields)
  BY DEF EncodeFileReference, Panic
<1>2. f7.type \notin Known /\ f8.type \notin Known /\ f4.out = version
  BY DEF Field, Known
<1>3. {Entry(x.key, x.out.val) : x \in {f1, f2, f4, f5}} = FileReferenceEntries(f)
  <2>1. version.val = VersionItem(f)
    BY DEF Ok, VersionItem
  <2> HIDE DEF version
  <2> QED
    BY <2>1 DEF Field, FileReferenceEntries, Ok
<1> HIDE DEF f1, f2, f4, f5, f7, f8
<1>4. /\ IsSeq(a) /\ ToSet(a) = {f1, f2, f4, f5}
      /\ IsSeq(b) /\ ToSet(b) = IF f.ext = "filled" THEN {f7} ELSE {}
      /\ IsSeq(c) /\ ToSet(c) = IF f.history = "filled" THEN {f8} ELSE {}
  <2>1. IsSeq(a) /\ ToSet(a) = {f1, f2, f4, f5}
    BY Tuples
  <2>2. IsSeq(b) /\ ToSet(b) = IF f.ext = "filled" THEN {f7} ELSE {}
    BY Tuples
  <2>3. IsSeq(c) /\ ToSet(c) = IF f.history = "filled" THEN {f8} ELSE {}
    BY Tuples
  <2> QED
    BY <2>1, <2>2, <2>3
<1> HIDE DEF a, b, c
<1>5. IsSeq(fields) /\ ToSet(fields) = (ToSet(a) \cup ToSet(b)) \cup ToSet(c)
  <2>1. IsSeq(a \o b) /\ ToSet(a \o b) = ToSet(a) \cup ToSet(b)
    BY <1>4, Joins
  <2> QED
    BY <1>4, <2>1, Joins
<1> HIDE DEF fields
<1>6. /\ \A x \in ToSet(fields) : x.type \in Known /\ x.out.is = "ok"
      /\ marshallMapMsgpack(fields) = Ok(MapOf(EntriesOf(fields)))
      /\ IsSeq(EntriesOf(fields))
      /\ ToSet(EntriesOf(fields)) = {Entry(x.key, x.out.val) : x \in ToSet(fields)}
  BY <1>1, <1>5, MapWritten
<1>7. f.ext = "empty" /\ f.history = "empty"
  BY <1>0, <1>1, <1>2, <1>4, <1>5, <1>6
<1>8. ToSet(fields) = {f1, f2, f4, f5}
  BY <1>4, <1>5, <1>7
<1>9. f.file # None => EncodeFileVersion(f.file).is = "ok"
  BY <1>2, <1>6, <1>8
<1> QED
  BY <1>1, <1>3, <1>6, <1>7, <1>8, <1>9 DEF Written

\* What the reader of a file reference needs of the CID in it.
FileKept(f) == f.file # None => (f.file.plaintext # None => WellFormed(f.file.plaintext))

\* A file is read back exactly if the CID of its version is well formed.
LEMMA FileReferenceRead ==
    ASSUME NEW f \in FileReference, EncodeFileReference(f).is = "ok"
    PROVE  LET out == DecodeFileReference(EncodeFileReference(f).val)
           IN  IF FileKept(f)
               THEN out = Ok(CanonicalFile(f))
               ELSE out.is = "ok" => out = Ok(out.val) /\ out.val # CanonicalFile(f)
<1>1. /\ f.ext = "empty" /\ f.history = "empty"
      /\ f.file # None => EncodeFileVersion(f.file).is = "ok"
      /\ Written(EncodeFileReference(f), FileReferenceEntries(f))
  BY FileReferenceWritten
<1>2. PICK entries : /\ IsSeq(entries)
                     /\ EncodeFileReference(f) = Ok(MapOf(entries))
                     /\ ToSet(entries) = FileReferenceEntries(f)
  BY <1>1 DEF Written
<1> DEFINE item == MapOf(entries)
           e1 == Entry(1, Str("text"))
           e2 == Entry(2, Number(f.created))
           e4 == Entry(4, VersionItem(f))
           e5 == Entry(5, Number(f.version))
           file == IF f.file = None THEN Ok(None)
                   ELSE DecodeFileVersion(EncodeFileVersion(f.file).val)
           parts == <<file, Ok(None), Ok(None)>>
           read(x) == [created |-> f.created, version |-> f.version, file |-> x,
                       ext |-> "empty", history |-> "empty", local |-> FALSE]
<1>3. EncodeFileReference(f).val = item /\ Value(item) = entries
  BY <1>2 DEF Ok, MapOf, Item, Value
<1>4. e1.key = 1 /\ e2.key = 2 /\ e4.key = 4 /\ e5.key = 5 /\ e4.item = VersionItem(f)
  BY DEF Entry
<1>5. Value(e2.item) = f.created /\ Value(e5.item) = f.version
  BY DEF Entry, Number, Item, Value
<1>6. ToSet(entries) = {e1, e2, e4, e5}
  BY <1>2 DEF FileReferenceEntries
<1> HIDE DEF e1, e2, e4, e5
<1>7. /\ At(entries, 2, "int8") = f.created
      /\ At(entries, 5, "int8") = f.version
      /\ ItemAt(entries, 4) = VersionItem(f)
  <2>1. \A x \in ToSet(entries) : /\ x.key = e2.key => x = e2
                                  /\ x.key = e4.key => x = e4
                                  /\ x.key = e5.key => x = e5
    BY <1>4, <1>6
  <2>2. At(entries, e2.key, "int8") = Value(e2.item)
    BY <1>2, <1>6, <2>1, ItemOnly
  <2>3. At(entries, e5.key, "int8") = Value(e5.item)
    BY <1>2, <1>6, <2>1, ItemOnly
  <2>4. ItemAt(entries, e4.key) = e4.item
    BY <1>2, <1>6, <2>1, ItemOnly
  <2> QED
    BY <1>4, <1>5, <2>2, <2>3, <2>4
<1>8. At(entries, 7, <<>>) = <<>> /\ At(entries, 8, <<>>) = <<>>
  <2>1. \A x \in ToSet(entries) : x.key # 7 /\ x.key # 8
    BY <1>4, <1>6
  <2> QED
    BY <1>2, <2>1, ItemMissing
<1>9. file = IF VersionItem(f) = Nil THEN Ok(None) ELSE DecodeFileVersion(VersionItem(f))
  <2>1. CASE f.file = None
    BY <2>1 DEF VersionItem
  <2>2. CASE f.file # None
    <3>1. f.file \in FileVersion
      BY <2>2 DEF FileReference
    <3>2. Written(EncodeFileVersion(f.file), VersionEntries(f.file))
      BY <1>1, <2>2, <3>1, FileVersionWritten
    <3>3. PICK s : EncodeFileVersion(f.file) = Ok(MapOf(s))
      BY <3>2 DEF Written
    <3>4. EncodeFileVersion(f.file).val # Nil
      BY <3>3 DEF Ok, MapOf, Nil, Item
    <3> QED
      BY <2>2, <3>4 DEF VersionItem
  <2> QED
    BY <2>1, <2>2
<1> HIDE DEF file
<1>10. DecodeFileReference(item) = Unless(parts, read(file.val))
  <2> HIDE DEF item
  <2> QED
    BY <1>3, <1>7, <1>8, <1>9 DEF DecodeFileReference
<1>11. DOMAIN parts = 1 .. 3 /\ parts[1] = file
       /\ (file.is = "ok" => \A i \in 1 .. 3 : parts[i].is = "ok")
  BY DEF Ok
<1>12. CanonicalFile(f) = read(IF f.file = None THEN None ELSE CanonicalVersion(f.file))
  <2>1. f = [created |-> f.created, version |-> f.version, file |-> f.file,
             ext |-> f.ext, history |-> f.history, local |-> f.local]
    BY DEF FileReference
  <2>2. ASSUME NEW x, NEW l
        PROVE  [f EXCEPT !.local = l, !.file = x] =
                 [created |-> f.created, version |-> f.version, file |-> x,
                  ext |-> f.ext, history |-> f.history, local |-> l]
    <3>1. PICK g : g = [f EXCEPT !.local = l]
      OBVIOUS
    <3>2. g = [created |-> f.created, version |-> f.version, file |-> f.file,
               ext |-> f.ext, history |-> f.history, local |-> l]
      BY <2>1, <3>1
    <3>3. [g EXCEPT !.file = x] = [created |-> f.created, version |-> f.version, file |-> x,
                                   ext |-> f.ext, history |-> f.history, local |-> l]
      BY <3>2
    <3> QED
      BY <3>1, <3>3
  <2>3. PICK x : x = IF f.file = None THEN None ELSE CanonicalVersion(f.file)
    OBVIOUS
  <2>4. CanonicalFile(f) = [f EXCEPT !.local = FALSE, !.file = x]
    BY <2>3 DEF CanonicalFile
  <2>5. [f EXCEPT !.local = FALSE, !.file = x] = read(x)
    <3>1. [f EXCEPT !.local = FALSE, !.file = x] =
            [created |-> f.created, version |-> f.version, file |-> x,
             ext |-> f.ext, history |-> f.history, local |-> FALSE]
      BY <2>2, Zenon
    <3> QED
      BY <1>1, <3>1, Zenon
  <2> QED
    BY <2>3, <2>4, <2>5
<1>13. \A x, y : read(x) = read(y) => x = y
  OBVIOUS
<1> HIDE DEF parts, read, item
<1>14. DOMAIN parts \subseteq Nat
  BY <1>11
<1>15. /\ file.is = "ok" => DecodeFileReference(item) = Ok(read(file.val))
       /\ DecodeFileReference(item).is = "ok" =>
            DecodeFileReference(item) = Ok(read(file.val)) /\ file.is = "ok"
  BY <1>10, <1>11, <1>14, UnlessOk
<1>16. \A x : Ok(x).val = x /\ Ok(x).is = "ok"
  BY DEF Ok
<1>17. CASE f.file = None
  <2>1. file = Ok(None)
    BY <1>17 DEF file
  <2> QED
    BY <1>3, <1>12, <1>15, <1>16, <1>17, <2>1 DEF FileKept
<1>18. CASE f.file # None
  <2>1. f.file \in FileVersion
    BY <1>18 DEF FileReference
  <2>2. file = DecodeFileVersion(EncodeFileVersion(f.file).val)
    BY <1>18 DEF file
  <2>3. IF FileKept(f) THEN file = Ok(CanonicalVersion(f.file))
        ELSE file.is = "ok" => file = Ok(file.val) /\ file.val # CanonicalVersion(f.file)
    BY <1>1, <1>18, <2>1, <2>2, FileVersionRead DEF FileKept
  <2> QED
    BY <1>3, <1>12, <1>13, <1>15, <1>16, <1>18, <2>3
<1> QED
  BY <1>17, <1>18

-----------------------------------------------------------------------------
(* Maps of references, of either type *)

PointerTypes == {"*DirectoryReference", "*FileReference"}

RefType(type)        == IF type = "*FileReference" THEN FileReference ELSE DirectoryReference
EncodeRef(type, r)   == IF type = "*FileReference" THEN EncodeFileReference(r) ELSE EncodeDirectoryReference(r)
DecodeRef(type, i)   == IF type = "*FileReference" THEN DecodeFileReference(i) ELSE DecodeDirectoryReference(i)
CanonicalRef(type, r) == IF type = "*FileReference" THEN CanonicalFile(r) ELSE CanonicalReference(r)
RefKept(type, r) ==
  IF type = "*FileReference" THEN FileKept(r)
  ELSE r.created = "uint64" /\ r.publicKey # None /\ r.writeKey # None

\* A reference of either type is read back exactly if it is one that is kept.
LEMMA ReferenceRead ==
    ASSUME NEW type, NEW r \in RefType(type), EncodeRef(type, r).is = "ok"
    PROVE  LET out == DecodeRef(type, EncodeRef(type, r).val)
           IN  IF RefKept(type, r)
               THEN out = Ok(CanonicalRef(type, r))
               ELSE out.is = "ok" => out = Ok(out.val) /\ out.val # CanonicalRef(type, r)
<1>1. CASE type = "*FileReference"
  BY <1>1, FileReferenceRead DEF RefType, EncodeRef, DecodeRef, CanonicalRef, RefKept
<1>2. CASE type # "*FileReference"
  <2>1. r \in DirectoryReference /\ EncodeDirectoryReference(r).is = "ok"
    BY <1>2 DEF RefType, EncodeRef
  <2>2. CanonicalRef(type, r) = [r EXCEPT !.local = FALSE]
    BY <1>2, Zenon DEF CanonicalRef, CanonicalReference
  <2>3. PICK c : c = CanonicalRef(type, r)
    OBVIOUS
  <2>4. LET out == DecodeDirectoryReference(EncodeDirectoryReference(r).val)
        IN  IF r.created = "uint64" /\ r.publicKey # None /\ r.writeKey # None
            THEN out = Ok([r EXCEPT !.local = FALSE]) ELSE out.is # "ok"
    BY <2>1, DirectoryReferenceRead
  <2>5. LET out == DecodeDirectoryReference(EncodeDirectoryReference(r).val)
        IN  IF r.created = "uint64" /\ r.publicKey # None /\ r.writeKey # None
            THEN out = Ok(c) ELSE out.is # "ok"
    BY <2>2, <2>3, <2>4, Zenon
  <2> QED
    BY <1>2, <2>3, <2>5 DEF EncodeRef, DecodeRef, RefKept
<1> QED
  BY <1>1, <1>2

\* A map of references that is there.
Refs(type) == Seq([key : Names, ref : RefType(type), pointer : BOOLEAN])

RefEntries(refs, type) == [i \in DOMAIN refs |-> Entry(refs[i].key, EncodeRef(type, refs[i].ref).val)]

\* A map of references that could be written: all are pointers and were written.
LEMMA ReferencesWritten ==
    ASSUME NEW type \in PointerTypes, NEW refs \in References(RefType(type)),
           EncodeReferences(refs, type).is = "ok"
    PROVE  /\ refs # None /\ refs \in Refs(type)
           /\ \A i \in DOMAIN refs : refs[i].pointer = TRUE /\ EncodeRef(type, refs[i].ref).is = "ok"
           /\ EncodeReferences(refs, type) = Ok(MapOf(RefEntries(refs, type)))
           /\ IsSeq(RefEntries(refs, type))
<1>1. refs # None
  BY DEF EncodeReferences, Panic
<1>2. refs \in Refs(type)
  BY <1>1 DEF References, Refs
<1> DEFINE fields == [i \in DOMAIN refs |->
             Field(refs[i].key, IF refs[i].pointer THEN type ELSE "value",
                   EncodeRef(type, refs[i].ref))]
<1>3. EncodeReferences(refs, type) = marshallMapMsgpack(fields)
  BY <1>1 DEF EncodeReferences, EncodeRef
<1>4. /\ DOMAIN refs = 1 .. Len(refs) /\ Len(refs) \in Nat
      /\ \A i \in DOMAIN refs : refs[i] \in [key : Names, ref : RefType(type), pointer : BOOLEAN]
  <2>1. PICK S : S = [key : Names, ref : RefType(type), pointer : BOOLEAN]
    OBVIOUS
  <2>2. refs \in Seq(S)
    BY <1>2, <2>1 DEF Refs
  <2> QED
    BY <2>1, <2>2, Members
<1>5. DOMAIN fields = DOMAIN refs
  OBVIOUS
<1>6. \A i \in DOMAIN refs :
        /\ fields[i].key = refs[i].key
        /\ fields[i].type = IF refs[i].pointer THEN type ELSE "value"
        /\ fields[i].out = EncodeRef(type, refs[i].ref)
        /\ fields[i] \in ToSet(fields)
  BY DEF Field, ToSet
<1>7. IsSeq(fields)
  <2>1. fields = [i \in 1 .. Len(refs) |-> fields[i]]
    BY <1>4, <1>5
  <2> HIDE DEF fields
  <2> QED
    BY <1>4, <1>6, <2>1 DEF IsSeq
<1> HIDE DEF fields
<1>8. /\ \A f \in ToSet(fields) : f.type \in Known /\ f.out.is = "ok"
      /\ marshallMapMsgpack(fields) = Ok(MapOf(EntriesOf(fields)))
      /\ IsSeq(EntriesOf(fields))
  BY <1>3, <1>7, MapWritten
<1>9. EntriesOf(fields) = RefEntries(refs, type)
  BY <1>5, <1>6 DEF EntriesOf, RefEntries
<1>10. ASSUME NEW i \in DOMAIN refs
       PROVE  refs[i].pointer = TRUE /\ EncodeRef(type, refs[i].ref).is = "ok"
  <2>1. refs[i].pointer \in BOOLEAN
    BY <1>4
  <2>2. fields[i].type \in Known /\ fields[i].out.is = "ok"
    BY <1>6, <1>8
  <2>3. "value" \notin Known
    BY DEF Known
  <2> QED
    BY <1>6, <2>1, <2>2, <2>3
<1> QED
  BY <1>1, <1>2, <1>3, <1>8, <1>9, <1>10

CanonicalRefs(refs, type) == [i \in DOMAIN refs |-> [refs[i] EXCEPT !.ref = CanonicalRef(type, @)]]

\* A map of references comes back with its references as they are once read,
\* exactly if each of them can be.
LEMMA ReferencesRead ==
    ASSUME NEW type \in PointerTypes, NEW refs \in References(RefType(type)),
           EncodeReferences(refs, type).is = "ok", Distinct(refs)
    PROVE  LET out == unmarshalMapMsgpack(EncodeReferences(refs, type).val, type)
           IN  IF \A i \in DOMAIN refs : RefKept(type, refs[i].ref)
               THEN out = Ok(CanonicalRefs(refs, type))
               ELSE out.is = "ok" => out = Ok(out.val) /\ out.val # CanonicalRefs(refs, type)
<1>1. /\ refs \in Refs(type)
      /\ \A i \in DOMAIN refs : refs[i].pointer = TRUE /\ EncodeRef(type, refs[i].ref).is = "ok"
      /\ EncodeReferences(refs, type) = Ok(MapOf(RefEntries(refs, type)))
  BY ReferencesWritten
<1> DEFINE entries == RefEntries(refs, type)
           item == MapOf(entries)
           decoded == [i \in DOMAIN entries |-> DecodeRef(type, entries[i].item)]
           rows == [i \in DOMAIN entries |->
                      [key |-> entries[i].key, ref |-> decoded[i].val, pointer |-> TRUE]]
           out == unmarshalMapMsgpack(item, type)
           canon == CanonicalRefs(refs, type)
<1>2. EncodeReferences(refs, type).val = item /\ Value(item) = entries
  BY <1>1 DEF Ok, MapOf, Item, Value
<1>3. out = Unless(decoded, PutAll(rows))
  <2> HIDE DEF entries, item
  <2> QED
    BY <1>2 DEF unmarshalMapMsgpack, DecodeRef
<1>4. /\ DOMAIN refs = 1 .. Len(refs) /\ Len(refs) \in Nat
      /\ \A i \in DOMAIN refs : refs[i] \in [key : Names, ref : RefType(type), pointer : BOOLEAN]
  <2>1. PICK S : S = [key : Names, ref : RefType(type), pointer : BOOLEAN]
    OBVIOUS
  <2>2. refs \in Seq(S)
    BY <1>1, <2>1 DEF Refs
  <2> QED
    BY <2>1, <2>2, Members
<1>5. /\ DOMAIN entries = DOMAIN refs
      /\ \A i \in DOMAIN refs : /\ entries[i].key = refs[i].key
                                /\ entries[i].item = EncodeRef(type, refs[i].ref).val
  BY DEF RefEntries, Entry
<1> HIDE DEF entries, item, out
<1>6. DOMAIN decoded = DOMAIN refs /\ DOMAIN rows = DOMAIN refs /\ DOMAIN decoded \subseteq Nat
  BY <1>4, <1>5
<1>7. ASSUME NEW i \in DOMAIN refs
      PROVE  IF RefKept(type, refs[i].ref)
             THEN decoded[i] = Ok(CanonicalRef(type, refs[i].ref))
             ELSE decoded[i].is = "ok" => decoded[i].val # CanonicalRef(type, refs[i].ref)
  <2>1. PICK r \in RefType(type) : r = refs[i].ref
    BY <1>4
  <2>2. EncodeRef(type, r).is = "ok" /\ decoded[i] = DecodeRef(type, EncodeRef(type, r).val)
    BY <1>1, <1>5, <2>1
  <2> HIDE DEF decoded
  <2> QED
    BY <2>1, <2>2, ReferenceRead
<1>8. ASSUME NEW i \in DOMAIN refs
      PROVE  /\ rows[i] = [key |-> refs[i].key, ref |-> decoded[i].val, pointer |-> TRUE]
             /\ rows[i].ref = decoded[i].val
  BY <1>5
<1>9. ASSUME NEW i \in DOMAIN refs
      PROVE  /\ canon[i] = [key |-> refs[i].key, ref |-> CanonicalRef(type, refs[i].ref),
                            pointer |-> TRUE]
             /\ canon[i].ref = CanonicalRef(type, refs[i].ref)
  <2>1. PICK x : x = refs[i]
    OBVIOUS
  <2>2. x = [key |-> x.key, ref |-> x.ref, pointer |-> x.pointer]
    BY <1>4, <2>1
  <2>3. ASSUME NEW c PROVE [x EXCEPT !.ref = c] = [key |-> x.key, ref |-> c, pointer |-> x.pointer]
    BY <2>2
  <2>4. canon[i] = [x EXCEPT !.ref = CanonicalRef(type, x.ref)]
    BY <2>1 DEF CanonicalRefs
  <2>5. canon[i] = [key |-> x.key, ref |-> CanonicalRef(type, x.ref), pointer |-> x.pointer]
    BY <2>3, <2>4, Zenon
  <2>6. x.pointer = TRUE
    BY <1>1, <2>1
  <2>7. canon[i].ref = CanonicalRef(type, x.ref)
    BY <2>5
  <2> QED
    BY <2>1, <2>5, <2>6, <2>7, Zenon
<1>10. DOMAIN canon = DOMAIN refs /\ canon = [i \in DOMAIN canon |-> canon[i]]
  BY DEF CanonicalRefs
<1>11. PutAll(rows) = rows
  <2>1. rows = [i \in 1 .. Len(refs) |-> rows[i]]
    BY <1>4, <1>6
  <2>2. \A i \in DOMAIN rows : rows[i].key = refs[i].key
    BY <1>5
  <2>3. IsSeq(rows)
    <3> HIDE DEF rows
    <3>1. \A i \in 1 .. Len(refs) : rows[i] \in ToSet(rows)
      BY <1>4, <1>6 DEF ToSet
    <3> QED
      BY <1>4, <2>1, <3>1 DEF IsSeq
  <2>4. Distinct(rows)
    <3> HIDE DEF rows
    <3> QED
      BY <1>6, <2>2 DEF Distinct
  <2> HIDE DEF rows
  <2> QED
    BY <2>3, <2>4, AllPut DEF IsSeq
<1>12. rows = [i \in DOMAIN rows |-> rows[i]]
  OBVIOUS
<1> HIDE DEF decoded, rows, canon
<1>13. /\ (\A i \in DOMAIN refs : decoded[i].is = "ok") => out = Ok(rows)
       /\ out.is = "ok" => out = Ok(rows) /\ \A i \in DOMAIN refs : decoded[i].is = "ok"
  BY <1>3, <1>6, <1>11, UnlessOk
<1>14. \A x : Ok(x).val = x /\ Ok(x).is = "ok"
  BY DEF Ok
<1>15. CASE \A i \in DOMAIN refs : RefKept(type, refs[i].ref)
  <2>1. ASSUME NEW i \in DOMAIN refs
        PROVE  decoded[i].is = "ok" /\ rows[i] = canon[i]
    <3>1. decoded[i] = Ok(CanonicalRef(type, refs[i].ref))
      BY <1>7, <1>15
    <3>2. decoded[i].is = "ok" /\ decoded[i].val = CanonicalRef(type, refs[i].ref)
      BY <1>14, <3>1
    <3> QED
      BY <1>8, <1>9, <3>2, Zenon
  <2>2. rows = canon
    BY <1>6, <1>10, <1>12, <2>1
  <2> QED
    BY <1>2, <1>13, <1>15, <2>1, <2>2 DEF out, canon
<1>16. CASE ~ \A i \in DOMAIN refs : RefKept(type, refs[i].ref)
  <2>1. PICK i \in DOMAIN refs : ~ RefKept(type, refs[i].ref)
    BY <1>16
  <2>2. ASSUME out.is = "ok" PROVE rows # canon
    <3>1. decoded[i].val # CanonicalRef(type, refs[i].ref)
      BY <1>7, <1>13, <2>1, <2>2
    <3>2. rows[i].ref # canon[i].ref
      BY <1>8, <1>9, <3>1
    <3> QED
      BY <3>2
  <2> QED
    BY <1>2, <1>13, <1>14, <1>16, <2>2 DEF out, canon
<1> QED
  BY <1>15, <1>16

-----------------------------------------------------------------------------
(* Go maps, written in any order *)

\* An order of a finite set has every member once.
LEMMA OrderIs ==
    ASSUME NEW S, IsFiniteSet(S), NEW s \in Orders(S)
    PROVE  /\ s \in Seq(S) /\ Injective(s) /\ ToSet(s) = S
           /\ DOMAIN s = 1 .. Cardinality(S) /\ Cardinality(S) \in Nat
<1> DEFINE D == 1 .. Cardinality(S)
<1>1. Cardinality(S) \in Nat
  BY FS_CardinalityType
<1>2. IsFiniteSet(D) /\ Cardinality(D) = Cardinality(S)
  <2>1. PICK n \in Nat : n = Cardinality(S)
    BY <1>1
  <2>2. IsFiniteSet(1 .. n) /\ Cardinality(1 .. n) = IF 1 > n THEN 0 ELSE n - 1 + 1
    BY FS_Interval
  <2> QED
    BY <2>1, <2>2
<1>3. s \in [D -> S] /\ \A i, j \in D : i # j => s[i] # s[j]
  BY DEF Orders, SetToSeqs
<1> HIDE DEF D
<1>4. s \in Injection(D, S)
  BY <1>3 DEF Injection, IsInjective
<1>5. s \in Surjection(D, S)
  BY <1>2, <1>4, FS_Injection
<1>6. ToSet(s) = S
  BY <1>3, <1>5 DEF Surjection, ToSet
<1>7. Injective(s)
  BY <1>3 DEF Injective
<1>8. s \in Seq(S)
  BY <1>1, <1>3 DEF D
<1> QED
  BY <1>1, <1>3, <1>6, <1>7, <1>8 DEF D

\* There is one.
LEMMA OrderExists ==
    ASSUME NEW S, IsFiniteSet(S)
    PROVE  Orders(S) # {}
<1>1. PICK f : f \in Bijection(1 .. Cardinality(S), S)
  BY FS_CardinalityType DEF ExistsBijection
<1>2. f \in Orders(S)
  BY <1>1 DEF Bijection, Injection, IsInjective, Orders, SetToSeqs
<1> QED
  BY <1>2

\* The names of a document's extra metadata are finitely many.
LEMMA ExtraNames ==
    ASSUME NEW extra \in Extra
    PROVE  /\ DOMAIN extra \subseteq Extensions
           /\ IsFiniteSet(DOMAIN extra)
           /\ \A x \in DOMAIN extra : extra[x] \in {"text", "bytes", "cid"}
<1>1. PICK names \in SUBSET Extensions : extra \in [names -> {"text", "bytes", "cid"}]
  BY DEF Extra
<1>2. IsFiniteSet(names)
  BY DocumentAssumption, FS_Subset
<1> QED
  BY <1>1, <1>2

\* A directory's extra metadata as it is once read, and which is not changed.
ExtraAsRead(extra) == [x \in DOMAIN extra |-> IF extra[x] = "text" THEN "text" ELSE "bytes"]

ExtraKept(extra) == \A x \in DOMAIN extra : extra[x] # "cid"

LEMMA ExtraSame ==
    ASSUME NEW extra \in Extra
    PROVE  ExtraAsRead(extra) = extra <=> ExtraKept(extra)
<1>1. PICK names \in SUBSET Extensions : extra \in [names -> {"text", "bytes", "cid"}]
  BY DEF Extra
<1>2. \A x \in names : extra[x] \in {"text", "bytes", "cid"}
  BY <1>1
<1>3. PICK back : back = ExtraAsRead(extra)
  OBVIOUS
<1>4. DOMAIN back = names /\ \A x \in names : back[x] = IF extra[x] = "text" THEN "text" ELSE "bytes"
  BY <1>1, <1>3 DEF ExtraAsRead
<1>5. back = [x \in names |-> back[x]] /\ extra = [x \in names |-> extra[x]]
  BY <1>1, <1>3, <1>4 DEF ExtraAsRead
<1>6. ASSUME ExtraKept(extra) PROVE back = extra
  <2>1. \A x \in names : back[x] = extra[x]
    BY <1>1, <1>2, <1>4, <1>6 DEF ExtraKept
  <2> QED
    BY <1>5, <2>1
<1>7. ASSUME back = extra PROVE ExtraKept(extra)
  BY <1>1, <1>4, <1>7 DEF ExtraKept
<1> QED
  BY <1>3, <1>6, <1>7

\* It comes back in whatever order it was written.
LEMMA IntMapRead ==
    ASSUME NEW extra \in Extra, NEW out \in EncodeIntMap(extra)
    PROVE  /\ out = Ok(out.val) /\ ExtraItems(out.val)
           /\ decodeIntMap(out.val).is = "ok"
           /\ KindsOf(decodeIntMap(out.val).val) = ExtraAsRead(extra)
<1> DEFINE names == DOMAIN extra
           item(x) == IF extra[x] = "text" THEN Str("text") ELSE Bin(<<0>>)
<1>1. PICK s \in Orders(names) :
        out = Ok(MapOf([i \in DOMAIN s |-> Entry(<<"number", s[i]>>, item(s[i]))]))
  BY DEF EncodeIntMap
<1>2. PICK entries : entries = [i \in DOMAIN s |-> Entry(<<"number", s[i]>>, item(s[i]))]
  OBVIOUS
<1>3. names \subseteq Extensions /\ IsFiniteSet(names)
  BY ExtraNames
<1>4. /\ s \in Seq(names) /\ Injective(s) /\ ToSet(s) = names
      /\ DOMAIN s = 1 .. Cardinality(names) /\ Cardinality(names) \in Nat
  BY <1>3, OrderIs
<1>5. PICK n \in Nat : n = Cardinality(names) /\ DOMAIN s = 1 .. n
  BY <1>4
<1>6. out = Ok(out.val) /\ out.val = MapOf(entries) /\ Value(out.val) = entries
  BY <1>1, <1>2 DEF Ok, MapOf, Item, Value
<1>7. \A x \in names : TypeIn(item(x)) = IF extra[x] = "text" THEN "string" ELSE "bytes"
  BY DEF TypeIn, Str, Bin, Item
<1> HIDE DEF item
<1>8. /\ DOMAIN entries = 1 .. n
      /\ \A i \in 1 .. n : /\ entries[i].key = <<"number", s[i]>> /\ entries[i].item = item(s[i])
                           /\ entries[i].key[1] = "number" /\ entries[i].key[2] = s[i]
                           /\ entries[i] \in ToSet(entries)
  BY <1>2, <1>5 DEF Entry, ToSet
<1>9. ASSUME NEW e \in ToSet(entries) PROVE e.key[1] = "number" /\ e.key[2] \in names
  <2>1. PICK i \in 1 .. n : e = entries[i]
    BY <1>8 DEF ToSet
  <2>2. s[i] \in names
    BY <1>4, <1>5
  <2> QED
    BY <1>8, <2>1, <2>2
<1>10. IsSeq(entries)
  <2>1. entries = [i \in 1 .. n |-> entries[i]]
    BY <1>2, <1>5
  <2> QED
    BY <1>8, <2>1 DEF IsSeq
<1>11. ExtraItems(out.val)
  BY <1>3, <1>6, <1>9, <1>10 DEF ExtraItems, IsList, IsSeq
<1> DEFINE keys == {e.key[2] : e \in ToSet(entries)}
           at(k) == {i \in DOMAIN entries : entries[i].key[2] = k}
           read == [k \in keys |-> entries[Max(at(k))].item]
<1>12. decodeIntMap(out.val) = Ok(read)
  BY <1>6, <1>9 DEF decodeIntMap
<1>13. keys = names
  <2>1. ASSUME NEW x \in names PROVE x \in keys
    <3>1. PICK i \in 1 .. n : s[i] = x
      BY <1>4, <1>5 DEF ToSet
    <3> QED
      BY <1>8, <3>1
  <2> QED
    BY <1>9, <2>1
<1>14. ASSUME NEW x \in names PROVE entries[Max(at(x))].item = item(x)
  <2>1. PICK i \in 1 .. n : s[i] = x
    BY <1>4, <1>5 DEF ToSet
  <2>2. at(x) = {i}
    BY <1>4, <1>5, <1>8, <2>1 DEF Injective
  <2> HIDE DEF at
  <2>3. {i} \in SUBSET (1 .. n) /\ {i} # {}
    OBVIOUS
  <2>4. Max({i}) \in {i}
    BY <2>3, Greatest
  <2> QED
    BY <1>8, <2>1, <2>2, <2>4
<1> HIDE DEF at, keys
<1>15. DOMAIN read = names /\ \A x \in names : read[x] = item(x)
  BY <1>13, <1>14
<1> HIDE DEF read
<1>16. KindsOf(read) = ExtraAsRead(extra)
  <2>1. \A x \in names : (IF TypeIn(read[x]) = "bytes" THEN "bytes" ELSE "text")
                         = IF extra[x] = "text" THEN "text" ELSE "bytes"
    BY <1>7, <1>15
  <2> QED
    BY <1>15, <2>1 DEF KindsOf, ExtraAsRead
<1>17. Ok(read).is = "ok" /\ Ok(read).val = read
  BY DEF Ok
<1> QED
  BY <1>6, <1>11, <1>12, <1>16, <1>17

-----------------------------------------------------------------------------
(* Directories, written and read *)

\* What is written is of its kind and has the items that were.
LEMMA Marshaller ==
    ASSUME NEW kind, NEW items, DOMAIN items \subseteq Nat, InitMarshaller(kind, items).is = "ok"
    PROVE  /\ InitMarshaller(kind, items) = Ok([kind |-> kind, items |-> [i \in DOMAIN items |-> items[i].val]])
           /\ \A i \in DOMAIN items : items[i].is = "ok"
<1>1. PICK wire : wire = [kind |-> kind, items |-> [i \in DOMAIN items |-> items[i].val]]
  OBVIOUS
<1>2. InitMarshaller(kind, items) = Unless(items, wire)
  BY <1>1 DEF InitMarshaller
<1> QED
  BY <1>1, <1>2, UnlessOk

\* The four items of a directory that could be written.
LEMMA DirectoryWritten ==
    ASSUME NEW d \in Directory, NEW out \in EncodeDirectory(d), out.is = "ok"
    PROVE  /\ EncodeReferences(d.directories, "*DirectoryReference").is = "ok"
           /\ EncodeReferences(d.files, "*FileReference").is = "ok"
           /\ out = Ok(out.val) /\ out.val.kind = "directory" /\ Len(out.val.items) = 4
           /\ out.val.items[1] = EncodeDetails(d.details).val
           /\ out.val.items[2] = EncodeReferences(d.directories, "*DirectoryReference").val
           /\ out.val.items[3] = EncodeReferences(d.files, "*FileReference").val
           /\ \E extra \in EncodeIntMap(d.extra) : out.val.items[4] = extra.val
<1> DEFINE a == EncodeDetails(d.details)
           b == EncodeReferences(d.directories, "*DirectoryReference")
           c == EncodeReferences(d.files, "*FileReference")
<1>1. PICK extra \in EncodeIntMap(d.extra) : out = InitMarshaller("directory", <<a, b, c, extra>>)
  BY DEF EncodeDirectory
<1> HIDE DEF a, b, c
<1>2. PICK items : items = <<a, b, c, extra>>
  OBVIOUS
<1>3. DOMAIN items = 1 .. 4 /\ DOMAIN items \subseteq Nat
  BY <1>2
<1>4. items[1] = a /\ items[2] = b /\ items[3] = c /\ items[4] = extra
  BY <1>2
<1>5. PICK vals : vals = [i \in DOMAIN items |-> items[i].val]
  OBVIOUS
<1>6. out = Ok([kind |-> "directory", items |-> vals]) /\ \A i \in DOMAIN items : items[i].is = "ok"
  BY <1>1, <1>2, <1>3, <1>5, Marshaller
<1>7. out = Ok(out.val) /\ out.val.kind = "directory" /\ out.val.items = vals
  BY <1>6 DEF Ok
<1>8. Len(vals) = 4 /\ vals[1] = a.val /\ vals[2] = b.val /\ vals[3] = c.val /\ vals[4] = extra.val
  BY <1>3, <1>4, <1>5
<1>9. b.is = "ok" /\ c.is = "ok"
  BY <1>3, <1>4, <1>6
<1> QED
  BY <1>7, <1>8, <1>9 DEF a, b, c

\* The fields of a directory.
LEMMA DirectoryFields ==
    ASSUME NEW d \in Directory
    PROVE  /\ d = [kind |-> d.kind, details |-> d.details, directories |-> d.directories,
                   files |-> d.files, extra |-> d.extra]
           /\ d.kind = "directory"
           /\ d.directories \in References(DirectoryReference)
           /\ d.files \in References(FileReference)
           /\ d.extra \in Extra
BY DEF Directory

\* A directory as it is once read.
LEMMA CanonicalDirectory ==
    ASSUME NEW d \in Directory
    PROVE  CanonicalDoc(d) =
             [kind |-> "directory", details |-> d.details,
              directories |-> CanonicalRefs(d.directories, "*DirectoryReference"),
              files |-> CanonicalRefs(d.files, "*FileReference"),
              extra |-> d.extra]
<1>1. d.kind = "directory"
  BY DirectoryFields
<1> QED
  BY <1>1 DEF CanonicalDoc, CanonicalRefs, CanonicalRef

-----------------------------------------------------------------------------
\* Whether every reference of a map can be read again.
AllKeptIn(refs, type) == \A i \in DOMAIN refs : RefKept(type, refs[i].ref)

\* Which directories are kept, part by part.
LEMMA DirectoryKeeps ==
    ASSUME NEW d \in Directory
    PROVE  Keeps(d) <=> /\ d.details = None /\ ExtraKept(d.extra)
                        /\ AllKeptIn(d.directories, "*DirectoryReference")
                        /\ AllKeptIn(d.files, "*FileReference")
<1>1. d.kind = "directory"
  BY DirectoryFields
<1>2. \A r : RefKept("*DirectoryReference", r) <=>
               (r.created = "uint64" /\ r.publicKey # None /\ r.writeKey # None)
  BY DEF RefKept
<1>3. \A r : RefKept("*FileReference", r) <=> FileKept(r)
  BY DEF RefKept
<1>4. Keeps(d) <=>
         /\ d.details = None /\ ExtraKept(d.extra)
         /\ \A i \in DOMAIN d.directories :
              LET r == d.directories[i].ref
              IN  r.created = "uint64" /\ r.publicKey # None /\ r.writeKey # None
         /\ \A i \in DOMAIN d.files : FileKept(d.files[i].ref)
  BY <1>1 DEF Keeps, FileKept, ExtraKept
<1> QED
  BY <1>2, <1>3, <1>4 DEF AllKeptIn

\* A directory is read back as it was exactly if it has no share details and no
\* updateCID and its references can be read.
LEMMA DirectoryReadBack ==
    ASSUME NEW d \in Directory, NoKeyTwice(d.directories), NoKeyTwice(d.files),
           NEW out \in EncodeDirectory(d), out.is = "ok"
    PROVE  DecodeDirectory(out.val) = Ok(CanonicalDoc(d)) <=> Keeps(d)
<1> DEFINE wire == out.val
           dirType == "*DirectoryReference"
           fileType == "*FileReference"
           details     == DecodeDetails(wire.items[1])
           directories == unmarshalMapMsgpack(wire.items[2], dirType)
           files       == unmarshalMapMsgpack(wire.items[3], fileType)
           extra       == decodeIntMap(wire.items[4])
           read(a, b, c, e) == [kind |-> "directory", details |-> a, directories |-> b,
                                files |-> c, extra |-> e]
           ca == CanonicalRefs(d.directories, dirType)
           cb == CanonicalRefs(d.files, fileType)
           cc == d.extra
<1>1. /\ EncodeReferences(d.directories, dirType).is = "ok"
      /\ EncodeReferences(d.files, fileType).is = "ok"
      /\ wire.kind = "directory" /\ Len(wire.items) = 4
      /\ wire.items[1] = EncodeDetails(d.details).val
      /\ wire.items[2] = EncodeReferences(d.directories, dirType).val
      /\ wire.items[3] = EncodeReferences(d.files, fileType).val
  BY DirectoryWritten
<1>2. PICK e \in EncodeIntMap(d.extra) : wire.items[4] = e.val
  BY DirectoryWritten
<1>3. /\ d.directories \in References(RefType(dirType)) /\ d.files \in References(RefType(fileType))
      /\ d.extra \in Extra
  BY DirectoryFields DEF RefType
<1>4. CanonicalDoc(d) = read(d.details, ca, cb, cc)
  BY CanonicalDirectory
<1>5. Keeps(d) <=> /\ d.details = None /\ ExtraKept(d.extra)
                   /\ AllKeptIn(d.directories, dirType) /\ AllKeptIn(d.files, fileType)
  BY DirectoryKeeps
<1>6. DecodeDirectory(wire) =
        Unless(<<details, directories, files, extra>>,
               read(details.val, directories.val, files.val, KindsOf(extra.val)))
  <2> HIDE DEF wire
  <2> QED
    BY <1>1 DEF DecodeDirectory, InitUnmarshaller
<1> HIDE DEF wire
<1>7. IF d.details = None THEN details = Ok(None) ELSE details.is # "ok"
  <2>1. Value(wire.items[1]) = IF d.details = None THEN <<>>
                               ELSE <<Entry(<<"number", 3>>, Arr(<<Nil, d.details.read, d.details.write>>))>>
    BY <1>1 DEF EncodeDetails, Ok, MapOf, Item, Value
  <2>2. \A x : <<x>> # <<>>
    OBVIOUS
  <2> QED
    BY <2>1, <2>2 DEF DecodeDetails, Panic, Error
<1>8. IF AllKeptIn(d.directories, dirType)
      THEN directories = Ok(ca)
      ELSE directories.is = "ok" => directories.val # ca
  <2>0. d.directories # None
    BY <1>1, <1>3, ReferencesWritten DEF PointerTypes
  <2>1. Distinct(d.directories)
    BY <2>0 DEF NoKeyTwice, Distinct
  <2>2. PICK refs : refs = d.directories
    OBVIOUS
  <2>3. PICK x : x = dirType
    OBVIOUS
  <2>4. LET o == unmarshalMapMsgpack(EncodeReferences(refs, x).val, x)
        IN  IF \A i \in DOMAIN refs : RefKept(x, refs[i].ref)
            THEN o = Ok(CanonicalRefs(refs, x))
            ELSE o.is = "ok" => o = Ok(o.val) /\ o.val # CanonicalRefs(refs, x)
    BY <1>1, <1>3, <2>1, <2>2, <2>3, ReferencesRead DEF PointerTypes
  <2> QED
    BY <1>1, <2>2, <2>3, <2>4 DEF AllKeptIn
<1>9. IF AllKeptIn(d.files, fileType)
      THEN files = Ok(cb)
      ELSE files.is = "ok" => files.val # cb
  <2>0. d.files # None
    BY <1>1, <1>3, ReferencesWritten DEF PointerTypes
  <2>1. Distinct(d.files)
    BY <2>0 DEF NoKeyTwice, Distinct
  <2>2. PICK refs : refs = d.files
    OBVIOUS
  <2>3. PICK x : x = fileType
    OBVIOUS
  <2>4. LET o == unmarshalMapMsgpack(EncodeReferences(refs, x).val, x)
        IN  IF \A i \in DOMAIN refs : RefKept(x, refs[i].ref)
            THEN o = Ok(CanonicalRefs(refs, x))
            ELSE o.is = "ok" => o = Ok(o.val) /\ o.val # CanonicalRefs(refs, x)
    BY <1>1, <1>3, <2>1, <2>2, <2>3, ReferencesRead DEF PointerTypes
  <2> QED
    BY <1>1, <2>2, <2>3, <2>4 DEF AllKeptIn
<1>10. extra.is = "ok" /\ (KindsOf(extra.val) = cc <=> ExtraKept(d.extra))
  BY <1>2, <1>3, IntMapRead, ExtraSame
<1>11. PICK all : all = <<details, directories, files, extra>>
  OBVIOUS
<1>12. /\ DOMAIN all = 1 .. 4 /\ DOMAIN all \subseteq Nat
       /\ all[1] = details /\ all[2] = directories /\ all[3] = files /\ all[4] = extra
  BY <1>11
<1> HIDE DEF details, directories, files, extra, ca, cb, cc
<1>13. PICK v : v = read(details.val, directories.val, files.val, KindsOf(extra.val))
  OBVIOUS
<1>14. /\ v.directories = directories.val /\ v.files = files.val /\ v.extra = KindsOf(extra.val)
       /\ CanonicalDoc(d).directories = ca /\ CanonicalDoc(d).files = cb
       /\ CanonicalDoc(d).extra = cc
  BY <1>4, <1>13
<1>15. /\ (\A i \in DOMAIN all : all[i].is = "ok") => DecodeDirectory(wire) = Ok(v)
       /\ DecodeDirectory(wire).is = "ok" =>
            DecodeDirectory(wire) = Ok(v) /\ \A i \in DOMAIN all : all[i].is = "ok"
  BY <1>6, <1>11, <1>12, <1>13, UnlessOk
<1>16. \A x : Ok(x).val = x /\ Ok(x).is = "ok"
  BY DEF Ok
<1>17. CASE Keeps(d)
  <2>1. /\ details = Ok(None) /\ directories = Ok(ca) /\ files = Ok(cb) /\ d.details = None
        /\ KindsOf(extra.val) = cc
    BY <1>5, <1>7, <1>8, <1>9, <1>10, <1>17
  <2>2. \A i \in DOMAIN all : all[i].is = "ok"
    BY <1>10, <1>12, <1>16, <2>1
  <2>3. v = CanonicalDoc(d)
    BY <1>4, <1>10, <1>13, <1>16, <2>1
  <2> QED
    BY <1>15, <1>17, <2>2, <2>3 DEF wire
<1>18. CASE ~Keeps(d)
  <2>1. SUFFICES ASSUME DecodeDirectory(wire) = Ok(CanonicalDoc(d)) PROVE FALSE
    BY <1>18 DEF wire
  <2>2. /\ Ok(v) = Ok(CanonicalDoc(d))
        /\ \A i \in DOMAIN all : all[i].is = "ok"
    BY <1>15, <1>16, <2>1
  <2>3. v = CanonicalDoc(d)
    BY <1>16, <2>2
  <2>4. details.is = "ok" /\ directories.is = "ok" /\ files.is = "ok"
    BY <1>12, <2>2
  <2>5. directories.val = ca /\ files.val = cb /\ KindsOf(extra.val) = cc
    BY <1>14, <2>3
  <2> QED
    BY <1>5, <1>7, <1>8, <1>9, <1>10, <1>18, <2>4, <2>5
<1> QED
  BY <1>17, <1>18

-----------------------------------------------------------------------------
(* The paths of web apps, written and read *)

\* Sorting loses no path.
LEMMA SortedAll ==
    ASSUME NEW paths \in Seq(PathEntry), Distinct(paths)
    PROVE  ToSet(Sort(paths)) = ToSet(paths)
<1>1. ToSet(paths) \subseteq PathEntry
  BY Members
<1>2. ToSet(KeysOf(paths)) = ToSet(PathOrder) \cap {p.key : p \in ToSet(paths)}
  BY KeysSorted
<1>3. /\ DOMAIN Sort(paths) = DOMAIN KeysOf(paths)
      /\ \A i \in DOMAIN Sort(paths) :
           Sort(paths)[i].key = KeysOf(paths)[i] /\ Sort(paths)[i] \in ToSet(paths)
  <2>1. paths \in Seq([key : ToSet(PathOrder), cid : CIDValues])
    BY DEF PathEntry
  <2> QED
    BY <2>1, Sorted
<1>4. ASSUME NEW p \in ToSet(paths) PROVE p \in ToSet(Sort(paths))
  <2>1. p.key \in ToSet(KeysOf(paths))
    BY <1>1, <1>2 DEF PathEntry
  <2>2. PICK i \in DOMAIN KeysOf(paths) : KeysOf(paths)[i] = p.key
    BY <2>1 DEF ToSet
  <2>3. Sort(paths)[i].key = p.key /\ Sort(paths)[i] \in ToSet(paths)
    BY <1>3, <2>2
  <2>4. Sort(paths)[i] = p
    BY <2>3 DEF ToSet, Distinct
  <2> QED
    BY <1>3, <2>2, <2>4 DEF ToSet
<1>5. ASSUME NEW p \in ToSet(Sort(paths)) PROVE p \in ToSet(paths)
  BY <1>3 DEF ToSet
<1> QED
  BY <1>4, <1>5

\* A row as it is written, and as it is read.
LEMMA RowRead ==
    ASSUME NEW key, NEW bytes
    PROVE  LET row == Value(Arr(<<Str(key), Bin(bytes), Str("text")>>))
           IN  DecodePath(row) = initCID(bytes) /\ Value(row[1]) = key
<1> DEFINE row == <<Str(key), Bin(bytes), Str("text")>>
           want == <<"string", "bytes", "string">>
<1>1. Value(Arr(row)) = row
  BY DEF Value, Arr, Item
<1>2. Len(row) = 3 /\ DOMAIN want = {1, 2, 3}
  OBVIOUS
<1>3. /\ TypeIn(row[1]) = "string" /\ TypeIn(row[2]) = "bytes" /\ TypeIn(row[3]) = "string"
      /\ Value(row[1]) = key /\ Value(row[2]) = bytes
  BY DEF TypeIn, Value, Str, Bin, Item
<1>4. want[1] = "string" /\ want[2] = "bytes" /\ want[3] = "string"
  OBVIOUS
<1> HIDE DEF row, want
<1>5. {i \in DOMAIN want : i > Len(row) \/ (i <= Len(row) /\ TypeIn(row[i]) # want[i])} = {}
  BY <1>2, <1>3, <1>4
<1>6. DecodePath(row) = initCID(Value(row[2]))
  BY <1>5 DEF DecodePath, want
<1> QED
  BY <1>1, <1>3, <1>6 DEF row

CanonicalPaths(paths) ==
  IF paths = None THEN None
  ELSE LET sorted == Sort(paths)
       IN  [i \in DOMAIN sorted |-> [sorted[i] EXCEPT !.cid = Canonical(@)]]

PathsKept(paths) == paths # None => \A i \in DOMAIN paths : WellFormed(paths[i].cid)

\* Paths come back sorted, exactly if their CIDs are well formed.
LEMMA PathsRead ==
    ASSUME NEW paths \in {None} \cup Seq(PathEntry), NoKeyTwice(paths)
    PROVE  LET out == DecodePaths(EncodePaths(paths).val)
           IN  IF PathsKept(paths)
               THEN out = Ok(CanonicalPaths(paths))
               ELSE out.is = "ok" => out.val # CanonicalPaths(paths)
<1> DEFINE item == EncodePaths(paths).val
<1>1. CASE paths = None
  <2>1. item = Nil
    BY <1>1 DEF EncodePaths, Ok
  <2>2. DecodePaths(item) = Ok(None)
    BY <2>1 DEF DecodePaths
  <2> QED
    BY <1>1, <2>2 DEF PathsKept, CanonicalPaths
<1>2. CASE paths # None
  <2>1. paths \in Seq(PathEntry) /\ Distinct(paths)
    BY <1>2 DEF NoKeyTwice, Distinct
  <2> DEFINE sorted == Sort(paths)
             row(i) == Arr(<<Str(sorted[i].key), Bin(ToBytes(sorted[i].cid)), Str("text")>>)
             table == [i \in DOMAIN sorted |-> row(i)]
             canon == CanonicalPaths(paths)
  <2>2. item = Arr(table)
    BY <1>2 DEF EncodePaths, Ok
  <2>3. /\ sorted \in Seq(PathEntry) /\ Distinct(sorted)
        /\ ToSet(sorted) = ToSet(paths)
    <3>1. paths \in Seq([key : ToSet(PathOrder), cid : CIDValues])
      BY <2>1 DEF PathEntry
    <3> QED
      BY <2>1, <3>1, Sorted, SortedAll
  <2>4. DOMAIN sorted = 1 .. Len(sorted) /\ Len(sorted) \in Nat /\ \A i \in DOMAIN sorted : sorted[i] \in PathEntry
    BY <2>3
  <2>5. Value(item) = table /\ item # Nil
    BY <2>2 DEF Arr, Nil, Item, Value
  <2> DEFINE cids == [i \in DOMAIN Value(item) |-> DecodePath(Value(Value(item)[i]))]
             rows == [i \in DOMAIN cids |-> [key |-> Value(Value(Value(item)[i])[1]), cid |-> cids[i].val]]
  <2>6. DecodePaths(item) = Unless(cids, Sort(PutAll(rows)))
    <3> HIDE DEF item
    <3> QED
      BY <2>5 DEF DecodePaths
  <2> HIDE DEF item
  <2>7. DOMAIN cids = DOMAIN sorted /\ DOMAIN rows = DOMAIN sorted /\ DOMAIN table = DOMAIN sorted
    BY <2>5
  <2>8. ASSUME NEW i \in DOMAIN sorted
        PROVE  /\ cids[i] = initCID(ToBytes(sorted[i].cid))
               /\ rows[i] = [key |-> sorted[i].key, cid |-> cids[i].val]
    <3>1. Value(item)[i] = row(i)
      BY <2>5
    <3>2. PICK k, b : k = sorted[i].key /\ b = ToBytes(sorted[i].cid)
      OBVIOUS
    <3>3. PICK r : r = Value(Value(item)[i])
      OBVIOUS
    <3>4. r = Value(Arr(<<Str(k), Bin(b), Str("text")>>))
      BY <3>1, <3>2, <3>3
    <3>5. DecodePath(r) = initCID(b) /\ Value(r[1]) = k
      BY <3>4, RowRead
    <3>6. cids[i] = DecodePath(r) /\ rows[i] = [key |-> Value(r[1]), cid |-> cids[i].val]
      BY <2>7, <3>3
    <3> HIDE DEF cids, rows
    <3> QED
      BY <3>2, <3>5, <3>6
  <2> HIDE DEF sorted, table, cids, rows
  <2>9. ASSUME NEW i \in DOMAIN sorted
        PROVE  /\ WellFormed(sorted[i].cid) => cids[i] = Ok(Canonical(sorted[i].cid))
               /\ ~WellFormed(sorted[i].cid) => cids[i] # Ok(Canonical(sorted[i].cid))
               /\ cids[i].is = "ok" => cids[i] = Ok(cids[i].val) /\ cids[i].val \in CIDValues
    <3>1. PICK c \in CIDValues : c = sorted[i].cid
      BY <2>4 DEF PathEntry
    <3>2. /\ WellFormed(c) => initCID(ToBytes(c)) = Ok(Canonical(c))
          /\ ~ WellFormed(c) => initCID(ToBytes(c)) # Ok(Canonical(c))
          /\ ToBytes(c) \in Seq(Byte)
      BY ReadCID
    <3>3. \/ initCID(ToBytes(c)) = Error \/ initCID(ToBytes(c)) = Overrun
          \/ \E x \in CIDValues : initCID(ToBytes(c)) = Ok(x)
      BY <3>2, ReadAny
    <3>4. \A x : Ok(x).val = x /\ Ok(x).is = "ok"
      BY DEF Ok
    <3>5. Error.is # "ok" /\ Overrun.is # "ok"
      BY DEF Error, Overrun
    <3>6. PICK o : o = initCID(ToBytes(c)) /\ o = cids[i]
      BY <2>8, <3>1
    <3>7. o.is = "ok" => o = Ok(o.val) /\ o.val \in CIDValues
      BY <3>3, <3>4, <3>5, <3>6
    <3> QED
      BY <3>1, <3>2, <3>6, <3>7
  <2>10. ASSUME \A i \in DOMAIN sorted : cids[i].is = "ok"
         PROVE  Sort(PutAll(rows)) = rows
    <3>1. ASSUME NEW i \in DOMAIN sorted
          PROVE  rows[i] \in PathEntry /\ rows[i].key = sorted[i].key
      <4>1. PICK k, c : k = sorted[i].key /\ c = cids[i].val /\ k \in ToSet(PathOrder) /\ c \in CIDValues
        BY <2>4, <2>9, <2>10 DEF PathEntry
      <4>2. rows[i] = [key |-> k, cid |-> c]
        BY <2>8, <4>1
      <4> QED
        BY <4>1, <4>2 DEF PathEntry
    <3>2. rows = [i \in 1 .. Len(sorted) |-> rows[i]]
      BY <2>4, <2>7 DEF rows
    <3>3. rows \in Seq(PathEntry)
      BY <2>4, <3>1, <3>2
    <3>4. Distinct(rows) /\ Sort(rows) = rows
      BY <2>1, <2>7, <3>1, <3>3, SortedAlready DEF sorted
    <3>5. PutAll(rows) = rows
      BY <3>3, <3>4, AllPut
    <3> QED
      BY <3>4, <3>5
  <2>11. ASSUME NEW i \in DOMAIN sorted
         PROVE  canon[i] = [key |-> sorted[i].key, cid |-> Canonical(sorted[i].cid)]
    <3>1. PICK x : x = sorted[i]
      OBVIOUS
    <3>2. x = [key |-> x.key, cid |-> x.cid]
      BY <2>4, <3>1 DEF PathEntry
    <3>3. ASSUME NEW c PROVE [x EXCEPT !.cid = c] = [key |-> x.key, cid |-> c]
      BY <3>2
    <3>4. canon[i] = [x EXCEPT !.cid = Canonical(x.cid)]
      BY <1>2, <3>1 DEF CanonicalPaths, sorted
    <3> QED
      BY <3>1, <3>3, <3>4, Zenon
  <2>12. canon = [i \in DOMAIN sorted |-> canon[i]] /\ DOMAIN canon = DOMAIN sorted
    BY <1>2 DEF CanonicalPaths, sorted
  <2>13. rows = [i \in DOMAIN sorted |-> rows[i]]
    BY <2>7 DEF rows
  <2> HIDE DEF canon
  <2>14. DOMAIN cids \subseteq Nat
    BY <2>4, <2>7
  <2>15. /\ (\A i \in DOMAIN sorted : cids[i].is = "ok") => DecodePaths(item) = Ok(rows)
         /\ DecodePaths(item).is = "ok" =>
              DecodePaths(item) = Ok(rows) /\ \A i \in DOMAIN sorted : cids[i].is = "ok"
    BY <2>6, <2>7, <2>10, <2>14, UnlessOk
  <2>16. \A x : Ok(x).val = x /\ Ok(x).is = "ok"
    BY DEF Ok
  <2>17. PathsKept(paths) <=> \A i \in DOMAIN sorted : WellFormed(sorted[i].cid)
    <3>1. PathsKept(paths) <=> \A p \in ToSet(paths) : WellFormed(p.cid)
      BY <1>2 DEF PathsKept, ToSet
    <3>2. (\A i \in DOMAIN sorted : WellFormed(sorted[i].cid)) <=> \A p \in ToSet(sorted) : WellFormed(p.cid)
      BY DEF ToSet
    <3> QED
      BY <2>3, <3>1, <3>2
  <2>18. CASE PathsKept(paths)
    <3>1. ASSUME NEW i \in DOMAIN sorted PROVE cids[i].is = "ok" /\ rows[i] = canon[i]
      <4>1. PICK c : c = Canonical(sorted[i].cid) /\ cids[i] = Ok(c)
        BY <2>9, <2>17, <2>18
      <4>2. cids[i].is = "ok" /\ cids[i].val = c
        BY <2>16, <4>1
      <4>3. rows[i] = [key |-> sorted[i].key, cid |-> c]
        BY <2>8, <4>2
      <4>4. canon[i] = [key |-> sorted[i].key, cid |-> c]
        BY <2>11, <4>1
      <4> QED
        BY <4>2, <4>3, <4>4
    <3>2. rows = canon
      BY <2>12, <2>13, <3>1
    <3> QED
      BY <2>15, <2>18, <3>1, <3>2 DEF item, canon
  <2>19. CASE ~PathsKept(paths)
    <3>1. PICK i \in DOMAIN sorted : ~WellFormed(sorted[i].cid)
      BY <2>17, <2>19
    <3>2. ASSUME DecodePaths(item).is = "ok" PROVE DecodePaths(item).val # canon
      <4>1. DecodePaths(item).val = rows /\ cids[i].is = "ok"
        BY <2>15, <2>16, <3>2
      <4>2. cids[i].val # Canonical(sorted[i].cid)
        BY <2>9, <3>1, <4>1
      <4>3. PICK k, x, y : /\ k = sorted[i].key /\ x = cids[i].val /\ y = Canonical(sorted[i].cid)
                           /\ rows[i] = [key |-> k, cid |-> x] /\ canon[i] = [key |-> k, cid |-> y]
        BY <2>8, <2>11
      <4>4. rows[i].cid # canon[i].cid
        BY <4>2, <4>3
      <4> QED
        BY <4>1, <4>4
    <3> QED
      BY <2>19, <3>2 DEF item, canon
  <2> QED
    BY <2>18, <2>19
<1> QED
  BY <1>1, <1>2

-----------------------------------------------------------------------------
(* Web apps, written and read *)

\* A map with the keys in some order.
LEMMA OrderWritten ==
    ASSUME NEW S, IsFiniteSet(S), NEW s \in Orders(S), NEW entries, DOMAIN entries = DOMAIN s
    PROVE  /\ DOMAIN entries = 1 .. Cardinality(S) /\ Cardinality(S) \in Nat
           /\ DOMAIN entries \subseteq Nat
           /\ IsSeq([i \in DOMAIN s |-> entries[i]])
           /\ \A x \in S : \E i \in DOMAIN s : s[i] = x
           /\ \A i \in DOMAIN s : s[i] \in S
<1>1. s \in Seq(S) /\ ToSet(s) = S /\ DOMAIN s = 1 .. Cardinality(S) /\ Cardinality(S) \in Nat
  BY OrderIs
<1>2. PICK n \in Nat : n = Cardinality(S) /\ DOMAIN s = 1 .. n
  BY <1>1
<1>3. PICK e : e = [i \in 1 .. n |-> entries[i]]
  OBVIOUS
<1>4. \A i \in 1 .. n : e[i] \in ToSet(e)
  BY <1>3 DEF ToSet
<1>5. IsSeq(e)
  <2>1. e = [i \in 1 .. n |-> e[i]]
    BY <1>3
  <2> QED
    BY <1>4, <2>1 DEF IsSeq
<1>6. \A x \in S : \E i \in DOMAIN s : s[i] = x
  BY <1>1 DEF ToSet
<1>7. \A i \in DOMAIN s : s[i] \in S
  BY <1>1 DEF ToSet
<1> QED
  BY <1>1, <1>2, <1>3, <1>5, <1>6, <1>7

\* The error pages are read back, in whatever order they were written.
LEMMA PagesRead ==
    ASSUME NEW S, IsFiniteSet(S), NEW out \in EncodeErrorPages(S)
    PROVE  /\ out = Ok(out.val) /\ IsList(out.val)
           /\ {e.key : e \in ToSet(Value(out.val))} = S
<1>1. PICK s \in Orders(S) : out = Ok(MapOf([i \in DOMAIN s |-> Entry(s[i], Str("text"))]))
  BY DEF EncodeErrorPages
<1>2. PICK entries : entries = [i \in DOMAIN s |-> Entry(s[i], Str("text"))]
  OBVIOUS
<1>3. out = Ok(out.val) /\ Value(out.val) = entries
  BY <1>1, <1>2 DEF Ok, MapOf, Item, Value
<1>4. DOMAIN entries = DOMAIN s /\ entries = [i \in DOMAIN s |-> entries[i]]
  BY <1>2
<1>5. /\ IsSeq([i \in DOMAIN s |-> entries[i]])
      /\ \A x \in S : \E i \in DOMAIN s : s[i] = x
      /\ \A i \in DOMAIN s : s[i] \in S
  BY <1>4, OrderWritten
<1>6. \A i \in DOMAIN s : entries[i].key = s[i] /\ entries[i] \in ToSet(entries)
  BY <1>2 DEF Entry, ToSet
<1>7. ASSUME NEW e \in ToSet(entries) PROVE e.key \in S
  BY <1>4, <1>5, <1>6 DEF ToSet
<1>8. {e.key : e \in ToSet(entries)} = S
  BY <1>5, <1>6, <1>7
<1>9. IsList(out.val)
  BY <1>3, <1>4, <1>5 DEF IsList, IsSeq
<1> QED
  BY <1>3, <1>8, <1>9

\* Named extra metadata is not read: either that fails or there is none left.
LEMMA ExtraRead ==
    ASSUME NEW extra \in Extra, NEW out \in EncodeExtra(extra)
    PROVE  /\ out = Ok(out.val) /\ ExtraItems(out.val)
           /\ LET read == DecodeExtra(out.val)
              IN  IF extra = NoExtra THEN read = Ok(NoExtra)
                  ELSE read.is = "ok" => read.val # extra
<1> DEFINE names == DOMAIN extra \ {"updateCID"}
<1>0. IsFiniteSet(names) /\ names \subseteq Extensions
  BY ExtraNames, FS_Subset
<1>1. PICK s \in Orders(names) :
        out = Ok(MapOf([i \in DOMAIN s |-> Entry(<<"name", s[i]>>, Str("text"))]))
  BY DEF EncodeExtra
<1>2. PICK entries : entries = [i \in DOMAIN s |-> Entry(<<"name", s[i]>>, Str("text"))]
  OBVIOUS
<1>3. out = Ok(out.val) /\ Value(out.val) = entries
  BY <1>1, <1>2 DEF Ok, MapOf, Item, Value
<1>4. DOMAIN entries = DOMAIN s /\ entries = [i \in DOMAIN s |-> entries[i]]
  BY <1>2
<1>5. /\ IsSeq([i \in DOMAIN s |-> entries[i]])
      /\ DOMAIN entries \subseteq Nat
      /\ \A x \in names : \E i \in DOMAIN s : s[i] = x
      /\ \A i \in DOMAIN s : s[i] \in names
  BY <1>0, <1>4, OrderWritten
<1>6. \A i \in DOMAIN s : /\ entries[i].key = <<"name", s[i]>>
                          /\ entries[i].key[1] = "name" /\ entries[i].key[2] = s[i]
  BY <1>2 DEF Entry
<1>7. ASSUME NEW e \in ToSet(entries) PROVE e.key[2] \in Extensions
  <2>1. PICK i \in DOMAIN s : e = entries[i]
    BY <1>4 DEF ToSet
  <2> QED
    BY <1>0, <1>5, <1>6, <2>1
<1>8. ExtraItems(out.val)
  BY <1>3, <1>4, <1>5, <1>7 DEF ExtraItems, IsList, IsSeq
<1> DEFINE Outcome(e) == CASE e.key[1] = "name" -> Error
                           [] e.key = <<"number", "updateCID">> -> initCID(Value(e.item))
                           [] OTHER -> Ok(None)
           outcomes == [i \in DOMAIN entries |-> Outcome(entries[i])]
           keys == {e.key[2] : e \in ToSet(entries)}
           value == [x \in keys |-> IF x = "updateCID" THEN "cid" ELSE "text"]
           read == DecodeExtra(out.val)
<1>9. read = Unless(outcomes, value)
  BY <1>3 DEF DecodeExtra
<1>10. \A i \in DOMAIN s : outcomes[i].is # "ok"
  <2>1. \A i \in DOMAIN s : outcomes[i] = Outcome(entries[i])
    BY <1>4
  <2>2. \A e : e.key[1] = "name" => Outcome(e) = Error
    <3>1. <<"number", "updateCID">>[1] = "number"
      OBVIOUS
    <3> QED
      BY <3>1
  <2> HIDE DEF Outcome, outcomes
  <2>3. Error.is # "ok"
    BY DEF Error
  <2> QED
    BY <1>6, <2>1, <2>2, <2>3
<1>11. DOMAIN outcomes = DOMAIN s /\ DOMAIN outcomes \subseteq Nat
  BY <1>4, <1>5
<1>12. DOMAIN value = keys
  OBVIOUS
<1>13. names = {} => keys = {} /\ DOMAIN s = {}
  <2>1. ASSUME names = {} PROVE DOMAIN s = {}
    BY <1>5, <2>1
  <2> QED
    BY <1>4, <2>1 DEF ToSet
<1> HIDE DEF outcomes, value, read, keys
<1>14. /\ (\A i \in DOMAIN outcomes : outcomes[i].is = "ok") => read = Ok(value)
       /\ read.is = "ok" => read = Ok(value) /\ \A i \in DOMAIN outcomes : outcomes[i].is = "ok"
  BY <1>9, <1>11, UnlessOk
<1>15. CASE extra = NoExtra
  <2>1. names = {}
    BY <1>15 DEF NoExtra
  <2>2. read = Ok(value)
    BY <1>11, <1>13, <1>14, <2>1
  <2>3. value = NoExtra
    BY <1>13, <2>1 DEF value, NoExtra
  <2> QED
    BY <1>3, <1>8, <1>15, <2>2, <2>3 DEF read
<1>16. CASE extra # NoExtra
  <2>1. ASSUME read.is = "ok" PROVE read.val # extra
    <3>1. DOMAIN s = {} /\ read = Ok(value)
      BY <1>10, <1>11, <1>14, <2>1
    <3>2. names = {}
      BY <1>5, <3>1
    <3>3. DOMAIN value = {}
      BY <1>12, <1>13, <3>2
    <3>4. DOMAIN extra # {}
      <4>1. extra = [x \in DOMAIN extra |-> extra[x]]
        BY DEF Extra
      <4> QED
        BY <1>16, <4>1 DEF NoExtra
    <3>5. read.val = value
      BY <3>1 DEF Ok
    <3> QED
      BY <3>3, <3>4, <3>5
  <2> QED
    BY <1>3, <1>8, <1>16, <2>1 DEF read
<1> QED
  BY <1>15, <1>16

\* The fields of a web app.
LEMMA WebAppFields ==
    ASSUME NEW d \in WebApp
    PROVE  /\ d = [kind |-> d.kind, errorPages |-> d.errorPages, paths |-> d.paths,
                   extra |-> d.extra]
           /\ d.kind = "webapp"
           /\ d.errorPages \subseteq ErrorCodes /\ IsFiniteSet(d.errorPages)
           /\ d.paths \in {None} \cup Seq(PathEntry)
           /\ d.extra \in Extra
<1>1. d.errorPages \in SUBSET ErrorCodes
  BY DEF WebApp
<1>2. IsFiniteSet(d.errorPages)
  BY <1>1, DocumentAssumption, FS_Subset
<1> QED
  BY <1>1, <1>2 DEF WebApp

\* The items of a web app, which can always be written.
LEMMA WebAppWritten ==
    ASSUME NEW d \in WebApp, NEW out \in EncodeWebApp(d)
    PROVE  /\ out = Ok(out.val) /\ out.val.kind = "webapp" /\ Len(out.val.items) = 5
           /\ \E pages \in EncodeErrorPages(d.errorPages) : out.val.items[3] = pages.val
           /\ out.val.items[4] = EncodePaths(d.paths).val
           /\ \E extra \in EncodeExtra(d.extra) : out.val.items[5] = extra.val
<1> DEFINE b == EncodePaths(d.paths)
<1>1. PICK pages \in EncodeErrorPages(d.errorPages), extra \in EncodeExtra(d.extra) :
        out = MarshalWebApp(b, pages, extra)
  BY DEF EncodeWebApp
<1>2. b.is = "ok"
  BY DEF EncodePaths, Ok
<1>3. pages.is = "ok" /\ extra.is = "ok"
  <2>1. \A x : Ok(x).is = "ok"
    BY DEF Ok
  <2>2. (\E x : pages = Ok(x)) /\ (\E x : extra = Ok(x))
    BY DEF EncodeErrorPages, EncodeExtra
  <2> QED
    BY <2>1, <2>2
<1> HIDE DEF b
<1>4. PICK items : items = <<Ok(Str("text")), Ok(Arr(<<>>)), pages, b, extra>>
  OBVIOUS
<1>5. DOMAIN items = 1 .. 5 /\ DOMAIN items \subseteq Nat
  BY <1>4
<1>6. /\ items[1] = Ok(Str("text")) /\ items[2] = Ok(Arr(<<>>))
      /\ items[3] = pages /\ items[4] = b /\ items[5] = extra
  BY <1>4
<1>7. \A i \in DOMAIN items : items[i].is = "ok"
  <2>1. \A x : Ok(x).is = "ok"
    BY DEF Ok
  <2> QED
    BY <1>2, <1>3, <1>5, <1>6, <2>1
<1>8. PICK vals : vals = [i \in DOMAIN items |-> items[i].val]
  OBVIOUS
<1>9. PICK wire : wire = [kind |-> "webapp", items |-> vals]
  OBVIOUS
<1>10. out = Ok(wire)
  <2>1. out = Unless(items, wire)
    BY <1>1, <1>4, <1>8, <1>9 DEF MarshalWebApp, InitMarshaller
  <2> QED
    BY <1>5, <1>7, <2>1, UnlessOk
<1>11. out = Ok(out.val) /\ out.val.kind = "webapp" /\ out.val.items = vals
  BY <1>9, <1>10 DEF Ok
<1>12. Len(vals) = 5 /\ vals[3] = pages.val /\ vals[4] = b.val /\ vals[5] = extra.val
  BY <1>5, <1>6, <1>8
<1> QED
  BY <1>11, <1>12 DEF b

\* A web app is read back as it was, its paths sorted, exactly if it has no
\* extra metadata and its CIDs are well formed.
LEMMA WebAppReadBack ==
    ASSUME NEW d \in WebApp, NoKeyTwice(d.paths), NEW out \in EncodeWebApp(d)
    PROVE  DecodeWebApp(out.val) = Ok(CanonicalDoc(d)) <=> Keeps(d)
<1> DEFINE wire == out.val
           paths == DecodePaths(wire.items[4])
           extra == DecodeExtra(wire.items[5])
           pages == {e.key : e \in ToSet(Value(wire.items[3]))}
           read(a, b, c) == [kind |-> "webapp", errorPages |-> a, paths |-> b, extra |-> c]
           canon == CanonicalPaths(d.paths)
<1>1. wire.kind = "webapp" /\ Len(wire.items) = 5 /\ wire.items[4] = EncodePaths(d.paths).val
  BY WebAppWritten
<1>2. PICK p \in EncodeErrorPages(d.errorPages) : wire.items[3] = p.val
  BY WebAppWritten
<1>3. PICK x \in EncodeExtra(d.extra) : wire.items[5] = x.val
  BY WebAppWritten
<1>4. /\ d = [kind |-> d.kind, errorPages |-> d.errorPages, paths |-> d.paths, extra |-> d.extra]
      /\ d.kind = "webapp" /\ IsFiniteSet(d.errorPages)
      /\ d.paths \in {None} \cup Seq(PathEntry) /\ d.extra \in Extra
  BY WebAppFields
<1>5. CanonicalDoc(d) = read(d.errorPages, canon, d.extra)
  <2>1. ASSUME NEW c
        PROVE  [d EXCEPT !.paths = c] = [kind |-> d.kind, errorPages |-> d.errorPages,
                                         paths |-> c, extra |-> d.extra]
    BY <1>4
  <2>2. CanonicalDoc(d) = [d EXCEPT !.paths = canon]
    BY <1>4 DEF CanonicalDoc, CanonicalPaths
  <2> HIDE DEF canon
  <2>3. [d EXCEPT !.paths = canon] = read(d.errorPages, canon, d.extra)
    BY <1>4, <2>1, Zenon
  <2> QED
    BY <2>2, <2>3
<1>6. Keeps(d) <=> d.extra = NoExtra /\ PathsKept(d.paths)
  BY <1>4 DEF Keeps, PathsKept
<1> HIDE DEF wire
<1>7. DecodeWebApp(wire) = Unless(<<paths, extra>>, read(pages, paths.val, extra.val))
  BY <1>1 DEF DecodeWebApp, InitUnmarshaller
<1>8. IF PathsKept(d.paths) THEN paths = Ok(canon) ELSE paths.is = "ok" => paths.val # canon
  BY <1>1, <1>4, PathsRead
<1>9. IF d.extra = NoExtra THEN extra = Ok(NoExtra) ELSE extra.is = "ok" => extra.val # d.extra
  BY <1>3, <1>4, ExtraRead
<1>10. pages = d.errorPages
  BY <1>2, <1>4, PagesRead
<1>11. PICK all : all = <<paths, extra>>
  OBVIOUS
<1>12. DOMAIN all = 1 .. 2 /\ DOMAIN all \subseteq Nat /\ all[1] = paths /\ all[2] = extra
  BY <1>11
<1> HIDE DEF paths, extra, pages, canon
<1>13. PICK v : v = read(pages, paths.val, extra.val)
  OBVIOUS
<1>14. /\ v.paths = paths.val /\ v.extra = extra.val
       /\ CanonicalDoc(d).paths = canon /\ CanonicalDoc(d).extra = d.extra
  BY <1>5, <1>13
<1>15. /\ (\A i \in DOMAIN all : all[i].is = "ok") => DecodeWebApp(wire) = Ok(v)
       /\ DecodeWebApp(wire).is = "ok" =>
            DecodeWebApp(wire) = Ok(v) /\ \A i \in DOMAIN all : all[i].is = "ok"
  BY <1>7, <1>11, <1>12, <1>13, UnlessOk
<1>16. \A y : Ok(y).val = y /\ Ok(y).is = "ok"
  BY DEF Ok
<1>17. CASE Keeps(d)
  <2>1. paths = Ok(canon) /\ extra = Ok(NoExtra) /\ d.extra = NoExtra
    BY <1>6, <1>8, <1>9, <1>17
  <2>2. \A i \in DOMAIN all : all[i].is = "ok"
    BY <1>12, <1>16, <2>1
  <2>3. v = CanonicalDoc(d)
    BY <1>5, <1>10, <1>13, <1>16, <2>1
  <2> QED
    BY <1>15, <1>17, <2>2, <2>3 DEF wire
<1>18. CASE ~Keeps(d)
  <2>1. SUFFICES ASSUME DecodeWebApp(wire) = Ok(CanonicalDoc(d)) PROVE FALSE
    BY <1>18 DEF wire
  <2>2. Ok(v) = Ok(CanonicalDoc(d)) /\ \A i \in DOMAIN all : all[i].is = "ok"
    BY <1>15, <1>16, <2>1
  <2>3. v = CanonicalDoc(d)
    BY <1>16, <2>2
  <2>4. paths.is = "ok" /\ extra.is = "ok" /\ paths.val = canon /\ extra.val = d.extra
    BY <1>12, <1>14, <2>2, <2>3
  <2> QED
    BY <1>6, <1>8, <1>9, <1>18, <2>4
<1> QED
  BY <1>17, <1>18

-----------------------------------------------------------------------------
(* What is read has the types of a document *)

\* The value under a key.
LEMMA AtFound ==
    ASSUME NEW entries, IsSeq(entries), NEW key, NEW default, NEW T, default \in T,
           \A e \in ToSet(entries) : e.key = key => Value(e.item) \in T
    PROVE  At(entries, key, default) \in T
<1>1. CASE \E e \in ToSet(entries) : e.key = key
  <2>1. PICK e \in ToSet(entries) : e.key = key /\ ItemAt(entries, key) = e.item
    BY <1>1, ItemFound
  <2> QED
    BY <1>1, <2>1 DEF At
<1>2. CASE ~ \E e \in ToSet(entries) : e.key = key
  BY <1>2 DEF At
<1> QED
  BY <1>1, <1>2

\* A reference to a directory that was read is one.
LEMMA DirectoryReferenceTyped ==
    ASSUME NEW item, IsList(item), \A e \in ToSet(Value(item)) : Decoded(e.item),
           DecodeDirectoryReference(item).is = "ok"
    PROVE  DecodeDirectoryReference(item).val \in DirectoryReference
<1> DEFINE entries == Value(item)
           want == <<"string", "uint64", "bytes", "bytes", "*Base64UrlBinary", "map">>
           Key == {None} \cup Seq(Byte)
           has6 == \E e \in ToSet(entries) : e.key = 6
           v == [created |-> At(entries, 2, "int8"), publicKey |-> At(entries, 3, None),
                 writeKey |-> At(entries, 4, None), encryptionKey |-> None,
                 ext |-> has6, local |-> FALSE]
<1>1. IsSeq(entries)
  BY DEF IsList, IsSeq
<1>2. CASE \E e \in ToSet(entries) : e.key \in DOMAIN want /\ TypeIn(e.item) # want[e.key]
  <2>1. DecodeDirectoryReference(item) = Panic
    BY <1>2 DEF DecodeDirectoryReference
  <2> QED
    BY <2>1 DEF Panic
<1>3. CASE ~ \E e \in ToSet(entries) : e.key \in DOMAIN want /\ TypeIn(e.item) # want[e.key]
  <2>1. DecodeDirectoryReference(item) = Ok(v)
    BY <1>3, Zenon DEF DecodeDirectoryReference
  <2>2. DOMAIN want = {1, 2, 3, 4, 5, 6} /\ want[2] = "uint64" /\ want[3] = "bytes" /\ want[4] = "bytes"
    OBVIOUS
  <2> HIDE DEF entries, want
  <2>3. /\ \A e \in ToSet(entries) : e.key = 2 => TypeIn(e.item) = "uint64"
        /\ \A e \in ToSet(entries) : e.key = 3 => TypeIn(e.item) = "bytes"
        /\ \A e \in ToSet(entries) : e.key = 4 => TypeIn(e.item) = "bytes"
    BY <1>3, <2>2
  <2>4. \A e \in ToSet(entries) : Decoded(e.item)
    BY DEF entries
  <2>5. At(entries, 2, "int8") \in Num
    <3>1. \A e \in ToSet(entries) : e.key = 2 => Value(e.item) \in Num
      BY <2>3, <2>4 DEF Decoded, Num
    <3>2. "int8" \in Num
      BY DEF Num
    <3> QED
      BY <1>1, <3>1, <3>2, AtFound
  <2>6. /\ \A e \in ToSet(entries) : e.key = 3 => Value(e.item) \in Key
        /\ \A e \in ToSet(entries) : e.key = 4 => Value(e.item) \in Key
        /\ None \in Key
    BY <2>3, <2>4 DEF Decoded
  <2> HIDE DEF Key
  <2>7. At(entries, 3, None) \in Key /\ At(entries, 4, None) \in Key
    BY <1>1, <2>6, AtFound
  <2>8. has6 \in BOOLEAN
    BY Zenon
  <2>9. v \in DirectoryReference
    <3> HIDE DEF has6
    <3>1. PICK a, b, c, h : /\ a = At(entries, 2, "int8") /\ b = At(entries, 3, None)
                            /\ c = At(entries, 4, None) /\ h = has6
      OBVIOUS
    <3>2. a \in Num /\ b \in Key /\ c \in Key /\ h \in BOOLEAN /\ None \in Key
      BY <2>5, <2>6, <2>7, <2>8, <3>1
    <3>3. [created |-> a, publicKey |-> b, writeKey |-> c, encryptionKey |-> None,
           ext |-> h, local |-> FALSE] \in DirectoryReference
      BY <3>2 DEF DirectoryReference, Key
    <3> QED
      BY <3>1, <3>3
  <2> HIDE DEF v
  <2>10. DecodeDirectoryReference(item).val = v
    BY <2>1 DEF Ok
  <2> QED
    BY <2>9, <2>10
<1> QED
  BY <1>2, <1>3

\* A CID or an encrypted CID that was read.
LEMMA CidTyped ==
    ASSUME NEW item, IsBytes(item), item # Nil
    PROVE  /\ initCID(Value(item)).is = "ok" => initCID(Value(item)).val \in CIDValues
           /\ EncryptedCIDFromBytes(Value(item)).is = "ok" =>
                EncryptedCIDFromBytes(Value(item)).val \in EncryptedValues
<1>1. PICK bytes \in Seq(Byte) : bytes = Value(item)
  BY DEF IsBytes, Decoded
<1>2. \A x : Ok(x).val = x
  BY DEF Ok
<1>3. Error.is # "ok" /\ Overrun.is # "ok" /\ Panic.is # "ok"
  BY DEF Error, Overrun, Panic
<1>4. initCID(bytes) = Error \/ initCID(bytes) = Overrun \/ \E c \in CIDValues : initCID(bytes) = Ok(c)
  BY ReadAny
<1>5. PICK o : o = EncryptedCIDFromBytes(bytes)
  OBVIOUS
<1>6. o = Error \/ o = Panic \/ o.is # "ok" \/ \E e \in EncryptedValues : o = Ok(e)
  BY <1>5, ReadAnyEncrypted
<1>7. o.is = "ok" => o.val \in EncryptedValues
  BY <1>2, <1>3, <1>6
<1>8. initCID(bytes).is = "ok" => initCID(bytes).val \in CIDValues
  BY <1>2, <1>3, <1>4
<1> QED
  BY <1>1, <1>5, <1>7, <1>8

\* A thumbnail that was read is none or an encrypted CID.
LEMMA ThumbnailTyped ==
    ASSUME NEW item, IsList(item), \A t \in ToSet(Value(item)) : t.key = 3 => IsBytes(t.item),
           DecodeFileVersionThumbnail(item).is = "ok"
    PROVE  DecodeFileVersionThumbnail(item).val \in [cid : {None} \cup EncryptedValues]
<1>1. PICK bytes : bytes = ItemAt(Value(item), 3)
  OBVIOUS
<1>2. bytes = Nil \/ IsBytes(bytes)
  <2>1. PICK entries : entries = Value(item) /\ IsSeq(entries)
    BY DEF IsList, IsSeq
  <2>2. bytes = Nil \/ \E e \in ToSet(entries) : e.key = 3 /\ bytes = e.item
    BY <1>1, <2>1, ItemFound
  <2> QED
    BY <2>1, <2>2
<1>3. CASE \A e \in ToSet(Value(item)) : e.key # 3
  <2>1. DecodeFileVersionThumbnail(item) = Ok([cid |-> None])
    BY <1>3 DEF DecodeFileVersionThumbnail
  <2> QED
    BY <2>1 DEF Ok
<1>4. CASE ~ \A e \in ToSet(Value(item)) : e.key # 3
  <2>1. PICK cid : cid = IF bytes = Nil THEN Panic ELSE EncryptedCIDFromBytes(Value(bytes))
    OBVIOUS
  <2>2. DecodeFileVersionThumbnail(item) = IF cid.is = "ok" THEN Ok([cid |-> cid.val]) ELSE cid
    BY <1>1, <1>4, <2>1 DEF DecodeFileVersionThumbnail
  <2>3. cid.is = "ok"
    BY <2>2
  <2>4. bytes # Nil /\ cid = EncryptedCIDFromBytes(Value(bytes))
    BY <2>1, <2>3 DEF Panic
  <2>5. cid.val \in EncryptedValues
    BY <1>2, <2>3, <2>4, CidTyped
  <2>6. DecodeFileVersionThumbnail(item).val = [cid |-> cid.val]
    BY <2>2, <2>3 DEF Ok
  <2> QED
    BY <2>5, <2>6
<1> QED
  BY <1>3, <1>4

-----------------------------------------------------------------------------
\* A version of a file that was read is one.
LEMMA FileVersionTyped ==
    ASSUME NEW item, IsList(item), VersionItems(Value(item)), DecodeFileVersion(item).is = "ok"
    PROVE  DecodeFileVersion(item).val \in FileVersion
<1> DEFINE entries == Value(item)
           Under(key) == ItemAt(entries, key)
           Part(key, decoded) == IF Under(key) = Nil THEN Ok(None) ELSE decoded
           encrypted == Part(1, EncryptedCIDFromBytes(Value(Under(1))))
           plaintext == Part(2, initCID(Value(Under(2))))
           hashes    == Part(9, IF \A i \in DOMAIN Value(Under(9)) : TypeIn(Value(Under(9))[i]) = "bytes"
                                THEN Ok(None) ELSE Panic)
           thumbnail == Part(10, DecodeFileVersionThumbnail(Under(10)))
           parts     == <<encrypted, plaintext, hashes, thumbnail>>
           has9      == Under(9) # Nil
           v == [ts |-> At(entries, 8, "int8"), encrypted |-> encrypted.val,
                 plaintext |-> plaintext.val, hashes |-> has9, thumbnail |-> thumbnail.val,
                 local |-> FALSE]
<1>1. IsSeq(entries)
  BY DEF IsList, IsSeq
<1>2. DecodeFileVersion(item) = Unless(parts, v)
  BY DEF DecodeFileVersion
<1>3. /\ DOMAIN parts = 1 .. 4 /\ DOMAIN parts \subseteq Nat
      /\ parts[1] = encrypted /\ parts[2] = plaintext /\ parts[4] = thumbnail
  OBVIOUS
<1>4. \A e \in ToSet(entries) :
        /\ e.key = 8 => IsNumber(e.item)
        /\ e.key = 1 => IsBytes(e.item)
        /\ e.key = 2 => IsBytes(e.item)
        /\ e.key = 10 =>
             \/ e.item = Nil
             \/ IsList(e.item) /\ \A t \in ToSet(Value(e.item)) : t.key = 3 => IsBytes(t.item)
  BY DEF VersionItems
<1>5. has9 \in BOOLEAN
  BY Zenon
<1> HIDE DEF parts, v, entries
<1>6. /\ DecodeFileVersion(item) = Ok(v)
      /\ encrypted.is = "ok" /\ plaintext.is = "ok" /\ thumbnail.is = "ok"
  BY <1>2, <1>3, UnlessOk
<1>7. Ok(None).val = None
  BY DEF Ok
<1>8. encrypted.val \in {None} \cup EncryptedValues
  <2>1. CASE Under(1) = Nil
    BY <1>7, <2>1
  <2>2. CASE Under(1) # Nil
    <3>1. PICK x : x = Under(1)
      OBVIOUS
    <3>2. IsBytes(x)
      BY <1>1, <1>4, <2>2, <3>1, ItemFound
    <3>3. encrypted = EncryptedCIDFromBytes(Value(x))
      BY <2>2, <3>1
    <3> QED
      BY <1>6, <2>2, <3>1, <3>2, <3>3, CidTyped
  <2> QED
    BY <2>1, <2>2
<1>9. plaintext.val \in {None} \cup CIDValues
  <2>1. CASE Under(2) = Nil
    BY <1>7, <2>1
  <2>2. CASE Under(2) # Nil
    <3>1. PICK x : x = Under(2)
      OBVIOUS
    <3>2. IsBytes(x)
      BY <1>1, <1>4, <2>2, <3>1, ItemFound
    <3>3. plaintext = initCID(Value(x))
      BY <2>2, <3>1
    <3> QED
      BY <1>6, <2>2, <3>1, <3>2, <3>3, CidTyped
  <2> QED
    BY <2>1, <2>2
<1>10. thumbnail.val \in {None} \cup [cid : {None} \cup EncryptedValues]
  <2>1. CASE Under(10) = Nil
    BY <1>7, <2>1
  <2>2. CASE Under(10) # Nil
    <3>1. PICK x : x = Under(10)
      OBVIOUS
    <3>2. IsList(x) /\ \A t \in ToSet(Value(x)) : t.key = 3 => IsBytes(t.item)
      <4>1. PICK e \in ToSet(entries) : e.key = 10 /\ x = e.item
        BY <1>1, <2>2, <3>1, ItemFound
      <4> QED
        BY <1>4, <2>2, <3>1, <4>1
    <3>3. thumbnail = DecodeFileVersionThumbnail(x)
      BY <2>2, <3>1
    <3> QED
      BY <1>6, <3>2, <3>3, ThumbnailTyped
  <2> QED
    BY <2>1, <2>2
<1>11. At(entries, 8, "int8") \in Num
  <2>1. \A e \in ToSet(entries) : e.key = 8 => Value(e.item) \in Num
    BY <1>4 DEF IsNumber, Decoded
  <2>2. "int8" \in Num
    BY DEF Num
  <2> QED
    BY <1>1, <2>1, <2>2, AtFound
<1>12. v \in FileVersion
  <2> HIDE DEF encrypted, plaintext, thumbnail, has9
  <2>1. PICK a, b, c, h, t : /\ a = At(entries, 8, "int8") /\ b = encrypted.val /\ c = plaintext.val
                             /\ h = has9 /\ t = thumbnail.val
    OBVIOUS
  <2>2. [ts |-> a, encrypted |-> b, plaintext |-> c, hashes |-> h, thumbnail |-> t,
         local |-> FALSE] \in FileVersion
    BY <1>5, <1>8, <1>9, <1>10, <1>11, <2>1 DEF FileVersion
  <2> QED
    BY <2>1, <2>2 DEF v
<1>13. DecodeFileVersion(item).val = v
  BY <1>6 DEF Ok
<1> QED
  BY <1>12, <1>13

\* A reference to a file that was read is one.
LEMMA FileReferenceTyped ==
    ASSUME NEW item, IsList(item), FileItems(Value(item)), DecodeFileReference(item).is = "ok"
    PROVE  DecodeFileReference(item).val \in FileReference
<1> DEFINE entries == Value(item)
           version == ItemAt(entries, 4)
           file    == IF version = Nil THEN Ok(None) ELSE DecodeFileVersion(version)
           Empty(key) == IF At(entries, key, <<>>) = <<>> THEN Ok(None) ELSE Error
           parts   == <<file, Empty(7), Empty(8)>>
           v == [created |-> At(entries, 2, "int8"), version |-> At(entries, 5, "int8"),
                 file |-> file.val, ext |-> "empty", history |-> "empty", local |-> FALSE]
<1>1. IsSeq(entries)
  BY DEF IsList, IsSeq
<1>2. DecodeFileReference(item) = Unless(parts, v)
  BY DEF DecodeFileReference
<1>3. DOMAIN parts = 1 .. 3 /\ DOMAIN parts \subseteq Nat /\ parts[1] = file
  OBVIOUS
<1>4. \A e \in ToSet(entries) :
        /\ e.key = 2 => IsNumber(e.item)
        /\ e.key = 5 => IsNumber(e.item)
        /\ e.key = 4 => e.item = Nil \/ (IsList(e.item) /\ VersionItems(Value(e.item)))
  BY DEF FileItems
<1> HIDE DEF parts, v, entries
<1>5. DecodeFileReference(item) = Ok(v) /\ file.is = "ok"
  BY <1>2, <1>3, UnlessOk
<1>6. file.val \in {None} \cup FileVersion
  <2>1. CASE version = Nil
    BY <2>1 DEF Ok
  <2>2. CASE version # Nil
    <3>1. PICK x : x = version
      OBVIOUS
    <3>2. IsList(x) /\ VersionItems(Value(x))
      <4>1. PICK e \in ToSet(entries) : e.key = 4 /\ x = e.item
        BY <1>1, <2>2, <3>1, ItemFound
      <4> QED
        BY <1>4, <2>2, <3>1, <4>1
    <3>3. file = DecodeFileVersion(x)
      BY <2>2, <3>1
    <3> QED
      BY <1>5, <3>2, <3>3, FileVersionTyped
  <2> QED
    BY <2>1, <2>2
<1>7. At(entries, 2, "int8") \in Num /\ At(entries, 5, "int8") \in Num
  <2>1. /\ \A e \in ToSet(entries) : e.key = 2 => Value(e.item) \in Num
        /\ \A e \in ToSet(entries) : e.key = 5 => Value(e.item) \in Num
    BY <1>4 DEF IsNumber, Decoded
  <2>2. "int8" \in Num
    BY DEF Num
  <2> QED
    BY <1>1, <2>1, <2>2, AtFound
<1>8. v \in FileReference
  <2> HIDE DEF file
  <2>1. PICK a, b, c : a = At(entries, 2, "int8") /\ b = At(entries, 5, "int8") /\ c = file.val
    OBVIOUS
  <2>2. [created |-> a, version |-> b, file |-> c, ext |-> "empty", history |-> "empty",
         local |-> FALSE] \in FileReference
    BY <1>6, <1>7, <2>1 DEF FileReference
  <2> QED
    BY <2>1, <2>2 DEF v
<1>9. DecodeFileReference(item).val = v
  BY <1>5 DEF Ok
<1> QED
  BY <1>8, <1>9

\* The item of a reference that can be decoded.
RefItem(type, item) ==
  /\ IsList(item)
  /\ IF type = "*FileReference" THEN FileItems(Value(item))
     ELSE \A f \in ToSet(Value(item)) : Decoded(f.item)

\* A map of references that was read is one, and has no key twice.
LEMMA ReferencesTyped ==
    ASSUME NEW type \in PointerTypes, NEW item, IsList(item),
           \A e \in ToSet(Value(item)) : e.key \in Names /\ RefItem(type, e.item),
           unmarshalMapMsgpack(item, type).is = "ok"
    PROVE  /\ unmarshalMapMsgpack(item, type).val \in References(RefType(type))
           /\ NoKeyTwice(unmarshalMapMsgpack(item, type).val)
<1> DEFINE entries == Value(item)
           decoded == [i \in DOMAIN entries |-> DecodeRef(type, entries[i].item)]
           refs    == [i \in DOMAIN entries |->
                         [key |-> entries[i].key, ref |-> decoded[i].val, pointer |-> TRUE]]
           Ref     == [key : Names, ref : RefType(type), pointer : BOOLEAN]
<1>1. unmarshalMapMsgpack(item, type) = Unless(decoded, PutAll(refs))
  BY DEF unmarshalMapMsgpack, DecodeRef
<1>2. IsSeq(entries)
  BY DEF IsList, IsSeq
<1>3. DOMAIN entries = 1 .. Len(entries) /\ Len(entries) \in Nat
  BY <1>2 DEF IsSeq
<1>4. DOMAIN decoded = DOMAIN entries /\ DOMAIN refs = DOMAIN entries /\ DOMAIN decoded \subseteq Nat
  BY <1>3
<1>5. \A i \in DOMAIN entries : entries[i].key \in Names /\ RefItem(type, entries[i].item)
  BY DEF ToSet
<1>6. \A i \in DOMAIN entries :
        /\ decoded[i] = DecodeRef(type, entries[i].item)
        /\ refs[i] = [key |-> entries[i].key, ref |-> decoded[i].val, pointer |-> TRUE]
  OBVIOUS
<1>7. refs = [i \in 1 .. Len(entries) |-> refs[i]]
  BY <1>3
<1> HIDE DEF entries, decoded, refs
<1>8. /\ unmarshalMapMsgpack(item, type) = Ok(PutAll(refs))
      /\ \A i \in DOMAIN entries : decoded[i].is = "ok"
  BY <1>1, <1>4, UnlessOk
<1>9. ASSUME NEW i \in DOMAIN entries PROVE refs[i] \in Ref
  <2>1. PICK x : x = entries[i].item
    OBVIOUS
  <2>2. RefItem(type, x) /\ DecodeRef(type, x).is = "ok"
    BY <1>5, <1>6, <1>8, <2>1
  <2>3. DecodeRef(type, x).val \in RefType(type)
    <3>1. CASE type = "*FileReference"
      BY <2>2, <3>1, FileReferenceTyped DEF RefItem, DecodeRef, RefType
    <3>2. CASE type # "*FileReference"
      BY <2>2, <3>2, DirectoryReferenceTyped DEF RefItem, DecodeRef, RefType
    <3> QED
      BY <3>1, <3>2
  <2>4. PICK k, r : k = entries[i].key /\ r = decoded[i].val /\ k \in Names /\ r \in RefType(type)
    BY <1>5, <1>6, <2>1, <2>3
  <2>5. refs[i] = [key |-> k, ref |-> r, pointer |-> TRUE]
    BY <1>6, <2>4
  <2>6. [key |-> k, ref |-> r, pointer |-> TRUE] \in Ref
    BY <2>4
  <2> QED
    BY <2>5, <2>6, Zenon
<1> HIDE DEF Ref
<1>10. refs \in Seq(Ref)
  BY <1>3, <1>7, <1>9
<1>11. PutAll(refs) \in Seq(Ref) /\ Distinct(PutAll(refs))
  BY <1>10, AllPut
<1>12. unmarshalMapMsgpack(item, type).val = PutAll(refs)
  BY <1>8 DEF Ok
<1>13. PutAll(refs) \in References(RefType(type))
  BY <1>11 DEF References, Ref
<1>14. NoKeyTwice(PutAll(refs))
  BY <1>11 DEF NoKeyTwice, Distinct
<1> QED
  BY <1>12, <1>13, <1>14

-----------------------------------------------------------------------------
\* Extra metadata that was read is some.
LEMMA KindsTyped ==
    ASSUME NEW item, ExtraItems(item), decodeIntMap(item).is = "ok"
    PROVE  KindsOf(decodeIntMap(item).val) \in Extra
<1> DEFINE entries == Value(item)
           keys == {e.key[2] : e \in ToSet(entries)}
           read == [k \in keys |-> entries[Max({i \in DOMAIN entries : entries[i].key[2] = k})].item]
<1>1. decodeIntMap(item) = Ok(read)
  BY DEF decodeIntMap, Error
<1>2. keys \in SUBSET Extensions
  BY DEF ExtraItems
<1>3. DOMAIN read = keys
  OBVIOUS
<1> HIDE DEF keys, read
<1>4. decodeIntMap(item).val = read
  BY <1>1 DEF Ok
<1>5. KindsOf(read) \in [keys -> {"text", "bytes", "cid"}]
  BY <1>3 DEF KindsOf
<1> QED
  BY <1>2, <1>4, <1>5 DEF Extra

\* A directory read from any readable bytes is one.
LEMMA DirectoryTyped ==
    ASSUME NEW wire, Readable(wire), DecodeDirectory(wire).is = "ok"
    PROVE  LET d == DecodeDirectory(wire).val
           IN  d \in Directory /\ NoKeyTwice(d.directories) /\ NoKeyTwice(d.files)
<1> DEFINE dirType == "*DirectoryReference"
           fileType == "*FileReference"
           items == wire.items
           details     == DecodeDetails(items[1])
           directories == unmarshalMapMsgpack(items[2], dirType)
           files       == unmarshalMapMsgpack(items[3], fileType)
           extra       == decodeIntMap(items[4])
           d == [kind |-> "directory", details |-> details.val, directories |-> directories.val,
                 files |-> files.val, extra |-> KindsOf(extra.val)]
<1>1. wire.kind = "directory" /\ Len(items) = 4
  BY DEF DecodeDirectory, InitUnmarshaller, Error
<1>2. DecodeDirectory(wire) = Unless(<<details, directories, files, extra>>, d)
  BY <1>1 DEF DecodeDirectory, InitUnmarshaller
<1>3. DirectoryItems(items)
  BY <1>1 DEF Readable
<1>4. PICK all : all = <<details, directories, files, extra>>
  OBVIOUS
<1>5. /\ DOMAIN all = 1 .. 4 /\ DOMAIN all \subseteq Nat
      /\ all[1] = details /\ all[2] = directories /\ all[3] = files /\ all[4] = extra
  BY <1>4
<1>6. details.is = "ok" => details.val = None
  BY DEF DecodeDetails, Ok, Panic, Error
<1> HIDE DEF items
<1>7. /\ IsList(items[2]) /\ IsList(items[3]) /\ ExtraItems(items[4])
      /\ \A e \in ToSet(Value(items[2])) : e.key \in Names /\ RefItem(dirType, e.item)
      /\ \A e \in ToSet(Value(items[3])) : e.key \in Names /\ RefItem(fileType, e.item)
  BY <1>3 DEF DirectoryItems, RefItem
<1>8. directories.is = "ok" =>
        directories.val \in References(DirectoryReference) /\ NoKeyTwice(directories.val)
  BY <1>7, ReferencesTyped DEF PointerTypes, RefType
<1>9. files.is = "ok" => files.val \in References(FileReference) /\ NoKeyTwice(files.val)
  BY <1>7, ReferencesTyped DEF PointerTypes, RefType
<1>10. extra.is = "ok" => KindsOf(extra.val) \in Extra
  BY <1>7, KindsTyped
<1> HIDE DEF details, directories, files, extra, d
<1>11. DecodeDirectory(wire) = Ok(d) /\ \A i \in DOMAIN all : all[i].is = "ok"
  BY <1>2, <1>4, <1>5, UnlessOk
<1>12. details.is = "ok" /\ directories.is = "ok" /\ files.is = "ok" /\ extra.is = "ok"
  BY <1>5, <1>11
<1>13. DecodeDirectory(wire).val = d
  BY <1>11 DEF Ok
<1>14. d.directories = directories.val /\ d.files = files.val
  BY DEF d
<1>15. d \in Directory
  <2>1. PICK a, b, c, e : a = details.val /\ b = directories.val /\ c = files.val /\ e = KindsOf(extra.val)
    OBVIOUS
  <2>2. [kind |-> "directory", details |-> a, directories |-> b, files |-> c, extra |-> e] \in Directory
    BY <1>6, <1>8, <1>9, <1>10, <1>12, <2>1 DEF Directory
  <2> QED
    BY <2>1, <2>2 DEF d
<1> QED
  BY <1>8, <1>9, <1>12, <1>13, <1>14, <1>15

\* A row of the paths that was read has a CID.
LEMMA PathTyped ==
    ASSUME NEW row, IsSeq(row), \A x \in ToSet(row) : Decoded(x), DecodePath(row).is = "ok"
    PROVE  DecodePath(row).val \in CIDValues
<1> DEFINE want == <<"string", "bytes", "string">>
           bad == {i \in DOMAIN want : i > Len(row) \/ (i <= Len(row) /\ TypeIn(row[i]) # want[i])}
<1>1. DecodePath(row) = IF bad = {} THEN initCID(Value(row[2]))
                        ELSE IF Min(bad) > Len(row) THEN Panic ELSE Error
  BY DEF DecodePath
<1>2. 2 \in DOMAIN want /\ want[2] = "bytes"
  OBVIOUS
<1>3. DOMAIN row = 1 .. Len(row) /\ Len(row) \in Nat
  BY DEF IsSeq
<1> HIDE DEF want
<1>4. bad = {}
  <2> HIDE DEF bad
  <2> QED
    BY <1>1 DEF Panic, Error
<1>5. 2 <= Len(row) /\ TypeIn(row[2]) = "bytes"
  BY <1>2, <1>3, <1>4
<1>6. row[2] \in ToSet(row)
  BY <1>3, <1>5 DEF ToSet
<1>7. PICK item : item = row[2]
  OBVIOUS
<1>8. IsBytes(item) /\ item # Nil
  BY <1>5, <1>6, <1>7 DEF IsBytes, Nil, Item, TypeIn
<1> QED
  BY <1>1, <1>4, <1>7, <1>8, CidTyped

\* Paths that were read are a linked map without a key twice.
LEMMA PathsTyped ==
    ASSUME NEW item,
           \/ item = Nil
           \/ /\ IsList(item)
              /\ \A row \in ToSet(Value(item)) : IsList(row) /\ \A x \in ToSet(Value(row)) : Decoded(x),
           DecodePaths(item).is = "ok"
    PROVE  /\ DecodePaths(item).val \in {None} \cup Seq(PathEntry)
           /\ NoKeyTwice(DecodePaths(item).val)
<1> DEFINE table == Value(item)
           cids == [i \in DOMAIN table |-> DecodePath(Value(table[i]))]
           rows == [i \in DOMAIN cids |-> [key |-> Value(Value(table[i])[1]), cid |-> cids[i].val]]
           K == {Value(Value(table[i])[1]) : i \in DOMAIN table}
<1>1. CASE item = Nil
  <2>1. DecodePaths(item) = Ok(None)
    BY <1>1 DEF DecodePaths
  <2> QED
    BY <2>1 DEF Ok, NoKeyTwice
<1>2. CASE item # Nil
  <2>1. DecodePaths(item) = Unless(cids, Sort(PutAll(rows)))
    BY <1>2 DEF DecodePaths
  <2>2. IsSeq(table) /\ DOMAIN table = 1 .. Len(table) /\ Len(table) \in Nat
    BY <1>2 DEF IsList, IsSeq
  <2>3. \A i \in DOMAIN table : IsList(table[i]) /\ \A x \in ToSet(Value(table[i])) : Decoded(x)
    BY <1>2 DEF ToSet
  <2>4. DOMAIN cids = DOMAIN table /\ DOMAIN rows = DOMAIN table /\ DOMAIN cids \subseteq Nat
    BY <2>2
  <2>5. \A i \in DOMAIN table :
          /\ cids[i] = DecodePath(Value(table[i]))
          /\ rows[i] = [key |-> Value(Value(table[i])[1]), cid |-> cids[i].val]
    OBVIOUS
  <2>6. rows = [i \in 1 .. Len(table) |-> rows[i]]
    BY <2>2, <2>4
  <2> HIDE DEF table, cids, rows
  <2>7. DecodePaths(item) = Ok(Sort(PutAll(rows))) /\ \A i \in DOMAIN table : cids[i].is = "ok"
    BY <2>1, <2>4, UnlessOk
  <2>8. ASSUME NEW i \in DOMAIN table PROVE rows[i] \in [key : K, cid : CIDValues]
    <3>1. PICK row : row = Value(table[i])
      OBVIOUS
    <3>2. IsSeq(row) /\ \A x \in ToSet(row) : Decoded(x)
      BY <2>3, <3>1 DEF IsList, IsSeq
    <3>3. DecodePath(row).is = "ok"
      BY <2>5, <2>7, <3>1
    <3>4. DecodePath(row).val \in CIDValues
      BY <3>2, <3>3, PathTyped
    <3>5. PICK k, c : k = Value(row[1]) /\ c = cids[i].val /\ c \in CIDValues /\ k \in K
      BY <2>5, <3>1, <3>4
    <3>6. rows[i] = [key |-> k, cid |-> c]
      BY <2>5, <3>1, <3>5
    <3> HIDE DEF K
    <3> QED
      BY <3>5, <3>6
  <2> HIDE DEF K
  <2>9. PICK T : T = [key : K, cid : CIDValues]
    OBVIOUS
  <2>10. rows \in Seq(T)
    BY <2>2, <2>6, <2>8, <2>9
  <2>11. PutAll(rows) \in Seq(T)
    BY <2>10, AllPut
  <2>12. Sort(PutAll(rows)) \in Seq(PathEntry) /\ Distinct(Sort(PutAll(rows)))
    BY <2>9, <2>11, Sorted
  <2>13. DecodePaths(item).val = Sort(PutAll(rows))
    BY <2>7 DEF Ok
  <2> QED
    BY <2>12, <2>13 DEF NoKeyTwice, Distinct
<1> QED
  BY <1>1, <1>2

\* A web app read from any readable bytes is one.
LEMMA WebAppTyped ==
    ASSUME NEW wire, Readable(wire), DecodeWebApp(wire).is = "ok"
    PROVE  DecodeWebApp(wire).val \in WebApp /\ NoKeyTwice(DecodeWebApp(wire).val.paths)
<1> DEFINE items == wire.items
           paths == DecodePaths(items[4])
           extra == DecodeExtra(items[5])
           pages == {e.key : e \in ToSet(Value(items[3]))}
           d == [kind |-> "webapp", errorPages |-> pages, paths |-> paths.val, extra |-> extra.val]
<1>1. wire.kind = "webapp" /\ Len(items) = 5
  BY DEF DecodeWebApp, InitUnmarshaller, Error
<1>2. DecodeWebApp(wire) = Unless(<<paths, extra>>, d)
  BY <1>1 DEF DecodeWebApp, InitUnmarshaller
<1>3. WebAppItems(items)
  BY <1>1 DEF Readable
<1>4. PICK all : all = <<paths, extra>>
  OBVIOUS
<1>5. DOMAIN all = 1 .. 2 /\ DOMAIN all \subseteq Nat /\ all[1] = paths /\ all[2] = extra
  BY <1>4
<1> HIDE DEF items
<1>6. pages \in SUBSET ErrorCodes
  BY <1>3 DEF WebAppItems
<1>7. paths.is = "ok" => paths.val \in {None} \cup Seq(PathEntry) /\ NoKeyTwice(paths.val)
  BY <1>3, PathsTyped DEF WebAppItems
<1>8. extra.is = "ok" => extra.val \in Extra
  <2>1. PICK item : item = items[5] /\ ExtraItems(item)
    BY <1>3 DEF WebAppItems
  <2> DEFINE entries == Value(item)
             Outcome(e) == CASE e.key[1] = "name" -> Error
                             [] e.key = <<"number", "updateCID">> -> initCID(Value(e.item))
                             [] OTHER -> Ok(None)
             outcomes == [i \in DOMAIN entries |-> Outcome(entries[i])]
             keys == {e.key[2] : e \in ToSet(entries)}
             value == [x \in keys |-> IF x = "updateCID" THEN "cid" ELSE "text"]
  <2>2. DecodeExtra(item) = Unless(outcomes, value)
    BY DEF DecodeExtra
  <2>3. keys \in SUBSET Extensions /\ IsSeq(entries)
    BY <2>1 DEF ExtraItems, IsList, IsSeq
  <2>4. DOMAIN outcomes \subseteq Nat
    BY <2>3 DEF IsSeq
  <2>5. value \in [keys -> {"text", "bytes", "cid"}]
    OBVIOUS
  <2> HIDE DEF keys, value, outcomes
  <2>6. DecodeExtra(item).is = "ok" => DecodeExtra(item) = Ok(value)
    BY <2>2, <2>4, UnlessOk
  <2>7. Ok(value).val = value
    BY DEF Ok
  <2> QED
    BY <2>1, <2>3, <2>5, <2>6, <2>7 DEF Extra
<1> HIDE DEF paths, extra, pages, d
<1>9. DecodeWebApp(wire) = Ok(d) /\ \A i \in DOMAIN all : all[i].is = "ok"
  BY <1>2, <1>4, <1>5, UnlessOk
<1>10. paths.is = "ok" /\ extra.is = "ok"
  BY <1>5, <1>9
<1>11. DecodeWebApp(wire).val = d
  BY <1>9 DEF Ok
<1>12. d.paths = paths.val
  BY DEF d
<1>13. d \in WebApp
  <2>1. PICK a, b, c : a = pages /\ b = paths.val /\ c = extra.val
    OBVIOUS
  <2>2. [kind |-> "webapp", errorPages |-> a, paths |-> b, extra |-> c] \in WebApp
    BY <1>6, <1>7, <1>8, <1>10, <2>1 DEF WebApp
  <2> QED
    BY <2>1, <2>2 DEF d
<1> QED
  BY <1>7, <1>10, <1>11, <1>12, <1>13

-----------------------------------------------------------------------------
(* What is written can be read *)

\* Items that the encoders make are of the types that the decoders expect.
LEMMA ItemKinds ==
    /\ \A s : Decoded(Str(s)) /\ TypeIn(Str(s)) = "string"
    /\ \A b \in Seq(Byte) : Decoded(Bin(b)) /\ IsBytes(Bin(b))
    /\ \A n \in Num : IsNumber(Number(n)) /\ Decoded(Number(n))
    /\ Decoded(Nil)
<1>1. \A s : Value(Str(s)) = s /\ TypeIn(Str(s)) = "string"
  BY DEF Value, TypeIn, Str, Item
<1>2. \A b : Value(Bin(b)) = b /\ TypeIn(Bin(b)) = "bytes"
  BY DEF Value, TypeIn, Bin, Item
<1>3. \A n : Value(Number(n)) = n /\ TypeIn(Number(n)) = n
  BY DEF Value, TypeIn, Number, Item
<1>4. TypeIn(Nil) = "nil"
  BY DEF TypeIn, Nil, Item
<1>5. "string" \notin Num /\ "bytes" \notin Num /\ "nil" \notin Num
  BY DEF Num
<1> QED
  BY <1>1, <1>2, <1>3, <1>4, <1>5 DEF Decoded, IsBytes, IsNumber

\* A reference to a directory is written as something that can be read.
LEMMA DirectoryReferenceReadable ==
    ASSUME NEW r \in DirectoryReference, EncodeDirectoryReference(r).is = "ok"
    PROVE  RefItem("*DirectoryReference", EncodeDirectoryReference(r).val)
<1>1. PICK entries : /\ IsSeq(entries)
                     /\ EncodeDirectoryReference(r) = Ok(MapOf(entries))
                     /\ ToSet(entries) = DirectoryReferenceEntries(r)
  BY DirectoryReferenceWritten DEF Written
<1>2. Value(EncodeDirectoryReference(r).val) = entries
  BY <1>1 DEF Ok, MapOf, Item, Value
<1>3. r.created \in Num /\ r.publicKey \in {None} \cup Seq(Byte) /\ r.writeKey \in {None} \cup Seq(Byte)
  BY DEF DirectoryReference
<1>4. \A k \in {None} \cup Seq(Byte) : Decoded(KeyItem(k))
  BY ItemKinds DEF KeyItem
<1>5. \A k, i : Entry(k, i).item = i
  BY DEF Entry
<1>6. \A e \in ToSet(entries) : Decoded(e.item)
  BY <1>1, <1>3, <1>4, <1>5, ItemKinds DEF DirectoryReferenceEntries
<1> QED
  BY <1>1, <1>2, <1>6 DEF RefItem, IsList, IsSeq

\* The same for a version of a file.
LEMMA FileVersionReadable ==
    ASSUME NEW v \in FileVersion, EncodeFileVersion(v).is = "ok"
    PROVE  LET item == EncodeFileVersion(v).val IN IsList(item) /\ VersionItems(Value(item))
<1>1. PICK entries : /\ IsSeq(entries)
                     /\ EncodeFileVersion(v) = Ok(MapOf(entries))
                     /\ ToSet(entries) = VersionEntries(v)
  BY FileVersionWritten DEF Written
<1>2. Value(EncodeFileVersion(v).val) = entries
  BY <1>1 DEF Ok, MapOf, Item, Value
<1>3. \A k, i : Entry(k, i).item = i /\ Entry(k, i).key = k
  BY DEF Entry
<1>4. IsNumber(Number(v.ts))
  BY ItemKinds DEF FileVersion
<1>5. v.plaintext # None => IsBytes(Bin(ToBytes(v.plaintext)))
  <2>1. ASSUME v.plaintext # None PROVE ToBytes(v.plaintext) \in Seq(Byte)
    <3>1. v.plaintext \in CIDValues
      BY <2>1 DEF FileVersion
    <3> QED
      BY <3>1, ReadCID
  <2> QED
    BY <2>1, ItemKinds
<1>6. VersionItems(entries)
  <2>1. SUFFICES ASSUME NEW e \in ToSet(entries)
                 PROVE  /\ e.key = 8 => IsNumber(e.item)
                        /\ e.key \in {1, 2} => IsBytes(e.item)
                        /\ e.key # 10
    BY DEF VersionItems
  <2>2. \/ e = Entry(8, Number(v.ts))
        \/ v.plaintext # None /\ e = Entry(2, Bin(ToBytes(v.plaintext)))
    BY <1>1 DEF VersionEntries
  <2> QED
    BY <1>3, <1>4, <1>5, <2>2
<1> QED
  BY <1>1, <1>2, <1>6 DEF IsList, IsSeq

\* The same for a reference to a file.
LEMMA FileReferenceReadable ==
    ASSUME NEW f \in FileReference, EncodeFileReference(f).is = "ok"
    PROVE  RefItem("*FileReference", EncodeFileReference(f).val)
<1>1. PICK entries : /\ IsSeq(entries)
                     /\ EncodeFileReference(f) = Ok(MapOf(entries))
                     /\ ToSet(entries) = FileReferenceEntries(f)
  BY FileReferenceWritten DEF Written
<1>2. Value(EncodeFileReference(f).val) = entries
  BY <1>1 DEF Ok, MapOf, Item, Value
<1>3. \A k, i : Entry(k, i).item = i /\ Entry(k, i).key = k
  BY DEF Entry
<1>4. IsNumber(Number(f.created)) /\ IsNumber(Number(f.version))
  BY ItemKinds DEF FileReference
<1>5. VersionItem(f) = Nil \/ (IsList(VersionItem(f)) /\ VersionItems(Value(VersionItem(f))))
  <2>1. CASE f.file = None
    BY <2>1 DEF VersionItem
  <2>2. CASE f.file # None
    <3>1. PICK v \in FileVersion : v = f.file
      BY <2>2 DEF FileReference
    <3>2. EncodeFileVersion(v).is = "ok"
      BY <2>2, <3>1, FileReferenceWritten
    <3> QED
      BY <2>2, <3>1, <3>2, FileVersionReadable DEF VersionItem
  <2> QED
    BY <2>1, <2>2
<1>6. FileItems(entries)
  <2>1. SUFFICES ASSUME NEW e \in ToSet(entries)
                 PROVE  /\ e.key \in {2, 5} => IsNumber(e.item)
                        /\ e.key = 4 => e.item = Nil \/ (IsList(e.item) /\ VersionItems(Value(e.item)))
    BY DEF FileItems
  <2>2. \/ e = Entry(1, Str("text")) \/ e = Entry(2, Number(f.created))
        \/ e = Entry(4, VersionItem(f)) \/ e = Entry(5, Number(f.version))
    BY <1>1 DEF FileReferenceEntries
  <2> QED
    BY <1>3, <1>4, <1>5, <2>2
<1> QED
  BY <1>1, <1>2, <1>6 DEF RefItem, IsList, IsSeq

\* The same for a map of references.
LEMMA ReferencesReadable ==
    ASSUME NEW type \in PointerTypes, NEW refs \in References(RefType(type)),
           EncodeReferences(refs, type).is = "ok"
    PROVE  LET item == EncodeReferences(refs, type).val
           IN  /\ IsList(item)
               /\ \A e \in ToSet(Value(item)) : e.key \in Names /\ RefItem(type, e.item)
<1>1. /\ refs \in Refs(type)
      /\ \A i \in DOMAIN refs : EncodeRef(type, refs[i].ref).is = "ok"
      /\ EncodeReferences(refs, type) = Ok(MapOf(RefEntries(refs, type)))
      /\ IsSeq(RefEntries(refs, type))
  BY ReferencesWritten
<1>2. PICK entries : entries = RefEntries(refs, type)
  OBVIOUS
<1>3. Value(EncodeReferences(refs, type).val) = entries
  BY <1>1, <1>2 DEF Ok, MapOf, Item, Value
<1>4. \A i \in DOMAIN refs : refs[i] \in [key : Names, ref : RefType(type), pointer : BOOLEAN]
  <2>1. PICK S : S = [key : Names, ref : RefType(type), pointer : BOOLEAN]
    OBVIOUS
  <2>2. refs \in Seq(S)
    BY <1>1, <2>1 DEF Refs
  <2> QED
    BY <2>1, <2>2, Members
<1>5. ASSUME NEW e \in ToSet(entries) PROVE e.key \in Names /\ RefItem(type, e.item)
  <2>1. PICK i \in DOMAIN refs : e = Entry(refs[i].key, EncodeRef(type, refs[i].ref).val)
    BY <1>2 DEF RefEntries, ToSet
  <2>2. PICK r \in RefType(type) : r = refs[i].ref
    BY <1>4
  <2>3. e.key = refs[i].key /\ e.item = EncodeRef(type, r).val
    BY <2>1, <2>2 DEF Entry
  <2>4. EncodeRef(type, r).is = "ok"
    BY <1>1, <2>2
  <2>5. RefItem(type, EncodeRef(type, r).val)
    <3>1. CASE type = "*FileReference"
      BY <2>4, <3>1, FileReferenceReadable DEF EncodeRef, RefType
    <3>2. CASE type = "*DirectoryReference"
      BY <2>4, <3>2, DirectoryReferenceReadable DEF EncodeRef, RefType
    <3> QED
      BY <3>1, <3>2 DEF PointerTypes
  <2> QED
    BY <1>4, <2>3, <2>5
<1> QED
  BY <1>1, <1>2, <1>3, <1>5 DEF IsList, IsSeq

\* The same for a directory.
LEMMA DirectoryReadable ==
    ASSUME NEW d \in Directory, NEW out \in EncodeDirectory(d), out.is = "ok"
    PROVE  out.val.kind = "directory" /\ Readable(out.val)
<1> DEFINE dirType == "*DirectoryReference"
           fileType == "*FileReference"
           items == out.val.items
<1>1. /\ EncodeReferences(d.directories, dirType).is = "ok"
      /\ EncodeReferences(d.files, fileType).is = "ok"
      /\ out.val.kind = "directory"
      /\ items[2] = EncodeReferences(d.directories, dirType).val
      /\ items[3] = EncodeReferences(d.files, fileType).val
      /\ \E extra \in EncodeIntMap(d.extra) : items[4] = extra.val
  BY DirectoryWritten
<1>2. /\ d.directories \in References(RefType(dirType)) /\ d.files \in References(RefType(fileType))
      /\ d.extra \in Extra
  BY DirectoryFields DEF RefType
<1> HIDE DEF items
<1>3. IsList(items[2]) /\ \A e \in ToSet(Value(items[2])) : e.key \in Names /\ RefItem(dirType, e.item)
  BY <1>1, <1>2, ReferencesReadable DEF PointerTypes
<1>4. IsList(items[3]) /\ \A e \in ToSet(Value(items[3])) : e.key \in Names /\ RefItem(fileType, e.item)
  BY <1>1, <1>2, ReferencesReadable DEF PointerTypes
<1>5. ExtraItems(items[4])
  BY <1>1, <1>2, IntMapRead
<1>6. DirectoryItems(items)
  BY <1>3, <1>4, <1>5 DEF DirectoryItems, RefItem
<1> QED
  BY <1>1, <1>6 DEF Readable, items

\* The same for the paths of a web app.
LEMMA PathsReadable ==
    ASSUME NEW paths \in {None} \cup Seq(PathEntry)
    PROVE  LET item == EncodePaths(paths).val
           IN  \/ item = Nil
               \/ /\ IsList(item)
                  /\ \A row \in ToSet(Value(item)) :
                       IsList(row) /\ \A x \in ToSet(Value(row)) : Decoded(x)
<1> DEFINE item == EncodePaths(paths).val
<1>1. CASE paths = None
  BY <1>1 DEF EncodePaths, Ok
<1>2. CASE paths # None
  <2>1. paths \in Seq([key : ToSet(PathOrder), cid : CIDValues])
    BY <1>2 DEF PathEntry
  <2> DEFINE sorted == Sort(paths)
             row(i) == Arr(<<Str(sorted[i].key), Bin(ToBytes(sorted[i].cid)), Str("text")>>)
             table == [i \in DOMAIN sorted |-> row(i)]
  <2>2. sorted \in Seq(PathEntry)
    BY <2>1, Sorted
  <2>3. Value(item) = table
    BY <1>2 DEF EncodePaths, Ok, Arr, Item, Value
  <2>4. DOMAIN sorted = 1 .. Len(sorted) /\ Len(sorted) \in Nat /\ \A i \in DOMAIN sorted : sorted[i] \in PathEntry
    BY <2>2
  <2> HIDE DEF sorted
  <2>5. ASSUME NEW i \in DOMAIN sorted
        PROVE  IsList(row(i)) /\ \A x \in ToSet(Value(row(i))) : Decoded(x)
    <3>1. PICK k, b : k = Str(sorted[i].key) /\ b = Bin(ToBytes(sorted[i].cid))
      OBVIOUS
    <3>2. Value(row(i)) = <<k, b, Str("text")>>
      BY <3>1 DEF Value, Arr, Item
    <3>3. PICK s : s = <<k, b, Str("text")>>
      OBVIOUS
    <3>4. DOMAIN s = {1, 2, 3} /\ s[1] = k /\ s[2] = b /\ s[3] = Str("text")
      BY <3>3
    <3>5. IsSeq(s) /\ \A x \in ToSet(s) : x \in {k, b, Str("text")}
      <4>1. \A x \in ToSet(s) : x \in {k, b, Str("text")}
        BY <3>4 DEF ToSet
      <4>2. k \in ToSet(s) /\ b \in ToSet(s) /\ Str("text") \in ToSet(s)
        BY <3>4 DEF ToSet
      <4>3. s \in Seq(ToSet(s))
        BY <3>3, <4>2
      <4> QED
        BY <4>1, <4>3 DEF IsSeq
    <3>6. ToBytes(sorted[i].cid) \in Seq(Byte)
      <4>1. sorted[i].cid \in CIDValues
        BY <2>4 DEF PathEntry
      <4> QED
        BY <4>1, ReadCID
    <3>7. Decoded(k) /\ Decoded(b) /\ Decoded(Str("text"))
      BY <3>1, <3>6, ItemKinds
    <3> QED
      BY <3>2, <3>3, <3>5, <3>7 DEF IsList, IsSeq
  <2> HIDE DEF row
  <2>6. IsSeq(table)
    <3>1. table = [i \in 1 .. Len(sorted) |-> table[i]]
      BY <2>4
    <3>2. \A i \in 1 .. Len(sorted) : table[i] \in ToSet(table)
      BY <2>4 DEF ToSet
    <3> HIDE DEF table
    <3> QED
      BY <2>4, <3>1, <3>2 DEF IsSeq
  <2>7. \A r \in ToSet(table) : IsList(r) /\ \A x \in ToSet(Value(r)) : Decoded(x)
    BY <2>5 DEF ToSet
  <2> QED
    BY <2>3, <2>6, <2>7 DEF IsList, IsSeq
<1> QED
  BY <1>1, <1>2

\* The same for a web app.
LEMMA WebAppReadable ==
    ASSUME NEW d \in WebApp, NEW out \in EncodeWebApp(d)
    PROVE  out.val.kind = "webapp" /\ Readable(out.val)
<1> DEFINE items == out.val.items
<1>1. out.val.kind = "webapp" /\ items[4] = EncodePaths(d.paths).val
  BY WebAppWritten
<1>2. PICK p \in EncodeErrorPages(d.errorPages) : items[3] = p.val
  BY WebAppWritten
<1>3. PICK x \in EncodeExtra(d.extra) : items[5] = x.val
  BY WebAppWritten
<1>4. /\ d.errorPages \subseteq ErrorCodes /\ IsFiniteSet(d.errorPages)
      /\ d.paths \in {None} \cup Seq(PathEntry) /\ d.extra \in Extra
  BY WebAppFields
<1> HIDE DEF items
<1>5. IsList(items[3]) /\ \A e \in ToSet(Value(items[3])) : e.key \in ErrorCodes
  BY <1>2, <1>4, PagesRead
<1>6. ExtraItems(items[5])
  BY <1>3, <1>4, ExtraRead
<1>7. \/ items[4] = Nil
      \/ /\ IsList(items[4])
         /\ \A row \in ToSet(Value(items[4])) :
              IsList(row) /\ \A y \in ToSet(Value(row)) : Decoded(y)
  BY <1>1, <1>4, PathsReadable
<1>8. WebAppItems(items)
  BY <1>5, <1>6, <1>7 DEF WebAppItems
<1> QED
  BY <1>1, <1>8 DEF Readable, items

-----------------------------------------------------------------------------
(* How many forms a web app has *)

\* The members of a sequence are finitely many.
LEMMA FiniteMembers ==
    ASSUME NEW s, IsSeq(s)
    PROVE  IsFiniteSet(ToSet(s))
<1>1. PICK n \in Nat : DOMAIN s = 1 .. n /\ s \in [1 .. n -> ToSet(s)]
  BY DEF IsSeq
<1>2. s \in Surjection(1 .. n, ToSet(s))
  BY <1>1 DEF Surjection, ToSet
<1>3. IsFiniteSet(1 .. n)
  BY FS_Interval
<1> QED
  BY <1>2, <1>3, FS_Surjection

\* So are its orders.
LEMMA FiniteOrders ==
    ASSUME NEW S, IsFiniteSet(S)
    PROVE  IsFiniteSet(Orders(S))
<1> DEFINE D == 1 .. Cardinality(S)
           graph == [f \in Orders(S) |-> {<<i, f[i]>> : i \in D}]
<1>1. Cardinality(S) \in Nat
  BY FS_CardinalityType
<1>2. IsFiniteSet(D)
  BY <1>1, FS_Interval
<1>3. Orders(S) \subseteq [D -> S]
  BY DEF Orders, SetToSeqs
<1> HIDE DEF D
<1>4. IsFiniteSet(SUBSET (D \X S))
  BY <1>2, FS_Product, FS_SUBSET
<1>5. graph \in [Orders(S) -> SUBSET (D \X S)]
  BY <1>3
<1>6. ASSUME NEW f \in Orders(S), NEW g \in Orders(S), graph[f] = graph[g]
      PROVE  f = g
  <2>1. ASSUME NEW i \in D PROVE f[i] = g[i]
    <3>1. <<i, f[i]>> \in graph[f]
      OBVIOUS
    <3>2. PICK j \in D : <<i, f[i]>> = <<j, g[j]>>
      BY <1>6, <3>1
    <3> QED
      BY <3>2
  <2>2. f \in [D -> S] /\ g \in [D -> S]
    BY <1>3
  <2> QED
    BY <2>1, <2>2
<1> HIDE DEF graph
<1>7. graph \in Injection(Orders(S), SUBSET (D \X S))
  BY <1>5, <1>6 DEF Injection, IsInjective
<1> QED
  BY <1>4, <1>7, FS_Injection

\* There is one order exactly if there are less than two members.
LEMMA OneOrder ==
    ASSUME NEW S, IsFiniteSet(S)
    PROVE  /\ Cardinality(S) < 2 => \A s, t \in Orders(S) : s = t
           /\ ~ (Cardinality(S) < 2) => \E s, t \in Orders(S) : s # t
<1> DEFINE D == 1 .. Cardinality(S)
<1>1. Cardinality(S) \in Nat
  BY FS_CardinalityType
<1>2. \A s : s \in Orders(S) <=> s \in [D -> S] /\ \A i, j \in D : i # j => s[i] # s[j]
  BY DEF Orders, SetToSeqs
<1>3. ASSUME Cardinality(S) < 2, NEW s \in Orders(S), NEW t \in Orders(S)
      PROVE  s = t
  <2>1. s \in [D -> S] /\ t \in [D -> S]
    BY <1>2
  <2>2. \A i \in D : i = 1
    BY <1>1, <1>3
  <2>3. ToSet(s) = S /\ ToSet(t) = S
    BY OrderIs
  <2>4. ASSUME NEW i \in D PROVE s[i] = t[i]
    <3>1. s[i] \in S
      BY <2>1
    <3>2. PICK j \in D : t[j] = s[i]
      BY <2>1, <2>3, <3>1 DEF ToSet
    <3> QED
      BY <2>2, <3>2
  <2> HIDE DEF D
  <2> QED
    BY <2>1, <2>4
<1>4. ASSUME ~ (Cardinality(S) < 2)
      PROVE  \E s, t \in Orders(S) : s # t
  <2>1. PICK s : s \in Orders(S)
    BY OrderExists
  <2>2. 1 \in D /\ 2 \in D
    BY <1>1, <1>4
  <2> DEFINE t == [i \in D |-> IF i = 1 THEN s[2] ELSE IF i = 2 THEN s[1] ELSE s[i]]
  <2>3. s \in [D -> S] /\ \A i, j \in D : i # j => s[i] # s[j]
    BY <1>2, <2>1
  <2> HIDE DEF D
  <2>4. t \in [D -> S]
    BY <2>2, <2>3
  <2>5. ASSUME NEW i \in D, NEW j \in D, i # j PROVE t[i] # t[j]
    BY <2>2, <2>3, <2>5
  <2>6. t[1] # s[1]
    BY <2>2, <2>3
  <2> HIDE DEF t
  <2>7. t \in Orders(S)
    BY <1>2, <2>4, <2>5
  <2> QED
    BY <2>1, <2>6, <2>7
<1> QED
  BY <1>3, <1>4

\* A web app's bytes, with its error pages and its extra metadata in an order.
PagesIn(s) == Ok(MapOf([i \in DOMAIN s |-> Entry(s[i], Str("text"))]))
ExtraIn(s) == Ok(MapOf([i \in DOMAIN s |-> Entry(<<"name", s[i]>>, Str("text"))]))

Form(d, s, t) == MarshalWebApp(EncodePaths(d.paths), PagesIn(s), ExtraIn(t))

\* The orders can be told from them.
LEMMA FormsDiffer ==
    ASSUME NEW S, NEW T, IsFiniteSet(S), IsFiniteSet(T), NEW d,
           NEW s1 \in Orders(S), NEW s2 \in Orders(S), NEW t1 \in Orders(T), NEW t2 \in Orders(T),
           Form(d, s1, t1) = Form(d, s2, t2)
    PROVE  s1 = s2 /\ t1 = t2
<1>1. ASSUME NEW s, NEW t
      PROVE  /\ Form(d, s, t).val.items[3] = PagesIn(s).val
             /\ Form(d, s, t).val.items[5] = ExtraIn(t).val
  <2> DEFINE b == EncodePaths(d.paths)
             p == PagesIn(s)
             x == ExtraIn(t)
  <2>1. b.is = "ok" /\ p.is = "ok" /\ x.is = "ok"
    BY DEF EncodePaths, PagesIn, ExtraIn, Ok
  <2> HIDE DEF b, p, x
  <2>2. PICK items : items = <<Ok(Str("text")), Ok(Arr(<<>>)), p, b, x>>
    OBVIOUS
  <2>3. DOMAIN items = 1 .. 5 /\ DOMAIN items \subseteq Nat
    BY <2>2
  <2>4. /\ items[1] = Ok(Str("text")) /\ items[2] = Ok(Arr(<<>>))
        /\ items[3] = p /\ items[4] = b /\ items[5] = x
    BY <2>2
  <2>5. \A i \in DOMAIN items : items[i].is = "ok"
    <3>1. \A y : Ok(y).is = "ok"
      BY DEF Ok
    <3> QED
      BY <2>1, <2>3, <2>4, <3>1
  <2>6. PICK vals : vals = [i \in DOMAIN items |-> items[i].val]
    OBVIOUS
  <2>7. PICK wire : wire = [kind |-> "webapp", items |-> vals]
    OBVIOUS
  <2>8. Form(d, s, t) = Unless(items, wire)
    BY <2>2, <2>6, <2>7 DEF Form, MarshalWebApp, InitMarshaller, b, p, x
  <2>9. Form(d, s, t) = Ok(wire)
    BY <2>3, <2>5, <2>8, UnlessOk
  <2>10. Form(d, s, t).val.items = vals
    BY <2>7, <2>9 DEF Ok
  <2>11. vals[3] = p.val /\ vals[5] = x.val
    BY <2>3, <2>4, <2>6
  <2> QED
    BY <2>10, <2>11 DEF p, x
<1>2. ASSUME NEW s, NEW i \in DOMAIN s
      PROVE  Value(PagesIn(s).val)[i].key = s[i]
  BY DEF PagesIn, Ok, MapOf, Item, Value, Entry
<1>3. ASSUME NEW s, NEW i \in DOMAIN s
      PROVE  Value(ExtraIn(s).val)[i].key = <<"name", s[i]>>
  BY DEF ExtraIn, Ok, MapOf, Item, Value, Entry
<1>4. PICK D, E : /\ s1 \in [D -> S] /\ s2 \in [D -> S]
                  /\ t1 \in [E -> T] /\ t2 \in [E -> T]
  <2>1. PICK D, E : D = 1 .. Cardinality(S) /\ E = 1 .. Cardinality(T)
    OBVIOUS
  <2> QED
    BY <2>1 DEF Orders, SetToSeqs
<1>5. s1 = s2
  <2>1. PICK p : p = Value(PagesIn(s1).val) /\ p = Value(PagesIn(s2).val)
    BY <1>1
  <2>2. ASSUME NEW i \in D PROVE s1[i] = s2[i]
    BY <1>2, <1>4, <2>1
  <2> QED
    BY <1>4, <2>2
<1>6. t1 = t2
  <2>1. PICK p : p = Value(ExtraIn(t1).val) /\ p = Value(ExtraIn(t2).val)
    BY <1>1
  <2>2. ASSUME NEW i \in E PROVE t1[i] = t2[i]
    <3>1. <<"name", t1[i]>> = <<"name", t2[i]>>
      BY <1>3, <1>4, <2>1
    <3> QED
      BY <3>1
  <2> QED
    BY <1>4, <2>2
<1> QED
  BY <1>5, <1>6

\* A web app has one form exactly if neither its error pages nor its named
\* extra metadata can be written in two orders.
LEMMA OneForm ==
    ASSUME NEW d \in WebApp
    PROVE  Cardinality(Marshal(d)) = 1 <=>
             Cardinality(d.errorPages) < 2 /\ Cardinality(DOMAIN d.extra \ {"updateCID"}) < 2
<1> DEFINE S == d.errorPages
           T == DOMAIN d.extra \ {"updateCID"}
           M == Marshal(d)
<1>1. d.kind = "webapp" /\ IsFiniteSet(S) /\ d.extra \in Extra
  BY WebAppFields
<1>2. IsFiniteSet(T)
  BY <1>1, ExtraNames, FS_Subset
<1>3. M = {MarshalWebApp(EncodePaths(d.paths), pages, extra) :
             pages \in EncodeErrorPages(S), extra \in EncodeExtra(d.extra)}
  BY <1>1 DEF Marshal, EncodeWebApp
<1>4. /\ EncodeErrorPages(S) = {PagesIn(s) : s \in Orders(S)}
      /\ EncodeExtra(d.extra) = {ExtraIn(t) : t \in Orders(T)}
  BY DEF EncodeErrorPages, EncodeExtra, PagesIn, ExtraIn
<1> HIDE DEF S, T, M
<1>5. /\ \A s \in Orders(S), t \in Orders(T) : Form(d, s, t) \in M
      /\ \A x \in M : \E s \in Orders(S), t \in Orders(T) : x = Form(d, s, t)
  BY <1>3, <1>4 DEF Form
<1>6. IsFiniteSet(M)
  <2> DEFINE g == [x \in Orders(S) \X Orders(T) |-> Form(d, x[1], x[2])]
  <2>1. g \in [Orders(S) \X Orders(T) -> M]
    BY <1>5
  <2>2. ASSUME NEW x \in M PROVE \E y \in Orders(S) \X Orders(T) : g[y] = x
    <3>1. PICK s \in Orders(S), t \in Orders(T) : x = Form(d, s, t)
      BY <1>5
    <3>2. <<s, t>> \in Orders(S) \X Orders(T) /\ g[<<s, t>>] = x
      BY <3>1
    <3> QED
      BY <3>2
  <2> HIDE DEF g
  <2>3. g \in Surjection(Orders(S) \X Orders(T), M)
    BY <2>1, <2>2 DEF Surjection
  <2>4. IsFiniteSet(Orders(S) \X Orders(T))
    BY <1>1, <1>2, FiniteOrders, FS_Product
  <2> QED
    BY <2>3, <2>4, FS_Surjection
<1>7. PICK s0 \in Orders(S), t0 \in Orders(T) : TRUE
  BY <1>1, <1>2, OrderExists
<1>8. ASSUME Cardinality(S) < 2, Cardinality(T) < 2 PROVE Cardinality(M) = 1
  <2>1. \A x \in M : x = Form(d, s0, t0)
    BY <1>1, <1>2, <1>5, <1>8, OneOrder
  <2>2. M = {Form(d, s0, t0)}
    BY <1>5, <2>1
  <2> QED
    BY <2>2, FS_Singleton
<1>9. ASSUME Cardinality(M) = 1, ~ (Cardinality(S) < 2 /\ Cardinality(T) < 2) PROVE FALSE
  <2>1. PICK w : M = {w}
    BY <1>6, <1>9, FS_Singleton
  <2>2. \A s1, s2 \in Orders(S), t1, t2 \in Orders(T) : s1 = s2 /\ t1 = t2
    <3>1. SUFFICES ASSUME NEW s1 \in Orders(S), NEW s2 \in Orders(S),
                          NEW t1 \in Orders(T), NEW t2 \in Orders(T)
                   PROVE  s1 = s2 /\ t1 = t2
      OBVIOUS
    <3>2. Form(d, s1, t1) = Form(d, s2, t2)
      BY <1>5, <2>1
    <3> QED
      BY <1>1, <1>2, <3>2, FormsDiffer
  <2>3. CASE ~ (Cardinality(S) < 2)
    <3>1. PICK s1 \in Orders(S), s2 \in Orders(S) : s1 # s2
      BY <1>1, <2>3, OneOrder
    <3> QED
      BY <1>7, <2>2, <3>1
  <2>4. CASE ~ (Cardinality(T) < 2)
    <3>1. PICK t1 \in Orders(T), t2 \in Orders(T) : t1 # t2
      BY <1>2, <2>4, OneOrder
    <3> QED
      BY <1>7, <2>2, <3>1
  <2> QED
    BY <1>9, <2>3, <2>4
<1> QED
  BY <1>8, <1>9 DEF S, T, M

\* The order in which paths were put does not show in the bytes.
LEMMA AnyOrder ==
    ASSUME NEW d \in WebApp, d.paths # None, NEW paths \in SetToSeqs(ToSet(d.paths))
    PROVE  Marshal([d EXCEPT !.paths = paths]) = Marshal(d)
<1>1. /\ d = [kind |-> d.kind, errorPages |-> d.errorPages, paths |-> d.paths, extra |-> d.extra]
      /\ d.kind = "webapp" /\ d.paths \in Seq(PathEntry)
  BY WebAppFields
<1>2. PICK S : S = ToSet(d.paths) /\ IsSeq(d.paths) /\ S \subseteq PathEntry
  BY <1>1, Members DEF IsSeq
<1>3. IsFiniteSet(S)
  BY <1>2, FiniteMembers
<1>4. paths \in Orders(S)
  BY <1>2 DEF Orders
<1>5. paths \in Seq(S) /\ ToSet(paths) = S
  BY <1>3, <1>4, OrderIs
<1>6. paths # None
  BY <1>2, <1>5, DocumentAssumption
<1>7. EncodePaths(paths) = EncodePaths(d.paths)
  <2>1. Sort(paths) = Sort(d.paths)
    BY <1>2, <1>5, SortOfSet
  <2> QED
    BY <1>6, <2>1 DEF EncodePaths
<1>8. PICK e : e = [d EXCEPT !.paths = paths]
  OBVIOUS
<1>9. e = [kind |-> d.kind, errorPages |-> d.errorPages, paths |-> paths, extra |-> d.extra]
  BY <1>1, <1>8
<1>10. e.kind = "webapp" /\ e.errorPages = d.errorPages /\ e.paths = paths /\ e.extra = d.extra
  BY <1>1, <1>9
<1>11. Marshal(e) = Marshal(d)
  BY <1>1, <1>7, <1>10 DEF Marshal, EncodeWebApp
<1> QED
  BY <1>8, <1>11

-----------------------------------------------------------------------------
(* What reading a document yields. *)

\* A successful outcome with a document of the kind.
Read(out, kind) ==
  out.is = "ok" => out = Ok(out.val) /\ out.val.kind = kind

\* Only a directory is read as one.
LEMMA DirectoryRead ==
    ASSUME NEW wire
    PROVE  /\ DecodeDirectory(wire).is = "ok" => wire.kind = "directory"
           /\ Read(DecodeDirectory(wire), "directory")
<1> DEFINE out == DecodeDirectory(wire)
           details     == DecodeDetails(wire.items[1])
           directories == unmarshalMapMsgpack(wire.items[2], "*DirectoryReference")
           files       == unmarshalMapMsgpack(wire.items[3], "*FileReference")
           extra       == decodeIntMap(wire.items[4])
           all         == <<details, directories, files, extra>>
           read        == [kind |-> "directory", details |-> details.val,
                           directories |-> directories.val, files |-> files.val,
                           extra |-> KindsOf(extra.val)]
<1>1. CASE ~InitUnmarshaller(wire, {"directory"}) \/ Len(wire.items) # 4
  <2>1. out = Error
    BY <1>1 DEF DecodeDirectory
  <2> QED
    BY <2>1 DEF Error, Read
<1>2. CASE ~(~InitUnmarshaller(wire, {"directory"}) \/ Len(wire.items) # 4)
  <2>1. out = Unless(all, read)
    BY <1>2 DEF DecodeDirectory
  <2>2. wire.kind = "directory"
    BY <1>2 DEF InitUnmarshaller
  <2>3. read.kind = "directory"
    OBVIOUS
  <2>4. DOMAIN all \subseteq Nat
    OBVIOUS
  <2> HIDE DEF all, read, out
  <2>5. out = Ok(read) \/ out.is # "ok"
    BY <2>1, <2>4, UnlessOk
  <2>6. Ok(read).val = read
    BY DEF Ok
  <2> QED
    BY <2>2, <2>3, <2>5, <2>6 DEF Read, out
<1> QED
  BY <1>1, <1>2

\* Only a web app is read as one.
LEMMA WebAppRead ==
    ASSUME NEW wire
    PROVE  /\ DecodeWebApp(wire).is = "ok" => wire.kind = "webapp"
           /\ Read(DecodeWebApp(wire), "webapp")
<1> DEFINE out == DecodeWebApp(wire)
           paths == DecodePaths(wire.items[4])
           extra == DecodeExtra(wire.items[5])
           all   == <<paths, extra>>
           read  == [kind |-> "webapp",
                     errorPages |-> {e.key : e \in ToSet(Value(wire.items[3]))},
                     paths |-> paths.val, extra |-> extra.val]
<1>1. CASE ~InitUnmarshaller(wire, {"webapp"}) \/ Len(wire.items) # 5
  <2>1. out = Error
    BY <1>1 DEF DecodeWebApp
  <2> QED
    BY <2>1 DEF Error, Read
<1>2. CASE ~(~InitUnmarshaller(wire, {"webapp"}) \/ Len(wire.items) # 5)
  <2>1. out = Unless(all, read)
    BY <1>2 DEF DecodeWebApp
  <2>2. wire.kind = "webapp"
    BY <1>2 DEF InitUnmarshaller
  <2>3. read.kind = "webapp"
    OBVIOUS
  <2>4. DOMAIN all \subseteq Nat
    OBVIOUS
  <2> HIDE DEF all, read, out
  <2>5. out = Ok(read) \/ out.is # "ok"
    BY <2>1, <2>4, UnlessOk
  <2>6. Ok(read).val = read
    BY DEF Ok
  <2> QED
    BY <2>2, <2>3, <2>5, <2>6 DEF Read, out
<1> QED
  BY <1>1, <1>2

\* The numbers of formats that were read from a body.
NumbersRead(read, formats) ==
  /\ DOMAIN read = DOMAIN formats
  /\ \A i \in DOMAIN read : \A k \in DOMAIN read[i] \cap FormatNumbers :
       LET item == decodeIntMap(formats[i]).val[k]
       IN  read[i][k] =
             IF TypeIn(item) \in Num \ {"uint8", "uint64"} THEN Value(item) ELSE "zero"

\* The outcomes of a format are one success or failures only.
LEMMA FormatRead ==
    ASSUME NEW item
    PROVE  \/ /\ DecodeMediaFormat(item) # {}
              /\ \A o \in DecodeMediaFormat(item) : o.is # "ok"
           \/ \E read : /\ DecodeMediaFormat(item) = {Ok(read)}
                        /\ \A k \in DOMAIN read \cap FormatNumbers :
                             LET f == decodeIntMap(item).val[k]
                             IN  read[k] = IF TypeIn(f) \in Num \ {"uint8", "uint64"}
                                           THEN Value(f) ELSE "zero"
<1> DEFINE fields == decodeIntMap(item).val
           parsed == [k \in DOMAIN fields |-> FormatField(k, fields[k])]
           bad    == {k \in DOMAIN fields : parsed[k].is # "ok"}
           read   == [k \in DOMAIN fields |-> parsed[k].val]
<1>1. CASE decodeIntMap(item) = Error
  <2>1. DecodeMediaFormat(item) = {Error}
    BY <1>1 DEF DecodeMediaFormat
  <2> QED
    BY <2>1 DEF Error
<1>2. CASE decodeIntMap(item) # Error /\ bad # {}
  <2>1. DecodeMediaFormat(item) = {parsed[k] : k \in bad}
    BY <1>2 DEF DecodeMediaFormat
  <2> QED
    BY <1>2, <2>1
<1>3. CASE decodeIntMap(item) # Error /\ bad = {}
  <2>1. DecodeMediaFormat(item) = {Ok(read)}
    BY <1>3 DEF DecodeMediaFormat
  <2>2. ASSUME NEW k \in DOMAIN read \cap FormatNumbers
        PROVE  read[k] = IF TypeIn(fields[k]) \in Num \ {"uint8", "uint64"}
                         THEN Value(fields[k]) ELSE "zero"
    <3>1. k \in FormatNumbers /\ k \notin FormatStrings
      BY DEF FormatNumbers, FormatStrings
    <3>2. k # 1 /\ k # 12 /\ k # 24
      BY DEF FormatNumbers
    <3>3. FormatField(k, fields[k]) = Ok(intParse(fields[k]))
      BY <3>1, <3>2 DEF FormatField
    <3>4. read[k] = FormatField(k, fields[k]).val
      OBVIOUS
    <3>5. read[k] = intParse(fields[k])
      BY <3>3, <3>4 DEF Ok
    <3> QED
      BY <3>5 DEF intParse, Num
  <2> HIDE DEF read
  <2> QED
    BY <2>1, <2>2
<1> QED
  BY <1>1, <1>2, <1>3

\* The formats of a media document, if all were read.
LEMMA FormatsRead ==
    ASSUME NEW formats, DOMAIN formats \subseteq Nat,
           NEW o \in DecodeMediaTypes(formats), o.is = "ok"
    PROVE  NumbersRead(o.val, formats)
<1> DEFINE bad  == {i \in DOMAIN formats : \E x \in DecodeMediaFormat(formats[i]) : x.is # "ok"}
           Only(i) == CHOOSE x \in DecodeMediaFormat(formats[i]) : TRUE
           read == [i \in DOMAIN formats |-> Only(i).val]
<1>1. bad = {}
  <2>1. SUFFICES ASSUME bad # {} PROVE FALSE
    OBVIOUS
  <2>2. bad \in SUBSET Nat
    OBVIOUS
  <2>3. \E m \in bad : \A n \in bad : m <= n
    BY <2>1, <2>2, Least
  <2>4. Min(bad) \in bad
    BY <2>3 DEF Min
  <2>5. o \in DecodeMediaFormat(formats[Min(bad)])
    BY <2>1 DEF DecodeMediaTypes
  <2>6. PICK x \in DecodeMediaFormat(formats[Min(bad)]) : x.is # "ok"
    BY <2>4
  <2>7. PICK item : item = formats[Min(bad)]
    OBVIOUS
  <2>8. \A y \in DecodeMediaFormat(item) : y.is # "ok"
    <3> HIDE DEF bad
    <3>1. \A r : Ok(r).is = "ok"
      BY DEF Ok
    <3> QED
      BY <2>6, <2>7, <3>1, FormatRead
  <2> QED
    BY <2>5, <2>7, <2>8
<1>2. o = Ok(read)
  BY <1>1 DEF DecodeMediaTypes
<1>3. o.val = read
  BY <1>2 DEF Ok
<1>4. ASSUME NEW i \in DOMAIN formats, NEW k \in DOMAIN read[i] \cap FormatNumbers
      PROVE  LET item == decodeIntMap(formats[i]).val[k]
             IN  read[i][k] =
                   IF TypeIn(item) \in Num \ {"uint8", "uint64"} THEN Value(item) ELSE "zero"
  <2>1. PICK item : item = formats[i]
    OBVIOUS
  <2>2. \A x \in DecodeMediaFormat(item) : x.is = "ok"
    BY <1>1, <2>1
  <2>3. PICK r : /\ DecodeMediaFormat(item) = {Ok(r)}
                 /\ \A n \in DOMAIN r \cap FormatNumbers :
                      LET f == decodeIntMap(item).val[n]
                      IN  r[n] = IF TypeIn(f) \in Num \ {"uint8", "uint64"}
                                 THEN Value(f) ELSE "zero"
    BY <2>2, FormatRead
  <2>4. Only(i) = Ok(r)
    BY <2>1, <2>3
  <2>5. read[i] = r
    <3>1. read[i] = Only(i).val
      OBVIOUS
    <3>2. Ok(r).val = r
      BY DEF Ok
    <3> HIDE DEF Only, read
    <3> QED
      BY <2>4, <3>1, <3>2
  <2> QED
    BY <2>1, <2>3, <2>5
<1> QED
  BY <1>3, <1>4 DEF NumbersRead

\* The document that a media body makes, with these keys proven.
MediaOf(d, body, proven) ==
  /\ d.kind = "media" /\ d.parents = <<>>
  /\ d.proven = proven
  /\ DOMAIN body.formats \subseteq Nat => NumbersRead(d.formats, body.formats)

\* A media body that was read, with the keys proven before it.
LEMMA BodyRead ==
    ASSUME NEW body, NEW proven, NEW out \in decodeMedia(body, proven), out.is = "ok"
    PROVE  out = Ok(out.val) /\ MediaOf(out.val, body, proven)
<1> DEFINE details == decodeIntMap(body.details)
           parents == DecodeParents(body.parents, proven)
           extra   == DecodeExtra(body.extra)
           all(formats, links)  == <<details, parents, formats, links, extra>>
           read(formats, links) ==
             [kind |-> "media", parents |-> <<>>, proven |-> proven,
              formats |-> formats.val, links |-> links.val, extra |-> extra.val]
<1>1. PICK formats \in DecodeMediaTypes(body.formats), links \in DecodeLinks(body.links) :
        out = Unless(all(formats, links), read(formats, links))
  <2>1. PICK formats \in DecodeMediaTypes(body.formats), links \in DecodeLinks(body.links) :
          out = MediaOutcome(body, proven, formats, links)
    BY DEF decodeMedia
  <2> QED
    BY <2>1 DEF MediaOutcome
<1>2. DOMAIN all(formats, links) = 1 .. 5 /\ all(formats, links)[3] = formats
  OBVIOUS
<1>3. /\ read(formats, links).kind = "media"
      /\ read(formats, links).parents = <<>>
      /\ read(formats, links).proven = proven
      /\ read(formats, links).formats = formats.val
  OBVIOUS
<1> HIDE DEF all, read
<1>4. DOMAIN all(formats, links) \subseteq Nat
  BY <1>2
<1>5. /\ out = Ok(read(formats, links))
      /\ \A i \in DOMAIN all(formats, links) : all(formats, links)[i].is = "ok"
  BY <1>1, <1>4, UnlessOk
<1>6. formats.is = "ok"
  BY <1>2, <1>5
<1>7. out.val = read(formats, links)
  BY <1>5 DEF Ok
<1>8. DOMAIN body.formats \subseteq Nat => NumbersRead(formats.val, body.formats)
  BY <1>6, FormatsRead
<1> QED
  BY <1>3, <1>5, <1>7, <1>8 DEF MediaOf

\* Each of the keys signed the body.
AllSigned(keys, wire) ==
  \A key \in keys :
    \E p \in ToSet(wire.proofs) : p.key = key /\ Verify(key, wire.body, p.signature)

\* A key that passed has signed the body.
LEMMA ProofChecked ==
    ASSUME NEW proof, NEW body, CheckProof(proof, body).is = "ok"
    PROVE  /\ CheckProof(proof, body).val = proof.key
           /\ Verify(proof.key, body, proof.signature)
<1> DEFINE signature == IF proof.signature = None THEN Panic
                        ELSE IF Verify(proof.key, body, proof.signature) THEN Ok(None) ELSE Error
<1>1. PICK a, b, c, d : CheckProof(proof, body) = Unless(<<a, b, c, d, signature>>, proof.key)
  BY DEF CheckProof
<1>2. PICK checks : checks = <<a, b, c, d, signature>>
  OBVIOUS
<1>3. DOMAIN checks = 1 .. 5 /\ DOMAIN checks \subseteq Nat /\ checks[5] = signature
  BY <1>2
<1> HIDE DEF signature
<1>4. CheckProof(proof, body) = Ok(proof.key) /\ signature.is = "ok"
  BY <1>1, <1>2, <1>3, UnlessOk
<1>5. Error.is # "ok" /\ Panic.is # "ok"
  BY DEF Error, Panic
<1>6. Verify(proof.key, body, proof.signature)
  BY <1>4, <1>5 DEF signature
<1> QED
  BY <1>4, <1>6 DEF Ok

\* A signed document: no section of proofs, or every key signed the body.
LEMMA ProofRead ==
    ASSUME NEW wire, wire.section \in {"short", "empty", "full"},
           DOMAIN wire.proofs \subseteq Nat,
           NEW out \in decodeProof(wire), out.is = "ok"
    PROVE  /\ out = Ok(out.val)
           /\ \/ out.val = EmptyMedia
              \/ \E proven : MediaOf(out.val, wire.body, proven) /\ AllSigned(proven, wire)
<1> DEFINE checks == [i \in DOMAIN wire.proofs |-> CheckProof(wire.proofs[i], wire.body)]
           keys   == {checks[i].val : i \in DOMAIN checks}
           all    == Unless(checks, keys)
<1>1. CASE wire.section = "short"
  BY <1>1 DEF decodeProof, Panic
<1>2. CASE wire.section = "empty"
  <2>1. out = Ok(EmptyMedia)
    BY <1>2 DEF decodeProof
  <2> QED
    BY <2>1 DEF Ok
<1>3. CASE wire.section = "full"
  <2>1. decodeProof(wire) = IF all.is # "ok" THEN {all}
                            ELSE IF wire.body.kind # "media" THEN {Error}
                            ELSE decodeMedia(wire.body, all.val)
    BY <1>3 DEF decodeProof
  <2>2. DOMAIN checks \subseteq Nat
    OBVIOUS
  <2>3. AllSigned(keys, wire) \/ \E i \in DOMAIN checks : checks[i].is # "ok"
    <3>1. SUFFICES ASSUME \A i \in DOMAIN checks : checks[i].is = "ok",
                          NEW key \in keys
                   PROVE  \E p \in ToSet(wire.proofs) :
                            p.key = key /\ Verify(key, wire.body, p.signature)
      BY DEF AllSigned
    <3>2. PICK i \in DOMAIN wire.proofs : key = CheckProof(wire.proofs[i], wire.body).val
      OBVIOUS
    <3>3. CheckProof(wire.proofs[i], wire.body).is = "ok"
      BY <3>1
    <3>4. /\ key = wire.proofs[i].key
          /\ Verify(key, wire.body, wire.proofs[i].signature)
      BY <3>2, <3>3, ProofChecked
    <3>5. wire.proofs[i] \in ToSet(wire.proofs)
      BY DEF ToSet
    <3> QED
      BY <3>4, <3>5
  <2> HIDE DEF checks, keys
  <2>4. \/ all = Ok(keys) /\ \A i \in DOMAIN checks : checks[i].is = "ok"
        \/ all.is # "ok"
    BY <2>2, UnlessOk
  <2>5. all.is = "ok" /\ out \in decodeMedia(wire.body, all.val)
    BY <2>1 DEF Error
  <2>6. all.val = keys
    BY <2>4, <2>5 DEF Ok
  <2>7. out = Ok(out.val) /\ MediaOf(out.val, wire.body, keys)
    BY <2>5, <2>6, BodyRead
  <2> QED
    BY <2>3, <2>4, <2>5, <2>7
<1> QED
  BY <1>1, <1>2, <1>3

\* What a document with proven keys claims of the bytes.
Claims(d, wire) ==
  (d.kind = "media" /\ d.proven # {}) =>
    wire.kind = "proof" /\ AllSigned(d.proven, wire) /\ NumbersRead(d.formats, wire.body.formats)

\* A media document claims only what the bytes bear out.
LEMMA MediaRead ==
    ASSUME NEW wire, Readable(wire), NEW out \in DecodeMedia(wire), out.is = "ok"
    PROVE  /\ wire.kind \in {"proof", "media"}
           /\ Read(out, "media") /\ out.val.parents = <<>>
           /\ Claims(out.val, wire)
<1>1. wire.kind \in {"proof", "media"}
  <2>1. wire.kind \notin {"proof", "media"} => DecodeMedia(wire) = {Error}
    BY DEF DecodeMedia, InitUnmarshaller
  <2> QED
    BY <2>1 DEF Error
<1>2. CASE wire.kind = "media"
  <2>1. out \in decodeMedia(wire.body, {})
    BY <1>2 DEF DecodeMedia, InitUnmarshaller
  <2>2. out = Ok(out.val) /\ MediaOf(out.val, wire.body, {})
    BY <2>1, BodyRead
  <2> QED
    BY <1>1, <2>2 DEF MediaOf, Read, Claims
<1>3. CASE wire.kind = "proof"
  <2>1. out \in decodeProof(wire)
    BY <1>3 DEF DecodeMedia, InitUnmarshaller
  <2>2. wire.section \in {"short", "empty", "full"} /\ DOMAIN wire.proofs \subseteq Nat
    BY <1>3 DEF Readable
  <2>3. /\ out = Ok(out.val)
        /\ \/ out.val = EmptyMedia
           \/ \E proven : MediaOf(out.val, wire.body, proven) /\ AllSigned(proven, wire)
    BY <2>1, <2>2, ProofRead
  <2>4. CASE out.val = EmptyMedia
    <3>1. /\ EmptyMedia.kind = "media"
          /\ EmptyMedia.parents = <<>> /\ EmptyMedia.proven = {}
      BY DEF EmptyMedia
    <3> QED
      BY <1>1, <2>3, <2>4, <3>1 DEF Read, Claims
  <2>5. CASE \E proven : MediaOf(out.val, wire.body, proven) /\ AllSigned(proven, wire)
    <3>1. PICK proven : MediaOf(out.val, wire.body, proven) /\ AllSigned(proven, wire)
      BY <2>5
    <3>2. DOMAIN wire.body.formats \subseteq Nat
      BY <1>3 DEF Readable
    <3> QED
      BY <1>1, <1>3, <2>3, <3>1, <3>2 DEF MediaOf, Read, Claims
  <2> QED
    BY <2>3, <2>4, <2>5
<1> QED
  BY <1>1, <1>2, <1>3

\* A document is one of the three kinds and has its fields.
Typed(d) == d.kind \in {"directory", "webapp", "media"} /\ WellTyped(d)

\* What it takes to be typed, kind by kind.
LEMMA TypedKinds ==
    ASSUME NEW d
    PROVE  /\ d.kind = "directory" =>
                (Typed(d) <=> d \in Directory /\ NoKeyTwice(d.directories) /\ NoKeyTwice(d.files))
           /\ d.kind = "webapp" => (Typed(d) <=> d \in WebApp /\ NoKeyTwice(d.paths))
           /\ d.kind = "media" => (Typed(d) <=> d.parents = <<>>)
BY DEF Typed, WellTyped

\* The kinds have CID types of their own.
LEMMA KindTypes ==
    ASSUME NEW wire
    PROVE  /\ wire.kind \in {"proof", "media"} => TypeOf(wire.kind) = CIDTypeMetadataMedia
           /\ wire.kind = "webapp" => TypeOf(wire.kind) = CIDTypeMetadataWebapp
           /\ wire.kind = "directory" => TypeOf(wire.kind) = CIDTypeDirectory
           /\ ParseMetadata(wire, CIDTypeMetadataMedia) = DecodeMedia(wire)
           /\ ParseMetadata(wire, Bridge) = DecodeMedia(wire)
           /\ ParseMetadata(wire, CIDTypeMetadataWebapp) = {DecodeWebApp(wire)}
           /\ ParseMetadata(wire, CIDTypeDirectory) = {DecodeDirectory(wire)}
<1>1. /\ CIDTypeMetadataMedia # CIDTypeMetadataWebapp
      /\ CIDTypeMetadataMedia # CIDTypeDirectory
      /\ CIDTypeMetadataWebapp # CIDTypeDirectory
      /\ Bridge \notin {CIDTypeMetadataMedia, CIDTypeMetadataWebapp, CIDTypeDirectory}
  BY MetadataAssumption, CidAssumption
<1> QED
  BY <1>1 DEF ParseMetadata, TypeOf

\* Whatever type was asked for, a document is what the bytes say under the type
\* they are of, and its claims are theirs.
LEMMA Parsed ==
    ASSUME NEW wire, Readable(wire), NEW type, NEW out \in ParseMetadata(wire, type),
           out.is = "ok"
    PROVE  /\ out = Ok(out.val)
           /\ Typed(out.val)
           /\ out \in ParseMetadata(wire, TypeOf(wire.kind))
           /\ Claims(out.val, wire)
<1> DEFINE Types == {CIDTypeMetadataMedia, CIDTypeMetadataWebapp, CIDTypeDirectory, Bridge}
<1>1. type \in Types
  <2>1. type \notin Types => ParseMetadata(wire, type) = {Error}
    BY DEF ParseMetadata
  <2> QED
    BY <2>1 DEF Error
<1>2. CASE type \in {CIDTypeMetadataMedia, Bridge}
  <2>1. out \in DecodeMedia(wire)
    BY <1>2, KindTypes
  <2>2. /\ wire.kind \in {"proof", "media"} /\ Read(out, "media") /\ out.val.parents = <<>>
        /\ Claims(out.val, wire)
    BY <2>1, MediaRead
  <2>3. out \in ParseMetadata(wire, TypeOf(wire.kind))
    BY <2>1, <2>2, KindTypes
  <2>4. out.val.kind = "media" /\ out = Ok(out.val)
    BY <2>2 DEF Read
  <2>5. Typed(out.val)
    BY <2>2, <2>4, TypedKinds
  <2> QED
    BY <2>2, <2>3, <2>4, <2>5
<1>3. CASE type = CIDTypeMetadataWebapp
  <2>1. out = DecodeWebApp(wire)
    BY <1>3, KindTypes
  <2>2. wire.kind = "webapp" /\ out = Ok(out.val) /\ out.val.kind = "webapp"
    BY <2>1, WebAppRead DEF Read
  <2>3. out \in ParseMetadata(wire, TypeOf(wire.kind))
    BY <1>3, <2>2, KindTypes
  <2>4. out.val \in WebApp /\ NoKeyTwice(out.val.paths)
    BY <2>1, WebAppTyped
  <2>5. Typed(out.val)
    BY <2>2, <2>4, TypedKinds
  <2> QED
    BY <2>2, <2>3, <2>5 DEF Claims
<1>4. CASE type = CIDTypeDirectory
  <2>1. out = DecodeDirectory(wire)
    BY <1>4, KindTypes
  <2>2. wire.kind = "directory" /\ out = Ok(out.val) /\ out.val.kind = "directory"
    BY <2>1, DirectoryRead DEF Read
  <2>3. out \in ParseMetadata(wire, TypeOf(wire.kind))
    BY <1>4, <2>2, KindTypes
  <2>4. out.val \in Directory /\ NoKeyTwice(out.val.directories) /\ NoKeyTwice(out.val.files)
    BY <2>1, DirectoryTyped
  <2>5. Typed(out.val)
    BY <2>2, <2>4, TypedKinds
  <2> QED
    BY <2>2, <2>3, <2>5 DEF Claims
<1> QED
  BY <1>1, <1>2, <1>3, <1>4

\* What this program publishes is a directory or a web app, and can be read.
LEMMA Marshalled ==
    ASSUME NEW d, Typed(d), NEW out \in Marshal(d), out.is = "ok"
    PROVE  /\ d.kind \in {"directory", "webapp"} /\ out = Ok(out.val)
           /\ out.val.kind = d.kind /\ Readable(out.val)
<1>1. CASE d.kind = "directory"
  <2>1. out \in EncodeDirectory(d) /\ d \in Directory
    BY <1>1, TypedKinds DEF Marshal
  <2> QED
    BY <1>1, <2>1, DirectoryWritten, DirectoryReadable
<1>2. CASE d.kind = "webapp"
  <2>1. out \in EncodeWebApp(d) /\ d \in WebApp
    BY <1>2, TypedKinds DEF Marshal
  <2> QED
    BY <1>2, <2>1, WebAppWritten, WebAppReadable
<1>3. CASE d.kind = "media"
  BY <1>3 DEF Marshal, Error
<1> QED
  BY <1>1, <1>2, <1>3 DEF Typed

\* The bytes of a document, read under their type.
LEMMA ReadBackOf ==
    ASSUME NEW d, Typed(d), NEW wire, Ok(wire) \in Marshal(d),
           NEW out \in ParseMetadata(wire, TypeOf(wire.kind))
    PROVE  out = Ok(CanonicalDoc(d)) <=> Keeps(d)
<1>1. Ok(wire).val = wire /\ Ok(wire).is = "ok"
  BY DEF Ok
<1>2. d.kind \in {"directory", "webapp"} /\ wire.kind = d.kind
  BY <1>1, Marshalled
<1>3. CASE d.kind = "directory"
  <2>1. Ok(wire) \in EncodeDirectory(d)
    BY <1>3 DEF Marshal
  <2>2. d \in Directory /\ NoKeyTwice(d.directories) /\ NoKeyTwice(d.files)
    BY <1>3, TypedKinds
  <2>3. DecodeDirectory(Ok(wire).val) = Ok(CanonicalDoc(d)) <=> Keeps(d)
    BY <1>1, <2>1, <2>2, DirectoryReadBack
  <2>4. out = DecodeDirectory(wire)
    BY <1>2, <1>3, KindTypes
  <2> QED
    BY <1>1, <2>3, <2>4
<1>4. CASE d.kind = "webapp"
  <2>1. Ok(wire) \in EncodeWebApp(d)
    BY <1>4 DEF Marshal
  <2>2. d \in WebApp /\ NoKeyTwice(d.paths)
    BY <1>4, TypedKinds
  <2>3. DecodeWebApp(Ok(wire).val) = Ok(CanonicalDoc(d)) <=> Keeps(d)
    BY <2>1, <2>2, WebAppReadBack
  <2>4. out = DecodeWebApp(wire)
    BY <1>2, <1>4, KindTypes
  <2> QED
    BY <1>1, <2>3, <2>4
<1> QED
  BY <1>2, <1>3, <1>4

-----------------------------------------------------------------------------
(* Editing keeps a document one. *)

\* A typed document that this program can work on.
Edited(d) == Typed(d) /\ d.kind # "media" /\ d # None

\* A directory put together from typed parts.
LEMMA DirectoryEdited ==
    ASSUME NEW details \in {None} \cup [read : {None} \cup BOOLEAN, write : {None} \cup BOOLEAN],
           NEW directories \in References(DirectoryReference), NoKeyTwice(directories),
           NEW files \in References(FileReference), NoKeyTwice(files), NEW extra \in Extra
    PROVE  Edited([kind |-> "directory", details |-> details, directories |-> directories,
                   files |-> files, extra |-> extra])
<1>1. PICK d : d = [kind |-> "directory", details |-> details, directories |-> directories,
                    files |-> files, extra |-> extra]
  OBVIOUS
<1>2. d.kind = "directory" /\ d.directories = directories /\ d.files = files
  BY <1>1
<1>3. d \in Directory
  BY <1>1 DEF Directory
<1>4. d # None
  BY <1>3, DocumentAssumption
<1> QED
  BY <1>1, <1>2, <1>3, <1>4, TypedKinds DEF Edited

\* A web app put together from typed parts.
LEMMA WebAppEdited ==
    ASSUME NEW pages \in SUBSET ErrorCodes, NEW paths \in {None} \cup Seq(PathEntry),
           NoKeyTwice(paths), NEW extra \in Extra
    PROVE  Edited([kind |-> "webapp", errorPages |-> pages, paths |-> paths, extra |-> extra])
<1>1. PICK d : d = [kind |-> "webapp", errorPages |-> pages, paths |-> paths, extra |-> extra]
  OBVIOUS
<1>2. d.kind = "webapp" /\ d.paths = paths
  BY <1>1
<1>3. d \in WebApp
  BY <1>1 DEF WebApp
<1>4. d # None
  BY <1>3, DocumentAssumption
<1> QED
  BY <1>1, <1>2, <1>3, <1>4, TypedKinds DEF Edited

\* An assignment to a field of a document.
LEMMA DirectoryUpdated ==
    ASSUME NEW d \in Directory, NEW v
    PROVE  /\ [d EXCEPT !.details = v] = [kind |-> "directory", details |-> v,
                 directories |-> d.directories, files |-> d.files, extra |-> d.extra]
           /\ [d EXCEPT !.directories = v] = [kind |-> "directory", details |-> d.details,
                 directories |-> v, files |-> d.files, extra |-> d.extra]
           /\ [d EXCEPT !.files = v] = [kind |-> "directory", details |-> d.details,
                 directories |-> d.directories, files |-> v, extra |-> d.extra]
           /\ [d EXCEPT !.extra = v] = [kind |-> "directory", details |-> d.details,
                 directories |-> d.directories, files |-> d.files, extra |-> v]
<1>1. d = [kind |-> d.kind, details |-> d.details, directories |-> d.directories,
           files |-> d.files, extra |-> d.extra] /\ d.kind = "directory"
  BY DirectoryFields
<1> QED
  BY <1>1

\* The same for a web app.
LEMMA WebAppUpdated ==
    ASSUME NEW d \in WebApp, NEW v
    PROVE  /\ [d EXCEPT !.errorPages = v] = [kind |-> "webapp", errorPages |-> v,
                 paths |-> d.paths, extra |-> d.extra]
           /\ [d EXCEPT !.paths = v] = [kind |-> "webapp", errorPages |-> d.errorPages,
                 paths |-> v, extra |-> d.extra]
           /\ [d EXCEPT !.extra = v] = [kind |-> "webapp", errorPages |-> d.errorPages,
                 paths |-> d.paths, extra |-> v]
<1>1. d = [kind |-> d.kind, errorPages |-> d.errorPages, paths |-> d.paths, extra |-> d.extra]
      /\ d.kind = "webapp"
  BY WebAppFields
<1> QED
  BY <1>1

\* The fields of a directory, for an edit.
LEMMA DirectoryParts ==
    ASSUME NEW d, Typed(d), d.kind = "directory"
    PROVE  /\ d \in Directory
           /\ d.details \in {None} \cup [read : {None} \cup BOOLEAN, write : {None} \cup BOOLEAN]
           /\ d.directories \in References(DirectoryReference) /\ NoKeyTwice(d.directories)
           /\ d.files \in References(FileReference) /\ NoKeyTwice(d.files)
           /\ d.extra \in Extra
<1>1. d \in Directory /\ NoKeyTwice(d.directories) /\ NoKeyTwice(d.files)
  BY TypedKinds
<1>2. d.details \in {None} \cup [read : {None} \cup BOOLEAN, write : {None} \cup BOOLEAN]
  BY <1>1 DEF Directory
<1> QED
  BY <1>1, <1>2, DirectoryFields

\* Assigning a typed value to a field of a directory makes a directory.
LEMMA DirectoryChanged ==
    ASSUME NEW d, Typed(d), d.kind = "directory", NEW v
    PROVE  /\ v \in {None} \cup [read : {None} \cup BOOLEAN, write : {None} \cup BOOLEAN]
                => Edited([d EXCEPT !.details = v])
           /\ v \in References(DirectoryReference) /\ NoKeyTwice(v)
                => Edited([d EXCEPT !.directories = v])
           /\ v \in References(FileReference) /\ NoKeyTwice(v) => Edited([d EXCEPT !.files = v])
           /\ v \in Extra => Edited([d EXCEPT !.extra = v])
<1>1. PICK details, directories, files, extra :
        /\ details = d.details /\ directories = d.directories
        /\ files = d.files /\ extra = d.extra
  OBVIOUS
<1>2. /\ d \in Directory
      /\ details \in {None} \cup [read : {None} \cup BOOLEAN, write : {None} \cup BOOLEAN]
      /\ directories \in References(DirectoryReference) /\ NoKeyTwice(directories)
      /\ files \in References(FileReference) /\ NoKeyTwice(files)
      /\ extra \in Extra
  BY <1>1, DirectoryParts
<1>3. /\ [d EXCEPT !.details = v] = [kind |-> "directory", details |-> v,
            directories |-> directories, files |-> files, extra |-> extra]
      /\ [d EXCEPT !.directories = v] = [kind |-> "directory", details |-> details,
            directories |-> v, files |-> files, extra |-> extra]
      /\ [d EXCEPT !.files = v] = [kind |-> "directory", details |-> details,
            directories |-> directories, files |-> v, extra |-> extra]
      /\ [d EXCEPT !.extra = v] = [kind |-> "directory", details |-> details,
            directories |-> directories, files |-> files, extra |-> v]
  BY <1>1, <1>2, DirectoryUpdated
<1>4. v \in {None} \cup [read : {None} \cup BOOLEAN, write : {None} \cup BOOLEAN]
        => Edited([d EXCEPT !.details = v])
  BY <1>2, <1>3, DirectoryEdited
<1>5. v \in References(DirectoryReference) /\ NoKeyTwice(v) => Edited([d EXCEPT !.directories = v])
  BY <1>2, <1>3, DirectoryEdited
<1>6. v \in References(FileReference) /\ NoKeyTwice(v) => Edited([d EXCEPT !.files = v])
  BY <1>2, <1>3, DirectoryEdited
<1>7. v \in Extra => Edited([d EXCEPT !.extra = v])
  BY <1>2, <1>3, DirectoryEdited
<1> QED
  BY <1>4, <1>5, <1>6, <1>7

\* The same for a web app.
LEMMA WebAppChanged ==
    ASSUME NEW d, Typed(d), d.kind = "webapp", NEW v
    PROVE  /\ v \in SUBSET ErrorCodes => Edited([d EXCEPT !.errorPages = v])
           /\ v \in {None} \cup Seq(PathEntry) /\ NoKeyTwice(v) => Edited([d EXCEPT !.paths = v])
           /\ v \in Extra => Edited([d EXCEPT !.extra = v])
<1>1. PICK pages, paths, extra : pages = d.errorPages /\ paths = d.paths /\ extra = d.extra
  OBVIOUS
<1>2. /\ d \in WebApp /\ pages \in SUBSET ErrorCodes
      /\ paths \in {None} \cup Seq(PathEntry) /\ NoKeyTwice(paths) /\ extra \in Extra
  BY <1>1, TypedKinds, WebAppFields
<1>3. /\ [d EXCEPT !.errorPages = v] = [kind |-> "webapp", errorPages |-> v, paths |-> paths,
            extra |-> extra]
      /\ [d EXCEPT !.paths = v] = [kind |-> "webapp", errorPages |-> pages, paths |-> v,
            extra |-> extra]
      /\ [d EXCEPT !.extra = v] = [kind |-> "webapp", errorPages |-> pages, paths |-> paths,
            extra |-> v]
  BY <1>1, <1>2, WebAppUpdated
<1>4. v \in SUBSET ErrorCodes => Edited([d EXCEPT !.errorPages = v])
  <2>1. SUFFICES ASSUME v \in SUBSET ErrorCodes
                 PROVE  Edited([kind |-> "webapp", errorPages |-> v, paths |-> paths,
                                extra |-> extra])
    BY <1>3
  <2> QED
    BY <1>2, <2>1, WebAppEdited, Zenon
<1>5. v \in {None} \cup Seq(PathEntry) /\ NoKeyTwice(v) => Edited([d EXCEPT !.paths = v])
  BY <1>2, <1>3, WebAppEdited
<1>6. v \in Extra => Edited([d EXCEPT !.extra = v])
  BY <1>2, <1>3, WebAppEdited
<1> QED
  BY <1>4, <1>5, <1>6

\* Putting a reference into a map of references.
LEMMA ReferencePut ==
    ASSUME NEW Ref, NEW refs \in References(Ref), refs # None, NoKeyTwice(refs),
           NEW name \in Names, NEW ref \in Ref
    PROVE  LET put == PutReference(refs, name, ref)
           IN  put \in References(Ref) /\ NoKeyTwice(put)
<1>1. PICK S : S = [key : Names, ref : Ref, pointer : BOOLEAN]
  OBVIOUS
<1>2. PICK e : e = [key |-> name, ref |-> ref, pointer |-> TRUE]
  OBVIOUS
<1>3. e \in S
  BY <1>1, <1>2
<1>4. refs \in Seq(S)
  BY <1>1 DEF References
<1>5. Distinct(refs)
  BY DEF NoKeyTwice, Distinct
<1>6. Put(refs, e) \in Seq(S) /\ Distinct(Put(refs, e))
  BY <1>3, <1>4, <1>5, PutKeeps
<1>7. PutReference(refs, name, ref) = Put(refs, e)
  BY <1>2 DEF PutReference
<1> QED
  BY <1>1, <1>6, <1>7 DEF References, NoKeyTwice, Distinct

\* What share details become.
LEMMA DetailsShared ==
    ASSUME NEW details \in {None} \cup [read : {None} \cup BOOLEAN, write : {None} \cup BOOLEAN],
           NEW value \in BOOLEAN, NEW write \in BOOLEAN
    PROVE  SetShared(details, value, write)
             \in {None} \cup [read : {None} \cup BOOLEAN, write : {None} \cup BOOLEAN]
<1>1. PICK R : R = {None} \cup BOOLEAN
  OBVIOUS
<1>2. PICK old \in [read : R, write : R] :
        old = IF details = None THEN [read |-> None, write |-> None] ELSE details
  <2>1. None \in R
    BY <1>1
  <2>2. details = None \/ details \in [read : R, write : R]
    BY <1>1
  <2> QED
    BY <2>1, <2>2
<1>3. value \in R
  BY <1>1
<1>4. SetShared(details, value, write) =
        IF write THEN [old EXCEPT !.write = value] ELSE [old EXCEPT !.read = value]
  BY <1>2 DEF SetShared
<1>5. /\ [old EXCEPT !.write = value] \in [read : R, write : R]
      /\ [old EXCEPT !.read = value] \in [read : R, write : R]
  BY <1>3
<1> QED
  BY <1>1, <1>4, <1>5

\* One more piece of extra metadata.
LEMMA ExtraAdded ==
    ASSUME NEW extra \in Extra, NEW x \in Extensions
    PROVE  [y \in DOMAIN extra \cup {x} |->
              IF y = x THEN IF x = "updateCID" THEN "cid" ELSE "text" ELSE extra[y]] \in Extra
<1>1. PICK names \in SUBSET Extensions : extra \in [names -> {"text", "bytes", "cid"}]
  BY DEF Extra
<1>2. PICK more \in SUBSET Extensions : more = DOMAIN extra \cup {x}
  BY <1>1
<1>3. [y \in more |-> IF y = x THEN IF x = "updateCID" THEN "cid" ELSE "text" ELSE extra[y]]
        \in [more -> {"text", "bytes", "cid"}]
  BY <1>1, <1>2
<1> QED
  BY <1>2, <1>3 DEF Extra

\* Putting a path.
LEMMA PathPut ==
    ASSUME NEW paths \in Seq(PathEntry), NoKeyTwice(paths), NEW i \in DOMAIN PathOrder,
           NEW cid \in Cids
    PROVE  LET put == PutPath(paths, PathOrder[i], cid)
           IN  put \in Seq(PathEntry) /\ NoKeyTwice(put)
<1>1. paths # None
  BY DocumentAssumption
<1>2. Distinct(paths)
  BY <1>1 DEF NoKeyTwice, Distinct
<1>3. PICK e : e = [key |-> PathOrder[i], cid |-> cid]
  OBVIOUS
<1>4. cid \in CIDValues /\ PathOrder[i] \in ToSet(PathOrder)
  BY DocumentAssumption DEF ToSet
<1>5. e \in PathEntry
  BY <1>3, <1>4 DEF PathEntry
<1>6. Put(paths, e) \in Seq(PathEntry) /\ Distinct(Put(paths, e))
  BY <1>2, <1>5, PutKeeps
<1> QED
  BY <1>3, <1>6 DEF PutPath, NoKeyTwice, Distinct

\* Removing a path.
LEMMA PathRemoved ==
    ASSUME NEW paths \in Seq(PathEntry), NoKeyTwice(paths), NEW path
    PROVE  LET left == RemovePath(paths, path)
           IN  left \in Seq(PathEntry) /\ NoKeyTwice(left)
<1>1. paths # None
  BY DocumentAssumption
<1>2. PICK keep : keep = {p \in ToSet(paths) : p.key # path}
  OBVIOUS
<1>3. PICK left : left = Kept(paths, keep)
  OBVIOUS
<1>4. Injective(paths)
  BY <1>1 DEF NoKeyTwice, Injective
<1>5. left \in Seq(PathEntry) /\ ToSet(left) \subseteq ToSet(paths) /\ Injective(left)
  BY <1>3, <1>4, AllKept
<1>6. ASSUME NEW p \in ToSet(paths), NEW q \in ToSet(paths), p.key = q.key
      PROVE  p = q
  BY <1>1, <1>6 DEF NoKeyTwice, ToSet
<1>7. ASSUME NEW i \in DOMAIN left, NEW j \in DOMAIN left, left[i].key = left[j].key
      PROVE  i = j
  <2>1. left[i] \in ToSet(paths) /\ left[j] \in ToSet(paths)
    BY <1>5 DEF ToSet
  <2>2. left[i] = left[j]
    BY <1>6, <1>7, <2>1
  <2> QED
    BY <1>5, <2>2 DEF Injective
<1>8. RemovePath(paths, path) = left
  BY <1>2, <1>3 DEF RemovePath
<1> QED
  BY <1>5, <1>7, <1>8 DEF NoKeyTwice

\* A map of references that was loaded from JSON.
LEMMA ReferencesLoaded ==
    ASSUME NEW Ref, NEW refs \in References(Ref), refs # None, NoKeyTwice(refs)
    PROVE  unmarshalMapJson(refs) \in References(Ref) /\ NoKeyTwice(unmarshalMapJson(refs))
<1>1. PICK S : S = [key : Names, ref : Ref, pointer : BOOLEAN]
  OBVIOUS
<1>2. refs \in Seq(S)
  BY <1>1 DEF References
<1>3. ASSUME NEW e \in S
      PROVE  [e EXCEPT !.pointer = FALSE] \in S /\ [e EXCEPT !.pointer = FALSE].key = e.key
  BY <1>1
<1>4. PICK new : new = unmarshalMapJson(refs)
  OBVIOUS
<1>5. /\ DOMAIN new = DOMAIN refs
      /\ \A i \in DOMAIN new : new[i] = [refs[i] EXCEPT !.pointer = FALSE]
  BY <1>4 DEF unmarshalMapJson
<1>6. DOMAIN refs = 1 .. Len(refs) /\ Len(refs) \in Nat /\ \A i \in DOMAIN refs : refs[i] \in S
  BY <1>2
<1>7. \A i \in DOMAIN new : new[i] \in S /\ new[i].key = refs[i].key
  BY <1>3, <1>5, <1>6
<1>8. new = [i \in 1 .. Len(refs) |-> new[i]]
  BY <1>4, <1>6 DEF unmarshalMapJson
<1>9. new \in Seq(S)
  BY <1>5, <1>6, <1>7, <1>8
<1>10. NoKeyTwice(new)
  BY <1>5, <1>7 DEF NoKeyTwice
<1> QED
  BY <1>1, <1>4, <1>9, <1>10 DEF References

-----------------------------------------------------------------------------
(* The inductive invariant. *)

\* Nothing is downloaded or cached before there is something that can be read.
StoredInv ==
  /\ tasks \in [Tasks -> AskedTypes \cup {None}]
  /\ stored # None => Readable(stored)
  /\ \A t \in Tasks : tasks[t] # None => stored # None
  /\ cache # None => stored # None

DocInv ==
  /\ doc # None => Typed(doc)
  /\ cache # None => Typed(cache)
  /\ shared => doc = cache /\ doc # None
  /\ {shared, harmed, edited} \subseteq BOOLEAN

\* The bytes of a document of this program are one of the forms it is written in.
OriginInv == origin # None => Typed(origin) /\ Ok(stored) \in Marshal(origin)

\* What ReadBack says of the answer.
SaysBack(a, d) ==
  (d # None /\ a.honest /\ a.own) => (a.out = Ok(CanonicalDoc(d)) <=> Keeps(d))

AnswerBack == answer # None => SaysBack(answer, origin)

\* What HonestAnswers says of the answer holds of the cache, which the next
\* answer may come from.
CacheHonest ==
  (cache # None /\ ~harmed /\ ~edited) =>
    Ok(cache) \in ParseMetadata(stored, TypeOf(stored.kind))

\* Some bytes that were or may be served bear the claims of the document out.
Founded(d, published) == \E wire \in {published} \cup WrongBytes : Claims(d, wire)

CacheFounded == cache # None => Founded(cache, stored)

AnswerFounded == (answer # None /\ answer.out.is = "ok") => Founded(answer.out.val, stored)

IInv ==
  /\ StoredInv /\ DocInv /\ OriginInv /\ AnswerBack
  /\ CacheHonest /\ CacheFounded /\ HonestAnswers /\ AnswerFounded

\* Directories and web apps claim nothing of any signature.
LEMMA KindsFounded ==
    ASSUME NEW d, d.kind # "media", NEW published
    PROVE  Founded(d, published)
BY DEF Founded, Claims

\* A result that claims nothing of the bytes.
Vain(a) == ~a.honest /\ a.out.is # "ok"

\* What a caller is told of a panic, or of an error before any parsing.
LEMMA VainResults ==
    /\ Vain(Result("use", FALSE, FALSE, Panic))
    /\ Vain(Result("publish", FALSE, FALSE, Error))
    /\ \A type : Vain(Told(type, FALSE, Error))
<1>1. ASSUME NEW op, NEW own, NEW out, out.is # "ok"
      PROVE  Vain(Result(op, own, FALSE, out))
  <2>1. ~Result(op, own, FALSE, out).honest
    BY Zenon DEF Result
  <2>2. Result(op, own, FALSE, out).out = out
    BY DEF Result
  <2> QED
    BY <1>1, <2>1, <2>2 DEF Vain
<1>2. Panic.is # "ok" /\ Error.is # "ok"
  BY DEF Panic, Error
<1>3. \A type : Vain(Told(type, FALSE, Error))
  BY <1>1, <1>2 DEF Told
<1> QED
  BY <1>1, <1>2, <1>3

\* Such a result says nothing about reading back.
LEMMA VainSaysBack ==
    ASSUME NEW a, ~a.honest, NEW d
    PROVE  SaysBack(a, d)
BY DEF SaysBack

\* An edit, which the cache sees or not.
LEMMA ChangeKeeps ==
    ASSUME IInv, NEW d, Edited(d), Change(d)
    PROVE  IInv'
<1> USE DEF Change
<1>1. Typed(d) /\ d.kind # "media" /\ d # None
  BY DEF Edited
<1>2. shared \in BOOLEAN /\ (shared => doc = cache /\ doc # None)
  BY DEF IInv, DocInv
<1>3. shared => cache # None
  BY <1>2
<1>4. StoredInv'
  BY <1>3 DEF IInv, StoredInv
<1>5. DocInv'
  <2>1. doc' = d /\ (shared => cache' = d) /\ (~shared => cache' = cache)
    OBVIOUS
  <2>2. shared' = shared /\ harmed' = harmed /\ edited' = (edited \/ shared)
    OBVIOUS
  <2>3. {shared', harmed', edited'} \subseteq BOOLEAN
    BY <2>2 DEF IInv, DocInv
  <2>4. cache' # None => Typed(cache')
    BY <1>1, <1>2, <2>1 DEF IInv, DocInv
  <2> QED
    BY <1>1, <2>1, <2>2, <2>3, <2>4 DEF DocInv
<1>6. CacheHonest'
  <2>1. SUFFICES ASSUME cache' # None, ~harmed', ~edited'
                 PROVE  Ok(cache') \in ParseMetadata(stored', TypeOf(stored'.kind))
    BY DEF CacheHonest
  <2>2. ~edited /\ ~shared /\ ~harmed
    BY <2>1 DEF IInv, DocInv
  <2>3. cache' = cache /\ stored' = stored
    BY <2>2
  <2> QED
    BY <2>1, <2>2, <2>3 DEF IInv, CacheHonest
<1>7. CacheFounded'
  <2>1. Founded(d, stored)
    BY <1>1, KindsFounded
  <2>2. stored' = stored /\ (cache' = d \/ cache' = cache)
    OBVIOUS
  <2> QED
    BY <2>1, <2>2 DEF IInv, CacheFounded
<1>8. HonestAnswers'
  <2>1. ~edited' => ~edited
    BY DEF IInv, DocInv
  <2>2. answer' = answer /\ harmed' = harmed /\ stored' = stored
    OBVIOUS
  <2> QED
    BY <2>1, <2>2 DEF IInv, HonestAnswers
<1>9. AnswerFounded' /\ AnswerBack' /\ OriginInv'
  BY DEF IInv, AnswerFounded, AnswerBack, OriginInv
<1> QED
  BY <1>4, <1>5, <1>6, <1>7, <1>8, <1>9 DEF IInv

\* A panic.
LEMMA CrashKeeps ==
    ASSUME IInv, NEW told, told.out.is # "ok", SaysBack(told, origin), Crash(told)
    PROVE  IInv'
<1> USE DEF Crash
<1>1. StoredInv'
  <2>1. tasks' \in [Tasks -> AskedTypes \cup {None}] /\ \A t \in Tasks : tasks'[t] = None
    OBVIOUS
  <2> QED
    BY <2>1 DEF IInv, StoredInv
<1>2. DocInv'
  BY DEF DocInv
<1>3. CacheHonest' /\ CacheFounded' /\ HonestAnswers' /\ AnswerFounded'
  BY DEF CacheHonest, CacheFounded, HonestAnswers, AnswerFounded
<1>4. OriginInv' /\ AnswerBack'
  BY DEF IInv, OriginInv, AnswerBack
<1> QED
  BY <1>1, <1>2, <1>3, <1>4 DEF IInv

\* Publishing bytes.
LEMMA UploadKeeps ==
    ASSUME IInv, NEW wire, Readable(wire), NEW d,
           d # None => Typed(d) /\ Ok(wire) \in Marshal(d),
           \A t \in Tasks : tasks[t] = None, Upload(wire, d)
    PROVE  IInv'
<1> USE DEF Upload
<1>1. StoredInv'
  BY DEF IInv, StoredInv
<1>2. DocInv'
  BY DEF DocInv
<1>3. CacheHonest' /\ CacheFounded' /\ HonestAnswers' /\ AnswerFounded'
  BY DEF CacheHonest, CacheFounded, HonestAnswers, AnswerFounded
<1>4. OriginInv' /\ AnswerBack'
  BY DEF OriginInv, AnswerBack
<1> QED
  BY <1>1, <1>2, <1>3, <1>4 DEF IInv

\* Steps that touch the document only.
LEMMA WorkKeeps ==
    ASSUME IInv, doc' # None => Typed(doc'), shared' \in BOOLEAN,
           shared' => doc' = cache /\ doc' # None,
           UNCHANGED <<stored, origin, cache, tasks, harmed, edited>>,
           \/ answer' = answer
           \/ answer' = None
           \/ Vain(answer')
    PROVE  IInv'
<1>1. StoredInv'
  BY DEF IInv, StoredInv
<1>2. DocInv'
  BY DEF IInv, DocInv
<1>3. CacheHonest' /\ CacheFounded' /\ OriginInv'
  BY DEF IInv, CacheHonest, CacheFounded, OriginInv
<1>4. HonestAnswers' /\ AnswerFounded'
  BY DEF IInv, HonestAnswers, AnswerFounded, Vain
<1>5. AnswerBack'
  BY VainSaysBack DEF IInv, AnswerBack, Vain
<1> QED
  BY <1>1, <1>2, <1>3, <1>4, <1>5 DEF IInv

\* A caller is answered from the cache or starts a download.
LEMMA StartGetKeeps ==
    ASSUME IInv, NEW t \in Tasks, StartGet(t)
    PROVE  IInv'
<1> USE DEF StartGet
<1>1. PICK type \in AskedTypes :
        IF cache # None
        THEN /\ answer' = Told(type, FALSE, Ok(cache))
             /\ UNCHANGED tasks
        ELSE /\ tasks' = [tasks EXCEPT ![t] = type]
             /\ UNCHANGED answer
  OBVIOUS
<1>2. UNCHANGED <<doc, shared, stored, origin, cache, harmed, edited>>
  OBVIOUS
<1>3. StoredInv'
  <2>1. stored # None /\ Readable(stored)
    BY DEF IInv, StoredInv
  <2>2. tasks' \in [Tasks -> AskedTypes \cup {None}]
    BY <1>1 DEF IInv, StoredInv
  <2> QED
    BY <1>2, <2>1, <2>2 DEF StoredInv
<1>4. DocInv' /\ OriginInv'
  BY <1>2 DEF IInv, DocInv, OriginInv
<1>5. CacheHonest' /\ CacheFounded'
  BY <1>2 DEF IInv, CacheHonest, CacheFounded
<1>6. HonestAnswers' /\ AnswerFounded' /\ AnswerBack'
  <2>1. CASE cache # None
    <3>0. \A own, out : ~Result("get", own, FALSE, out).honest
      BY Zenon DEF Result
    <3>1. answer'.out = Ok(cache) /\ ~answer'.honest
      <4>1. answer' = Told(type, FALSE, Ok(cache))
        BY <1>1, <2>1
      <4>2. answer'.out = Ok(cache)
        BY <4>1 DEF Told, Result
      <4>3. ~answer'.honest
        BY <3>0, <4>1, Zenon DEF Told
      <4> QED
        BY <4>2, <4>3
    <3>2. Ok(cache).val = cache
      BY DEF Ok
    <3>3. HonestAnswers'
      BY <1>2, <2>1, <3>1 DEF IInv, CacheHonest, HonestAnswers
    <3>4. AnswerFounded'
      BY <1>2, <2>1, <3>1, <3>2 DEF IInv, CacheFounded, AnswerFounded
    <3>5. AnswerBack'
      BY <3>1, VainSaysBack DEF AnswerBack
    <3> QED
      BY <3>3, <3>4, <3>5
  <2>2. CASE cache = None
    BY <1>1, <1>2, <2>2 DEF IInv, HonestAnswers, AnswerFounded, AnswerBack
  <2> QED
    BY <2>1, <2>2
<1> QED
  BY <1>3, <1>4, <1>5, <1>6 DEF IInv

\* What a caller is told of bytes that were parsed.
LEMMA ParsedSaysBack ==
    ASSUME IInv, NEW type, NEW got, NEW out \in ParseMetadata(got, type),
           NEW told, told = out \/ (told.is # "ok" /\ out.is # "ok")
    PROVE  SaysBack(Told(type, got = stored, told), origin)
<1>1. PICK a : a = Told(type, got = stored, told)
  OBVIOUS
<1>2. /\ a.out = told
      /\ a.honest <=> got = stored
      /\ a.own <=> type = TypeOf(stored.kind)
  BY <1>1, Zenon DEF Told, Result
<1>3. SUFFICES ASSUME origin # None, a.honest, a.own
               PROVE  told = Ok(CanonicalDoc(origin)) <=> Keeps(origin)
  BY <1>1, <1>2 DEF SaysBack
<1>4. out \in ParseMetadata(stored, TypeOf(stored.kind))
  BY <1>2, <1>3
<1>5. Typed(origin) /\ Ok(stored) \in Marshal(origin)
  BY <1>3 DEF IInv, OriginInv
<1>6. out = Ok(CanonicalDoc(origin)) <=> Keeps(origin)
  BY <1>4, <1>5, ReadBackOf
<1>7. Ok(CanonicalDoc(origin)).is = "ok"
  BY DEF Ok
<1> QED
  BY <1>6, <1>7

\* A download ends: with an error, a panic, or a document that is cached.
LEMMA FinishGetKeeps ==
    ASSUME IInv, NEW t \in Tasks, FinishGet(t)
    PROVE  IInv'
<1>1. tasks[t] # None /\ stored # None /\ Readable(stored)
  BY DEF FinishGet, IInv, StoredInv
<1>2. ASSUME tasks' = [tasks EXCEPT ![t] = None], stored' = stored
      PROVE  StoredInv'
  <2>1. tasks' \in [Tasks -> AskedTypes \cup {None}]
    BY <1>2 DEF IInv, StoredInv
  <2> QED
    BY <1>1, <1>2, <2>1 DEF StoredInv
<1>3. CASE /\ tasks' = [tasks EXCEPT ![t] = None]
           /\ answer' = Told(tasks[t], FALSE, Error)
           /\ UNCHANGED <<doc, shared, stored, origin, cache, harmed, edited>>
  <2>1. StoredInv'
    BY <1>2, <1>3
  <2>2. DocInv' /\ OriginInv'
    BY <1>3 DEF IInv, DocInv, OriginInv
  <2>3. CacheHonest' /\ CacheFounded'
    BY <1>3 DEF IInv, CacheHonest, CacheFounded
  <2>4. Vain(answer')
    BY <1>3, VainResults
  <2>5. HonestAnswers' /\ AnswerFounded'
    BY <2>4 DEF HonestAnswers, AnswerFounded, Vain
  <2>6. AnswerBack'
    BY <2>4, VainSaysBack DEF AnswerBack, Vain
  <2> QED
    BY <2>1, <2>2, <2>3, <2>5, <2>6 DEF IInv
<1>4. ASSUME NEW got \in {stored} \cup WrongBytes, NEW out \in ParseMetadata(got, tasks[t]),
             out.is \in {"panic", "overrun"}, Crash(Told(tasks[t], got = stored, Panic))
      PROVE  IInv'
  <2>1. PICK told : told = Told(tasks[t], got = stored, Panic)
    OBVIOUS
  <2>2. Panic.is # "ok" /\ out.is # "ok"
    BY <1>4 DEF Panic
  <2>3. told.out.is # "ok"
    BY <2>1, <2>2 DEF Told, Result
  <2>4. PICK panic : panic = Panic
    OBVIOUS
  <2>5. SaysBack(Told(tasks[t], got = stored, panic), origin)
    BY <2>2, <2>4, ParsedSaysBack
  <2> QED
    BY <1>4, <2>1, <2>3, <2>4, <2>5, CrashKeeps
<1>5. ASSUME NEW got \in {stored} \cup WrongBytes, NEW out \in ParseMetadata(got, tasks[t]),
             tasks' = [tasks EXCEPT ![t] = None],
             answer' = Told(tasks[t], got = stored, out),
             cache' = IF out.is = "ok" THEN out.val ELSE cache,
             shared' = (shared /\ out.is # "ok"),
             harmed' = (harmed \/ got # stored),
             edited' = (edited /\ out.is # "ok"),
             UNCHANGED <<doc, stored, origin>>
      PROVE  IInv'
  <2>1. Readable(got)
    BY <1>1, MetadataInputs
  <2>2. StoredInv'
    BY <1>2, <1>5
  <2>3. answer'.out = out
    BY <1>5 DEF Told, Result
  <2>4. ~harmed' => got = stored /\ ~harmed
    BY <1>5 DEF IInv, DocInv
  <2>5. stored' = stored /\ doc' = doc /\ origin' = origin
    BY <1>5
  <2>6. {shared', harmed', edited'} \subseteq BOOLEAN
    BY <1>5 DEF IInv, DocInv
  <2>7. OriginInv' /\ AnswerBack'
    <3>1. SaysBack(answer', origin)
      BY <1>5, ParsedSaysBack
    <3> QED
      BY <2>5, <3>1 DEF IInv, OriginInv, AnswerBack
  <2>8. CASE out.is # "ok"
    <3>1. cache' = cache /\ (edited' <=> edited) /\ (shared' <=> shared)
      BY <1>5, <2>8 DEF IInv, DocInv
    <3>2. DocInv'
      BY <2>5, <2>6, <3>1 DEF IInv, DocInv
    <3>3. CacheHonest' /\ CacheFounded'
      BY <2>4, <2>5, <3>1 DEF IInv, CacheHonest, CacheFounded
    <3>4. HonestAnswers' /\ AnswerFounded'
      BY <2>3, <2>8 DEF HonestAnswers, AnswerFounded
    <3> QED
      BY <2>2, <2>7, <3>2, <3>3, <3>4 DEF IInv
  <2>9. CASE out.is = "ok"
    <3>1. /\ out = Ok(out.val)
          /\ Typed(out.val)
          /\ out \in ParseMetadata(got, TypeOf(got.kind))
          /\ Claims(out.val, got)
      BY <2>1, <2>9, Parsed
    <3>2. cache' = out.val /\ ~shared'
      BY <1>5, <2>9
    <3>3. DocInv'
      BY <2>5, <2>6, <3>1, <3>2 DEF IInv, DocInv
    <3>4. Founded(out.val, stored)
      BY <3>1 DEF Founded
    <3>5. CacheFounded' /\ AnswerFounded'
      BY <2>3, <2>5, <3>2, <3>4 DEF CacheFounded, AnswerFounded
    <3>6. CacheHonest'
      BY <2>4, <2>5, <3>1, <3>2 DEF CacheHonest
    <3>7. HonestAnswers'
      BY <2>3, <2>4, <2>5, <3>1 DEF HonestAnswers
    <3> QED
      BY <2>2, <2>7, <3>3, <3>5, <3>6, <3>7 DEF IInv
  <2> QED
    BY <2>8, <2>9
<1> QED
  BY <1>3, <1>4, <1>5 DEF FinishGet

\* The initial maps of a document.
LEMMA EmptyMaps ==
    /\ NoExtra \in Extra
    /\ \A map \in {None, <<>>} : /\ NoKeyTwice(map)
                                 /\ \A Ref : map \in References(Ref)
                                 /\ map \in {None} \cup Seq(PathEntry)
<1>1. NoExtra \in [{} -> {"text", "bytes", "cid"}]
  BY DEF NoExtra
<1>2. NoExtra \in Extra
  BY <1>1 DEF Extra
<1> QED
  BY <1>2 DEF NoKeyTwice, References

\* A new document.
LEMMA NewKeeps ==
    ASSUME IInv, NewDirectory \/ NewWebApp
    PROVE  IInv'
<1>1. ASSUME NEW d, Edited(d), Fresh, Work(d)
      PROVE  IInv'
  <2>1. Typed(doc') /\ shared' = shared
    BY <1>1 DEF Work, Edited
  <2>2. shared' \in BOOLEAN /\ ~shared
    BY <1>1, <2>1 DEF IInv, DocInv, Fresh
  <2> QED
    BY <1>1, <2>1, <2>2, WorkKeeps DEF Work
<1>2. CASE NewDirectory
  <2>1. PICK map \in {None, <<>>} :
          Work([kind |-> "directory", details |-> None, directories |-> map,
                files |-> map, extra |-> NoExtra])
    BY <1>2 DEF NewDirectory
  <2>2. PICK none : none = None
    OBVIOUS
  <2>3. none \in {None} \cup [read : {None} \cup BOOLEAN, write : {None} \cup BOOLEAN]
    BY <2>2
  <2>4. PICK extra \in Extra : extra = NoExtra
    BY EmptyMaps
  <2>5. NoKeyTwice(map) /\ \A Ref : map \in References(Ref)
    BY EmptyMaps
  <2>6. map \in References(DirectoryReference) /\ map \in References(FileReference)
    BY <2>5
  <2>7. Edited([kind |-> "directory", details |-> none, directories |-> map,
                files |-> map, extra |-> extra])
    BY <2>3, <2>5, <2>6, DirectoryEdited
  <2> QED
    BY <1>1, <1>2, <2>1, <2>2, <2>4, <2>7 DEF NewDirectory
<1>3. CASE NewWebApp
  <2>1. PICK paths \in {None, <<>>} :
          Work([kind |-> "webapp", errorPages |-> {}, paths |-> paths, extra |-> NoExtra])
    BY <1>3 DEF NewWebApp
  <2>2. PICK pages \in SUBSET ErrorCodes : pages = {}
    OBVIOUS
  <2>3. PICK extra \in Extra : extra = NoExtra
    BY EmptyMaps
  <2>4. NoKeyTwice(paths) /\ paths \in {None} \cup Seq(PathEntry)
    BY EmptyMaps
  <2>5. Edited([kind |-> "webapp", errorPages |-> pages, paths |-> paths, extra |-> extra])
    BY <2>4, WebAppEdited
  <2> QED
    BY <1>1, <1>3, <2>1, <2>2, <2>3, <2>5 DEF NewWebApp
<1> QED
  BY <1>2, <1>3

\* A panic of a step on a document.
LEMMA PanicKeeps ==
    ASSUME IInv, Crash(Result("use", FALSE, FALSE, Panic))
    PROVE  IInv'
<1>1. PICK told : told = Result("use", FALSE, FALSE, Panic)
  OBVIOUS
<1>2. Vain(told)
  BY <1>1, VainResults
<1>3. told.out.is # "ok" /\ SaysBack(told, origin)
  BY <1>2, VainSaysBack DEF Vain
<1> QED
  BY <1>1, <1>3, CrashKeeps

\* An edit of a directory.
LEMMA DirectoryEditKeeps ==
    ASSUME IInv, AddDirectory \/ AddFile \/ ShareDirectory
    PROVE  IInv'
<1>1. doc # None /\ doc.kind = "directory" /\ Typed(doc)
  BY DEF AddDirectory, AddFile, ShareDirectory, Open, IInv, DocInv
<1>2. PICK d : d = doc
  OBVIOUS
<1>3. Typed(d) /\ d.kind = "directory"
  BY <1>1, <1>2
<1>4. CASE AddDirectory
  <2>1. ASSUME NEW name \in Names, NEW ref \in DirectoryRefs, d.directories # None,
               Change([d EXCEPT !.directories = PutReference(@, name, ref)])
        PROVE  IInv'
    <3>1. PICK refs, put : refs = d.directories /\ put = PutReference(refs, name, ref)
      OBVIOUS
    <3>2. PICK Ref : Ref = DirectoryReference
      OBVIOUS
    <3>3. /\ d.directories \in References(DirectoryReference)
          /\ NoKeyTwice(d.directories)
      BY <1>3, DirectoryParts
    <3>4. ref \in Ref
      BY <3>2, DocumentAssumption
    <3>5. refs \in References(Ref) /\ refs # None /\ NoKeyTwice(refs)
      BY <2>1, <3>1, <3>2, <3>3
    <3>6. put \in References(Ref) /\ NoKeyTwice(put)
      BY <3>1, <3>4, <3>5, ReferencePut
    <3>7. PICK new : new = [d EXCEPT !.directories = put]
      OBVIOUS
    <3>8. Edited(new)
      BY <1>3, <3>2, <3>6, <3>7, DirectoryChanged
    <3>9. Change(new)
      BY <2>1, <3>1, <3>7
    <3> QED
      BY <3>8, <3>9, ChangeKeeps
  <2> QED
    BY <1>2, <1>4, <2>1, PanicKeeps DEF AddDirectory
<1>5. CASE AddFile
  <2>1. ASSUME NEW name \in Names, NEW ref \in FileRefs, d.files # None,
               Change([d EXCEPT !.files = PutReference(@, name, ref)])
        PROVE  IInv'
    <3>1. PICK refs, put : refs = d.files /\ put = PutReference(refs, name, ref)
      OBVIOUS
    <3>2. PICK Ref : Ref = FileReference
      OBVIOUS
    <3>3. /\ d.files \in References(FileReference)
          /\ NoKeyTwice(d.files)
      BY <1>3, DirectoryParts
    <3>4. ref \in Ref
      BY <3>2, DocumentAssumption
    <3>5. refs \in References(Ref) /\ refs # None /\ NoKeyTwice(refs)
      BY <2>1, <3>1, <3>2, <3>3
    <3>6. put \in References(Ref) /\ NoKeyTwice(put)
      BY <3>1, <3>4, <3>5, ReferencePut
    <3>7. PICK new : new = [d EXCEPT !.files = put]
      OBVIOUS
    <3>8. Edited(new)
      BY <1>3, <3>2, <3>6, <3>7, DirectoryChanged
    <3>9. Change(new)
      BY <2>1, <3>1, <3>7
    <3> QED
      BY <3>8, <3>9, ChangeKeeps
  <2> QED
    BY <1>2, <1>5, <2>1, PanicKeeps DEF AddFile
<1>6. CASE ShareDirectory
  <2>1. PICK value \in BOOLEAN, write \in BOOLEAN :
          Change([d EXCEPT !.details = SetShared(@, value, write)])
    BY <1>2, <1>6 DEF ShareDirectory
  <2>2. PICK details : details = SetShared(d.details, value, write)
    OBVIOUS
  <2>3. details \in {None} \cup [read : {None} \cup BOOLEAN, write : {None} \cup BOOLEAN]
    BY <1>3, <2>2, DirectoryParts, DetailsShared
  <2>4. PICK new : new = [d EXCEPT !.details = details]
    OBVIOUS
  <2>5. Edited(new)
    BY <1>3, <2>3, <2>4, DirectoryChanged
  <2>6. Change(new)
    BY <2>1, <2>2, <2>4
  <2> QED
    BY <2>5, <2>6, ChangeKeeps
<1> QED
  BY <1>4, <1>5, <1>6

\* An edit of a web app.
LEMMA WebAppEditKeeps ==
    ASSUME IInv, AddPath \/ DropPath \/ AddErrorPage
    PROVE  IInv'
<1>1. doc # None /\ doc.kind = "webapp" /\ Typed(doc)
  BY DEF AddPath, DropPath, AddErrorPage, Open, IInv, DocInv
<1>2. PICK d : d = doc
  OBVIOUS
<1>3. d \in WebApp /\ NoKeyTwice(d.paths) /\ Typed(d) /\ d.kind = "webapp"
  BY <1>1, <1>2, TypedKinds
<1>4. d.errorPages \in SUBSET ErrorCodes /\ d.paths \in {None} \cup Seq(PathEntry) /\ d.extra \in Extra
  BY <1>3, WebAppFields
<1>5. ASSUME NEW paths \in Seq(PathEntry), NoKeyTwice(paths), Change([d EXCEPT !.paths = paths])
      PROVE  IInv'
  <2>1. PICK new : new = [d EXCEPT !.paths = paths]
    OBVIOUS
  <2>2. Edited(new)
    BY <1>3, <1>5, <2>1, WebAppChanged
  <2> QED
    BY <1>5, <2>1, <2>2, ChangeKeeps
<1>6. CASE AddPath
  <2>1. ASSUME NEW i \in DOMAIN PathOrder, NEW cid \in Cids, d.paths # None,
               Change([d EXCEPT !.paths = PutPath(@, PathOrder[i], cid)])
        PROVE  IInv'
    <3>1. d.paths \in Seq(PathEntry)
      BY <1>4, <2>1
    <3>2. PICK put : put = PutPath(d.paths, PathOrder[i], cid)
      OBVIOUS
    <3>3. put \in Seq(PathEntry) /\ NoKeyTwice(put)
      BY <1>3, <3>1, <3>2, PathPut
    <3> QED
      BY <1>5, <2>1, <3>2, <3>3
  <2> QED
    BY <1>2, <1>6, <2>1, PanicKeeps DEF AddPath
<1>7. CASE DropPath
  <2>1. PICK key : d.paths # None /\ Change([d EXCEPT !.paths = RemovePath(@, key)])
    BY <1>2, <1>7 DEF DropPath
  <2>2. d.paths \in Seq(PathEntry)
    BY <1>4, <2>1
  <2>3. PICK left : left = RemovePath(d.paths, key)
    OBVIOUS
  <2>4. left \in Seq(PathEntry) /\ NoKeyTwice(left)
    BY <1>3, <2>2, <2>3, PathRemoved
  <2> QED
    BY <1>5, <2>1, <2>3, <2>4
<1>8. CASE AddErrorPage
  <2>1. PICK code \in ErrorCodes : Change([d EXCEPT !.errorPages = @ \cup {code}])
    BY <1>2, <1>8 DEF AddErrorPage
  <2>2. PICK pages \in SUBSET ErrorCodes : pages = d.errorPages \cup {code}
    BY <1>4
  <2>3. PICK new : new = [d EXCEPT !.errorPages = pages]
    OBVIOUS
  <2>4. Edited(new)
    BY <1>3, <2>3, WebAppChanged, Zenon
  <2>5. Change(new)
    BY <2>1, <2>2, <2>3
  <2> QED
    BY <2>4, <2>5, ChangeKeeps
<1> QED
  BY <1>6, <1>7, <1>8

\* Extra metadata, of a document of either kind.
LEMMA AddExtraKeeps ==
    ASSUME IInv, AddExtra
    PROVE  IInv'
<1>1. doc # None /\ doc.kind \in {"directory", "webapp"} /\ Typed(doc)
  BY DEF AddExtra, IInv, DocInv
<1>2. PICK d : d = doc
  OBVIOUS
<1>3. PICK x \in Extensions :
        Change([d EXCEPT !.extra = [y \in DOMAIN @ \cup {x} |->
                  IF y = x THEN IF x = "updateCID" THEN "cid" ELSE "text" ELSE @[y]]])
  BY <1>2 DEF AddExtra
<1>4. PICK extra : extra = [y \in DOMAIN d.extra \cup {x} |->
                      IF y = x THEN IF x = "updateCID" THEN "cid" ELSE "text" ELSE d.extra[y]]
  OBVIOUS
<1>5. PICK new : new = [d EXCEPT !.extra = extra]
  OBVIOUS
<1>6. Change(new)
  BY <1>3, <1>4, <1>5
<1>7. CASE d.kind = "directory"
  <2>1. extra \in Extra
    BY <1>1, <1>2, <1>4, <1>7, DirectoryParts, ExtraAdded
  <2>2. Edited(new)
    BY <1>1, <1>2, <1>5, <1>7, <2>1, DirectoryChanged
  <2> QED
    BY <1>6, <2>2, ChangeKeeps
<1>8. CASE d.kind = "webapp"
  <2>1. d.extra \in Extra
    BY <1>1, <1>2, <1>8, TypedKinds, WebAppFields
  <2>2. extra \in Extra
    BY <1>4, <2>1, ExtraAdded
  <2>3. Edited(new)
    BY <1>1, <1>2, <1>5, <1>8, <2>2, WebAppChanged
  <2> QED
    BY <1>6, <2>3, ChangeKeeps
<1> QED
  BY <1>1, <1>2, <1>7, <1>8

\* A directory loaded from JSON.
LEMMA LoadJSONKeeps ==
    ASSUME IInv, LoadJSON
    PROVE  IInv'
<1>1. doc # None /\ doc.kind = "directory" /\ Typed(doc) /\ stored = None
  BY DEF LoadJSON, IInv, DocInv
<1>2. cache = None
  BY <1>1 DEF IInv, StoredInv
<1>3. ~shared /\ shared' = shared
  BY <1>2 DEF IInv, DocInv, LoadJSON
<1>4. PICK d : d = doc
  OBVIOUS
<1>5. /\ d \in Directory
      /\ d.details \in {None} \cup [read : {None} \cup BOOLEAN, write : {None} \cup BOOLEAN]
      /\ d.directories \in References(DirectoryReference) /\ NoKeyTwice(d.directories)
      /\ d.files \in References(FileReference) /\ NoKeyTwice(d.files)
      /\ d.extra \in Extra
  BY <1>1, <1>4, DirectoryParts
<1>6. d.directories # None /\ d.files # None
  BY <1>4 DEF LoadJSON
<1>7. PICK directories : directories = unmarshalMapJson(d.directories)
  OBVIOUS
<1>8. PICK files : files = unmarshalMapJson(d.files)
  OBVIOUS
<1>9. /\ directories \in References(DirectoryReference) /\ NoKeyTwice(directories)
      /\ files \in References(FileReference) /\ NoKeyTwice(files)
  BY <1>5, <1>6, <1>7, <1>8, ReferencesLoaded
<1>10. doc' # None => doc' = [d EXCEPT !.directories = directories, !.files = files, !.extra = NoExtra]
  BY <1>4, <1>7, <1>8 DEF LoadJSON
<1>11. PICK one : one = [d EXCEPT !.directories = directories]
  OBVIOUS
<1>12. Typed(one) /\ one.kind = "directory"
  BY <1>1, <1>4, <1>5, <1>9, <1>11, DirectoryChanged DEF Edited, Directory
<1>13. PICK two : two = [one EXCEPT !.files = files]
  OBVIOUS
<1>14. doc' # None => Typed(doc')
  <2>1. Edited(two)
    BY <1>9, <1>12, <1>13, DirectoryChanged
  <2>2. Typed(two) /\ two.kind = "directory"
    BY <1>12, <1>13, <2>1, DirectoryParts DEF Edited
  <2>3. PICK extra \in Extra : extra = NoExtra
    BY EmptyMaps
  <2>4. Edited([two EXCEPT !.extra = extra])
    BY <2>2, <2>3, DirectoryChanged
  <2>5. doc' # None => doc' = [two EXCEPT !.extra = extra]
    BY <1>10, <1>11, <1>13, <2>3
  <2> QED
    BY <2>4, <2>5 DEF Edited
<1>15. shared' \in BOOLEAN /\ ~shared'
  BY <1>3 DEF IInv, DocInv
<1> QED
  BY <1>14, <1>15, WorkKeeps DEF LoadJSON

\* Publishing a document: its bytes, an error or a panic.
LEMMA PublishKeeps ==
    ASSUME IInv, Publish
    PROVE  IInv'
<1>1. PICK out \in Marshal(doc) :
        \/ out.is = "ok" /\ Upload(out.val, doc)
        \/ /\ out.is = "error"
           /\ doc' = None
           /\ shared' = FALSE
           /\ answer' = Result("publish", FALSE, FALSE, Error)
           /\ UNCHANGED <<stored, origin, cache, tasks, harmed, edited>>
        \/ out.is = "panic" /\ Crash(Result("use", FALSE, FALSE, Panic))
  BY DEF Publish
<1>2. CASE out.is = "ok" /\ Upload(out.val, doc)
  <2>1. Typed(doc) /\ \A t \in Tasks : tasks[t] = None
    BY DEF Publish, IInv, DocInv
  <2>2. out = Ok(out.val) /\ Readable(out.val)
    BY <1>2, <2>1, Marshalled
  <2>3. PICK wire : wire = out.val
    OBVIOUS
  <2>4. Ok(wire) \in Marshal(doc)
    BY <1>1, <2>2, <2>3
  <2> QED
    BY <1>2, <2>1, <2>2, <2>3, <2>4, UploadKeeps
<1>3. CASE /\ out.is = "error"
           /\ doc' = None
           /\ shared' = FALSE
           /\ answer' = Result("publish", FALSE, FALSE, Error)
           /\ UNCHANGED <<stored, origin, cache, tasks, harmed, edited>>
  <2>1. Vain(answer')
    BY <1>3, VainResults
  <2> QED
    BY <1>3, <2>1, WorkKeeps
<1>4. CASE out.is = "panic" /\ Crash(Result("use", FALSE, FALSE, Panic))
  BY <1>4, PanicKeeps
<1> QED
  BY <1>1, <1>2, <1>3, <1>4

-----------------------------------------------------------------------------
(* The theorems. *)

\* The inductive invariant holds from the start and across every step of the
\* program, of the tasks that read and of the servers that answer them.
THEOREM Invariance == Spec => []IInv
<1>1. Init => IInv
  BY DEF Init, IInv, StoredInv, DocInv, OriginInv, AnswerBack, CacheHonest, CacheFounded,
         HonestAnswers, AnswerFounded
<1>2. IInv /\ [Next]_vars => IInv'
  <2>1. SUFFICES ASSUME IInv, [Next]_vars PROVE IInv'
    OBVIOUS
  <2>2. CASE NewDirectory \/ NewWebApp
    BY <2>1, <2>2, NewKeeps
  <2>3. CASE AddDirectory \/ AddFile \/ ShareDirectory
    BY <2>1, <2>3, DirectoryEditKeeps
  <2>4. CASE AddPath \/ DropPath \/ AddErrorPage
    BY <2>1, <2>4, WebAppEditKeeps
  <2>5. CASE AddExtra \/ LoadJSON \/ Publish
    BY <2>1, <2>5, AddExtraKeeps, LoadJSONKeeps, PublishKeeps
  <2>6. CASE Lookup
    BY <2>1, <2>6, PanicKeeps DEF Lookup
  <2>7. CASE PublishForeign
    <3>1. PICK wire \in Foreign : Upload(wire, None)
      BY <2>7 DEF PublishForeign
    <3>2. Readable(wire)
      BY MetadataInputs
    <3>3. \A t \in Tasks : tasks[t] = None
      BY <2>1, <2>7 DEF PublishForeign, Fresh, IInv, StoredInv
    <3>4. PICK d : d = None
      OBVIOUS
    <3> QED
      BY <2>1, <3>1, <3>2, <3>3, <3>4, UploadKeeps
  <2>8. CASE TakeAnswer
    <3>1. doc' = cache /\ doc' # None /\ Typed(doc') /\ shared' \in BOOLEAN
      BY <2>1, <2>8 DEF TakeAnswer, IInv, DocInv
    <3> QED
      BY <2>1, <2>8, <3>1, WorkKeeps DEF TakeAnswer
  <2>9. CASE Forget
    BY <2>1, <2>9, WorkKeeps DEF Forget
  <2>10. CASE \E t \in Tasks : StartGet(t) \/ FinishGet(t)
    BY <2>1, <2>10, StartGetKeeps, FinishGetKeeps
  <2>11. CASE UNCHANGED vars
    <3>1. /\ doc' # None => Typed(doc')
          /\ shared' \in BOOLEAN
          /\ shared' => doc' = cache /\ doc' # None
      BY <2>1, <2>11 DEF vars, IInv, DocInv
    <3> QED
      BY <2>1, <2>11, <3>1, WorkKeeps DEF vars
  <2> QED
    BY <2>1, <2>2, <2>3, <2>4, <2>5, <2>6, <2>7, <2>8, <2>9, <2>10, <2>11 DEF Next
<1> QED
  BY <1>1, <1>2, PTL DEF Spec

\* However documents are put together, edited, loaded, published and read, and
\* whatever servers send, they keep the fields of their kind and no linked map
\* has a key twice; an edit that the cache sees too is one of the cached document.
THEOREM TypeInvariant == Spec => []TypeOK
<1>1. IInv => TypeOK
  <2>1. SUFFICES ASSUME IInv PROVE TypeOK
    OBVIOUS
  <2>2. tasks # [t \in Tasks |-> None] => stored # None
    <3>1. SUFFICES ASSUME stored = None PROVE tasks = [t \in Tasks |-> None]
      OBVIOUS
    <3>2. DOMAIN tasks = Tasks /\ tasks = [t \in Tasks |-> tasks[t]] /\ \A t \in Tasks : tasks[t] = None
      BY <2>1, <3>1 DEF IInv, StoredInv
    <3> QED
      BY <3>2
  <2>3. tasks \in [Tasks -> AskedTypes \cup {None}] /\ (cache # None => stored # None)
    BY <2>1 DEF IInv, StoredInv
  <2>4. /\ doc # None => WellTyped(doc)
        /\ cache # None => WellTyped(cache)
        /\ shared => doc = cache /\ doc # None
        /\ {harmed, edited} \subseteq BOOLEAN
    BY <2>1 DEF IInv, DocInv, Typed
  <2> QED
    BY <2>2, <2>3, <2>4 DEF TypeOK
<1> QED
  BY <1>1, Invariance, PTL

\* A directory or web app that this program published comes back as it was, from
\* its own bytes under its own type, exactly if its format can hold it: whatever
\* the documents and CIDs, and however often it was read and edited before.
THEOREM DocumentsReadBack == Spec => []ReadBack
<1>1. IInv => ReadBack
  BY DEF IInv, AnswerBack, SaysBack, ReadBack
<1> QED
  BY <1>1, Invariance, PTL

\* The bytes of a web app, hence its hash, do not depend on the order in which
\* its paths were put, and are unique exactly if the Go maps it is written from
\* have one order.
THEOREM WebAppHash == Spec => []OneHash
<1>1. IInv => OneHash
  <2>1. SUFFICES ASSUME IInv, doc # None, doc.kind = "webapp"
                 PROVE  /\ doc.paths # None =>
                             \A paths \in SetToSeqs(ToSet(doc.paths)) :
                               Marshal([doc EXCEPT !.paths = paths]) = Marshal(doc)
                        /\ Cardinality(Marshal(doc)) = 1 <=>
                             /\ Cardinality(doc.errorPages) < 2
                             /\ Cardinality(DOMAIN doc.extra \ {"updateCID"}) < 2
    BY DEF OneHash
  <2>2. doc \in WebApp
    BY <2>1, TypedKinds DEF IInv, DocInv
  <2>3. doc.paths # None =>
          \A paths \in SetToSeqs(ToSet(doc.paths)) :
            Marshal([doc EXCEPT !.paths = paths]) = Marshal(doc)
    BY <2>2, AnyOrder
  <2> QED
    BY <2>2, <2>3, OneForm
<1> QED
  BY <1>1, Invariance, PTL

\* Until a server sends something else or somebody edits the cached document,
\* every document that GetMetadataByCID hands out, from the cache or not and
\* under whatever type, is what the published bytes say under their own type.
THEOREM AnswersHonest == Spec => []HonestAnswers
<1>1. IInv => HonestAnswers
  BY DEF IInv
<1> QED
  BY <1>1, Invariance, PTL

\* A key counts as proven only if it signed the body that the document was read
\* from, however the document came to the caller and whatever servers sent; its
\* numbers are those of that body but for what intParse takes for zero.
THEOREM SignedBodiesRead == Spec => []SignedBodyRead
<1>1. IInv => SignedBodyRead
  <2>1. SUFFICES ASSUME IInv, answer # None, answer.out.is = "ok",
                        answer.out.val.kind = "media", answer.out.val.proven # {}
                 PROVE  LET d == answer.out.val
                        IN \E wire \in {w \in {stored} \cup WrongBytes : w.kind = "proof"} :
                            /\ AllSigned(d.proven, wire)
                            /\ NumbersRead(d.formats, wire.body.formats)
    BY DEF SignedBodyRead, AllSigned, NumbersRead
  <2>2. PICK wire \in {stored} \cup WrongBytes : Claims(answer.out.val, wire)
    BY <2>1 DEF IInv, AnswerFounded, Founded
  <2> QED
    BY <2>1, <2>2 DEF Claims
<1> QED
  BY <1>1, Invariance, PTL
=============================================================================
