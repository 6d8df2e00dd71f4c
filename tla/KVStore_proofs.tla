--------------------------- MODULE KVStore_proofs ---------------------------
(***************************************************************************)
(* What holds of the key-value stores for any number of callers, buckets,  *)
(* keys and values, any size of the cache and any number of late writes.   *)
(* TLC checks the same with two callers and a cache of one entry.          *)
(***************************************************************************)
EXTENDS KVStore, TLAPS, SequenceTheorems

-----------------------------------------------------------------------------
(* The LRU cache as a sequence *)

Entry == Key \X Value

\* No key has two entries.
Distinct(s) == \A i, j \in DOMAIN s : s[i][1] = s[j][1] => i = j

In(s, k, v) == \E i \in DOMAIN s : s[i] = <<k, v>>

\* The entry of a key, if there is one, is found, and is the only one.
LEMMA PlaceFinds ==
    ASSUME NEW s \in Seq(Entry), Distinct(s), NEW k
    PROVE  /\ Holds(s, k) => /\ Place(s, k) \in DOMAIN s /\ s[Place(s, k)][2] \in Value
                             /\ s[Place(s, k)] = <<k, s[Place(s, k)][2]>>
                             /\ In(s, k, s[Place(s, k)][2]) /\ k \in Key
           /\ \A v : In(s, k, v) => Holds(s, k) /\ s[Place(s, k)][2] = v
<1>1. ASSUME Holds(s, k) PROVE Place(s, k) \in DOMAIN s /\ s[Place(s, k)][1] = k
  BY <1>1 DEF Holds, Place
<1>2. \A i \in DOMAIN s : s[i] \in Key \X Value
  BY ElementOfSeq, LenProperties DEF Entry
<1>3. \A i \in DOMAIN s : s[i] = <<s[i][1], s[i][2]>> /\ s[i][1] \in Key /\ s[i][2] \in Value
  BY <1>2
<1>4. ASSUME NEW v, In(s, k, v) PROVE Holds(s, k) /\ s[Place(s, k)][2] = v
  <2>1. PICK i \in DOMAIN s : s[i] = <<k, v>>
    BY <1>4 DEF In
  <2>2. Holds(s, k)
    BY <2>1 DEF Holds
  <2>3. Place(s, k) = i
    BY <1>1, <2>1, <2>2 DEF Distinct
  <2> QED
    BY <2>1, <2>2, <2>3
<1>5. ASSUME Holds(s, k) PROVE In(s, k, s[Place(s, k)][2])
  BY <1>1, <1>3, <1>5 DEF In
<1> QED
  BY <1>1, <1>3, <1>4, <1>5

\* Remove takes out the entry of the key and leaves the others.
LEMMA WithoutOk ==
    ASSUME NEW s \in Seq(Entry), Distinct(s), NEW k
    PROVE  LET r == Without(s, k)
           IN  /\ r \in Seq(Entry) /\ Distinct(r)
               /\ Len(r) = IF Holds(s, k) THEN Len(s) - 1 ELSE Len(s)
               /\ \A j, v : In(r, j, v) <=> In(s, j, v) /\ j # k
<1> DEFINE r == Without(s, k)
           p == Place(s, k)
<1>1. /\ Len(s) \in Nat /\ DOMAIN s = 1 .. Len(s)
      /\ \A i \in DOMAIN s : s[i] \in Entry
  BY LenProperties, ElementOfSeq
<1>2. CASE ~ Holds(s, k)
  <2>1. r = s
    BY <1>2 DEF Without
  <2>2. \A j, v : In(s, j, v) => j # k
    BY <1>2 DEF In, Holds
  <2> QED
    BY <1>2, <2>1, <2>2
<1>3. CASE Holds(s, k)
  <2>1. p \in 1 .. Len(s) /\ s[p][1] = k /\ p \in Int
    BY <1>1, <1>3 DEF Holds, Place
  <2> DEFINE a == SubSeq(s, 1, p - 1)
             b == SubSeq(s, p + 1, Len(s))
  <2>2. r = a \o b
    BY <1>3 DEF Without, RemoveAt
  <2>3. /\ a \in Seq(Entry) /\ Len(a) = p - 1
        /\ \A i \in 1 .. p - 1 : a[i] = s[i]
    <3>1. \A i \in 1 .. p - 1 : s[i] \in Entry
      BY <1>1, <2>1
    <3>2. 1 \in Int /\ p - 1 \in Int
      BY <2>1
    <3> HIDE DEF p
    <3>3. /\ a \in Seq(Entry) /\ Len(a) = (IF 1 <= p - 1 THEN (p - 1) - 1 + 1 ELSE 0)
          /\ \A i \in 1 .. (p - 1) - 1 + 1 : a[i] = s[1 + i - 1]
      BY <3>1, <3>2, SubSeqProperties
    <3> HIDE DEF a
    <3> QED
      BY <1>1, <2>1, <3>2, <3>3
  <2>4. /\ b \in Seq(Entry) /\ Len(b) = Len(s) - p
        /\ \A i \in 1 .. Len(s) - p : b[i] = s[p + i]
    <3>1. \A i \in p + 1 .. Len(s) : s[i] \in Entry
      BY <1>1, <2>1
    <3>2. p + 1 \in Int /\ Len(s) \in Int
      BY <1>1, <2>1
    <3> HIDE DEF p
    <3>3. /\ b \in Seq(Entry) /\ Len(b) = (IF p + 1 <= Len(s) THEN Len(s) - (p + 1) + 1 ELSE 0)
          /\ \A i \in 1 .. Len(s) - (p + 1) + 1 : b[i] = s[(p + 1) + i - 1]
      BY <3>1, <3>2, SubSeqProperties
    <3> HIDE DEF b
    <3>4. Len(b) = Len(s) - p
      <4>1. CASE p + 1 <= Len(s)
        <5>1. Len(b) = Len(s) - (p + 1) + 1
          BY <3>3, <4>1
        <5> QED
          BY <1>1, <2>1, <5>1
      <4>2. CASE ~ (p + 1 <= Len(s))
        <5>1. Len(b) = 0
          BY <3>3, <4>2
        <5>2. p = Len(s)
          BY <1>1, <2>1, <4>2
        <5> QED
          BY <1>1, <5>1, <5>2
      <4> QED
        BY <4>1, <4>2
    <3>5. \A i \in 1 .. Len(s) - p : i \in 1 .. Len(s) - (p + 1) + 1 /\ (p + 1) + i - 1 = p + i
      BY <1>1, <2>1
    <3> QED
      BY <3>3, <3>4, <3>5
  <2> HIDE DEF a, b, p
  <2>5. /\ r \in Seq(Entry) /\ Len(r) = Len(s) - 1
        /\ \A i \in 1 .. Len(s) - 1 : r[i] = IF i < p THEN s[i] ELSE s[i + 1]
    <3>1. /\ r \in Seq(Entry) /\ Len(r) = Len(a) + Len(b)
          /\ \A i \in 1 .. Len(a) + Len(b) : r[i] = IF i <= Len(a) THEN a[i] ELSE b[i - Len(a)]
      <4>1. /\ a \o b \in Seq(Entry) /\ Len(a \o b) = Len(a) + Len(b)
            /\ \A i \in 1 .. Len(a) + Len(b) : (a \o b)[i] = IF i <= Len(a) THEN a[i] ELSE b[i - Len(a)]
        BY <2>3, <2>4, ConcatProperties
      <4> QED
        BY <2>2, <4>1
    <3> HIDE DEF r
    <3>2. ASSUME NEW i \in 1 .. Len(s) - 1 PROVE r[i] = IF i < p THEN s[i] ELSE s[i + 1]
      <4>1. CASE i < p
        <5>1. i \in 1 .. Len(a) + Len(b) /\ i <= Len(a) /\ i \in 1 .. p - 1
          BY <1>1, <2>1, <2>3, <2>4, <4>1
        <5>2. r[i] = a[i] /\ a[i] = s[i]
          BY <2>3, <3>1, <5>1
        <5> QED
          BY <4>1, <5>2
      <4>2. CASE ~ (i < p)
        <5>0. /\ i \in 1 .. Len(a) + Len(b) /\ ~ (i <= Len(a)) /\ i - Len(a) = i - (p - 1)
              /\ i - (p - 1) \in 1 .. Len(s) - p
          BY <1>1, <2>1, <2>3, <2>4, <4>2
        <5>1. r[i] = b[i - (p - 1)] /\ i - (p - 1) \in 1 .. Len(s) - p
          BY <3>1, <5>0
        <5>2. b[i - (p - 1)] = s[p + (i - (p - 1))] /\ p + (i - (p - 1)) = i + 1
          BY <1>1, <2>1, <2>4, <5>1
        <5> QED
          BY <4>2, <5>1, <5>2
      <4> QED
        BY <4>1, <4>2
    <3> QED
      BY <1>1, <2>1, <2>3, <2>4, <3>1, <3>2
  <2> HIDE DEF r
  <2>6. DOMAIN r = 1 .. Len(s) - 1
    BY <2>5, LenProperties
  <2> DEFINE from(i) == IF i < p THEN i ELSE i + 1
  <2>7. \A i \in DOMAIN r : from(i) \in DOMAIN s \ {p} /\ r[i] = s[from(i)]
    BY <1>1, <2>1, <2>5, <2>6
  <2>8. \A i \in DOMAIN s \ {p} : \E h \in DOMAIN r : r[h] = s[i]
    <3> SUFFICES ASSUME NEW i \in DOMAIN s \ {p} PROVE \E h \in DOMAIN r : r[h] = s[i]
      OBVIOUS
    <3>1. CASE i < p
      BY <1>1, <2>1, <2>5, <2>6, <3>1
    <3>2. CASE ~ (i < p)
      <4>1. i - 1 \in DOMAIN r /\ r[i - 1] = s[(i - 1) + 1] /\ (i - 1) + 1 = i
        BY <1>1, <2>1, <2>5, <2>6, <3>2
      <4> QED
        BY <4>1
    <3> QED
      BY <3>1, <3>2
  <2>9. Distinct(r)
    <3> SUFFICES ASSUME NEW i \in DOMAIN r, NEW j \in DOMAIN r, r[i][1] = r[j][1] PROVE i = j
      BY DEF Distinct
    <3>1. from(i) = from(j)
      BY <2>7 DEF Distinct
    <3> QED
      BY <1>1, <2>1, <2>6, <3>1
  <2>10. ASSUME NEW j, NEW v PROVE In(r, j, v) <=> In(s, j, v) /\ j # k
    <3> HIDE DEF from
    <3>1. ASSUME In(r, j, v) PROVE In(s, j, v) /\ j # k
      <4>1. PICK i \in DOMAIN r : r[i] = <<j, v>>
        BY <3>1 DEF In
      <4>2. from(i) \in DOMAIN s /\ from(i) # p /\ s[from(i)] = <<j, v>>
        BY <2>7, <4>1
      <4>3. j # k
        BY <1>1, <2>1, <4>2 DEF Distinct
      <4> QED
        BY <4>2, <4>3 DEF In
    <3>2. ASSUME In(s, j, v), j # k PROVE In(r, j, v)
      <4>1. PICK i \in DOMAIN s : s[i] = <<j, v>>
        BY <3>2 DEF In
      <4>2. i # p
        BY <2>1, <3>2, <4>1
      <4> QED
        BY <2>8, <4>1, <4>2 DEF In
    <3> QED
      BY <3>1, <3>2
  <2> QED
    BY <1>3, <2>5, <2>9, <2>10 DEF r
<1> QED
  BY <1>2, <1>3

\* An entry that becomes the most recent one replaces the one of its key.
LEMMA Added ==
    ASSUME NEW s \in Seq(Entry), Distinct(s), NEW k \in Key, NEW v \in Value
    PROVE  LET a == Append(Without(s, k), <<k, v>>)
           IN  /\ a \in Seq(Entry) /\ Distinct(a) /\ a[Len(a)] = <<k, v>>
               /\ Len(a) = (IF Holds(s, k) THEN Len(s) ELSE Len(s) + 1) /\ Len(a) >= 1
               /\ \A j, w : In(a, j, w) <=> IF j = k THEN w = v ELSE In(s, j, w)
<1> DEFINE r == Without(s, k)
           a == Append(r, <<k, v>>)
<1>1. /\ r \in Seq(Entry) /\ Distinct(r)
      /\ Len(r) = IF Holds(s, k) THEN Len(s) - 1 ELSE Len(s)
      /\ \A j, w : In(r, j, w) <=> In(s, j, w) /\ j # k
  BY WithoutOk
<1> HIDE DEF r
<1>2. /\ Len(s) \in Nat /\ Len(r) \in Nat /\ DOMAIN r = 1 .. Len(r)
      /\ \A i \in DOMAIN r : r[i] \in Entry
  BY <1>1, LenProperties, ElementOfSeq
<1>3. <<k, v>> \in Entry
  BY DEF Entry
<1>4. /\ a \in Seq(Entry) /\ Len(a) = Len(r) + 1 /\ a[Len(r) + 1] = <<k, v>>
      /\ \A i \in 1 .. Len(r) : a[i] = r[i]
  BY <1>1, <1>3, AppendProperties
<1> HIDE DEF a
<1>5. DOMAIN a = 1 .. Len(r) + 1
  BY <1>4, LenProperties
<1>6. \A i \in DOMAIN r : r[i][1] # k
  <2> SUFFICES ASSUME NEW i \in DOMAIN r, r[i][1] = k PROVE FALSE
    OBVIOUS
  <2>1. r[i] = <<k, r[i][2]>>
    BY <1>2 DEF Entry
  <2>2. In(r, k, r[i][2])
    BY <2>1 DEF In
  <2> QED
    BY <1>1, <2>2
<1>7. Distinct(a)
  <2> SUFFICES ASSUME NEW i \in DOMAIN a, NEW j \in DOMAIN a, a[i][1] = a[j][1] PROVE i = j
    BY DEF Distinct
  <2>1. CASE i \in DOMAIN r /\ j \in DOMAIN r
    BY <1>1, <1>2, <1>4, <2>1 DEF Distinct
  <2>2. CASE i \notin DOMAIN r /\ j \notin DOMAIN r
    BY <1>2, <1>5, <2>2
  <2>3. CASE i \in DOMAIN r /\ j \notin DOMAIN r
    <3>1. j = Len(r) + 1 /\ a[j][1] = k
      BY <1>2, <1>4, <1>5, <2>3
    <3> QED
      BY <1>2, <1>4, <1>6, <2>3, <3>1
  <2>4. CASE i \notin DOMAIN r /\ j \in DOMAIN r
    <3>1. i = Len(r) + 1 /\ a[i][1] = k
      BY <1>2, <1>4, <1>5, <2>4
    <3> QED
      BY <1>2, <1>4, <1>6, <2>4, <3>1
  <2> QED
    BY <2>1, <2>2, <2>3, <2>4
<1>8. ASSUME NEW j, NEW w PROVE In(a, j, w) <=> IF j = k THEN w = v ELSE In(s, j, w)
  <2>1. In(a, j, w) <=> In(r, j, w) \/ <<j, w>> = <<k, v>>
    <3>1. ASSUME In(a, j, w) PROVE In(r, j, w) \/ <<j, w>> = <<k, v>>
      BY <1>2, <1>4, <1>5, <3>1 DEF In
    <3>2. ASSUME In(r, j, w) PROVE In(a, j, w)
      BY <1>2, <1>4, <1>5, <3>2 DEF In
    <3>3. In(a, k, v)
      BY <1>2, <1>4, <1>5 DEF In
    <3> QED
      BY <3>1, <3>2, <3>3
  <2> QED
    BY <1>1, <2>1
<1>9. /\ Len(a) = (IF Holds(s, k) THEN Len(s) ELSE Len(s) + 1) /\ Len(a) >= 1
      /\ a[Len(a)] = <<k, v>>
  BY <1>1, <1>2, <1>4
<1> QED
  BY <1>4, <1>7, <1>8, <1>9 DEF a, r

\* Put leaves a cache of bounded size in which the key has the value, and pushes
\* out at most one other key.
LEMMA CacheAddOk ==
    ASSUME NEW s \in Seq(Entry), Distinct(s), Len(s) <= CacheSize, NEW k \in Key, NEW v \in Value
    PROVE  LET r == CacheAdd(s, k, v)
           IN  /\ r \in Seq(Entry) /\ Distinct(r) /\ Len(r) <= CacheSize
               /\ \A w : In(r, k, w) <=> w = v
               /\ \A j, w : j # k /\ In(r, j, w) => In(s, j, w)
               /\ \E o \in Key : \A j, w : j \notin {k, o} /\ In(s, j, w) => In(r, j, w)
<1> DEFINE a == Append(Without(s, k), <<k, v>>)
           r == CacheAdd(s, k, v)
<1>1. /\ a \in Seq(Entry) /\ Distinct(a) /\ a[Len(a)] = <<k, v>>
      /\ Len(a) = (IF Holds(s, k) THEN Len(s) ELSE Len(s) + 1) /\ Len(a) >= 1
      /\ \A j, w : In(a, j, w) <=> IF j = k THEN w = v ELSE In(s, j, w)
  BY Added
<1>2. r = IF Len(a) > CacheSize THEN Tail(a) ELSE a
  BY DEF CacheAdd
<1> HIDE DEF a, r
<1>3. /\ Len(s) \in Nat /\ Len(a) \in Nat /\ DOMAIN a = 1 .. Len(a) /\ a # << >>
      /\ \A i \in DOMAIN a : a[i] \in Entry
  <2>1. Len(s) \in Nat /\ Len(a) \in Nat /\ DOMAIN a = 1 .. Len(a)
    BY <1>1, LenProperties
  <2>2. a # << >>
    BY <1>1, <2>1, EmptySeq
  <2> QED
    BY <1>1, <2>1, <2>2, ElementOfSeq
<1>4. CASE ~ (Len(a) > CacheSize)
  <2>1. r = a /\ Len(r) <= CacheSize
    BY <1>2, <1>3, <1>4, KVAssumption
  <2> QED
    BY <1>1, <2>1 DEF r
<1>5. CASE Len(a) > CacheSize
  <2>1. /\ r \in Seq(Entry) /\ Len(r) = Len(a) - 1
        /\ \A i \in 1 .. Len(r) : r[i] = a[i + 1]
    BY <1>1, <1>2, <1>3, <1>5, HeadTailProperties
  <2>2. /\ DOMAIN r = 1 .. Len(a) - 1 /\ Len(r) <= CacheSize /\ Len(a) >= 2
        /\ \A i \in DOMAIN r : i + 1 \in DOMAIN a /\ r[i] = a[i + 1]
        /\ \A i \in DOMAIN a \ {1} : i - 1 \in DOMAIN r /\ r[i - 1] = a[i]
    <3>1. DOMAIN r = 1 .. Len(r)
      BY <2>1, LenProperties
    <3> QED
      BY <1>1, <1>3, <1>5, <2>1, <3>1, KVAssumption
  <2>3. Distinct(r)
    <3> SUFFICES ASSUME NEW i \in DOMAIN r, NEW j \in DOMAIN r, r[i][1] = r[j][1] PROVE i = j
      BY DEF Distinct
    <3>1. i + 1 = j + 1
      BY <1>1, <2>2 DEF Distinct
    <3> QED
      BY <1>3, <2>2, <3>1
  <2>4. \A j, w : In(r, j, w) => In(a, j, w)
    BY <2>2 DEF In
  <2>5. In(r, k, v)
    <3>1. Len(a) \in DOMAIN a \ {1}
      BY <1>3, <2>2
    <3> QED
      BY <1>1, <2>2, <3>1 DEF In
  <2>6. PICK o \in Key : a[1][1] = o
    BY <1>1, <1>3 DEF Entry
  <2>7. \A j, w : j # o /\ In(a, j, w) => In(r, j, w)
    <3> SUFFICES ASSUME NEW j, NEW w, j # o, In(a, j, w) PROVE In(r, j, w)
      OBVIOUS
    <3>1. PICK i \in DOMAIN a : a[i] = <<j, w>>
      BY DEF In
    <3>2. i # 1
      BY <2>6, <3>1
    <3> QED
      BY <2>2, <3>1, <3>2 DEF In
  <2>8. \A w : In(r, k, w) <=> w = v
    BY <1>1, <2>4, <2>5
  <2>9. \A j, w : j # k /\ In(r, j, w) => In(s, j, w)
    BY <1>1, <2>4
  <2>10. \A j, w : j \notin {k, o} /\ In(s, j, w) => In(r, j, w)
    BY <1>1, <2>7
  <2> QED
    BY <2>1, <2>2, <2>3, <2>8, <2>9, <2>10 DEF r
<1> QED
  BY <1>4, <1>5

-----------------------------------------------------------------------------
(* Types *)

CallRecord == [op : {"none", "get", "put", "delete"}, bucket : Bucket \cup {NoValue},
               key : Key \cup {NoValue}, value : Value \cup {NoValue},
               result : Value \cup {NoValue, "error"}]

\* A call c of task t that has come to label l.  It carries a value exactly when
\* it is a Put, and a Get that is to fill the cache has found one.
CallOk(t, c, l) ==
    /\ l # "idle" =>
          /\ c.op \in {"get", "put", "delete"} /\ <<c.bucket, c.key>> \in MayUse[t]
          /\ IF c.op = "put" THEN c.value \in Value ELSE c.value = NoValue
    /\ l \in {"lookup", "fill"} => c.op = "get"
    /\ l = "update" => c.op \in {"put", "delete"}
    /\ l = "fill" => c.result \in Value
    /\ l = "idle" => c = NoCall

Labels == {"idle", "lookup", "disk", "fill", "update", "done"}

CacheOk(s) == s \in Seq(Entry) /\ Len(s) <= CacheSize /\ Distinct(s)

TypeInv ==
    /\ disk \in [Bucket -> [Key -> Value \cup {NoValue}]]
    /\ CacheOk(cache)
    /\ inFlight \in SUBSET (Bucket \X Key \X (Value \cup {NoValue}))
    /\ late \in SUBSET (Bucket \X Key)
    /\ call \in [Task -> CallRecord]
    /\ pc \in [Task -> Labels]
    /\ \A t \in Task : CallOk(t, call[t], pc[t])

\* A task at work works on a pair of its own.
LEMMA AtWork ==
    ASSUME TypeInv, NEW t \in Task, pc[t] # "idle"
    PROVE  /\ call[t] \in CallRecord /\ CallOk(t, call[t], pc[t])
           /\ call[t].bucket \in Bucket /\ call[t].key \in Key
           /\ <<call[t].bucket, call[t].key>> \in MayUse[t]
           /\ disk[call[t].bucket][call[t].key] \in Value \cup {NoValue}
<1>1. call[t] \in CallRecord /\ CallOk(t, call[t], pc[t])
  BY DEF TypeInv
<1>2. <<call[t].bucket, call[t].key>> \in MayUse[t]
  BY <1>1 DEF CallOk
<1>3. <<call[t].bucket, call[t].key>> \in Bucket \X Key
  BY <1>2, KVAssumption
<1>4. call[t].bucket \in Bucket /\ call[t].key \in Key
  BY <1>3
<1> QED
  BY <1>1, <1>2, <1>4 DEF TypeInv

\* Task t goes on at label l with the call c.
LEMMA TypeKept ==
    ASSUME TypeInv, NEW t \in Task, NEW c \in CallRecord, NEW l \in Labels, CallOk(t, c, l),
           call' = [call EXCEPT ![t] = c], pc' = [pc EXCEPT ![t] = l],
           disk' \in [Bucket -> [Key -> Value \cup {NoValue}]], CacheOk(cache'),
           inFlight' \in SUBSET (Bucket \X Key \X (Value \cup {NoValue})),
           late' \in SUBSET (Bucket \X Key)
    PROVE  TypeInv'
<1>1. \A u \in Task \ {t} : call'[u] = call[u] /\ pc'[u] = pc[u]
  BY DEF TypeInv
<1>2. call'[t] = c /\ pc'[t] = l
  BY DEF TypeInv
<1>3. \A u \in Task : CallOk(u, call'[u], pc'[u])
  BY <1>1, <1>2 DEF TypeInv
<1>4. call' \in [Task -> CallRecord] /\ pc' \in [Task -> Labels]
  BY DEF TypeInv
<1> QED
  BY <1>3, <1>4 DEF TypeInv, CacheOk, CallOk

\* The results of a call.
LEMMA WithResult ==
    ASSUME TypeInv, NEW t \in Task, NEW v \in Value \cup {NoValue, "error"},
           call' = [call EXCEPT ![t].result = v]
    PROVE  \E c \in CallRecord :
             /\ call' = [call EXCEPT ![t] = c]
             /\ c.op = call[t].op /\ c.bucket = call[t].bucket /\ c.key = call[t].key
             /\ c.value = call[t].value /\ c.result = v
<1> DEFINE c == [call[t] EXCEPT !.result = v]
<1>1. call \in [Task -> CallRecord] /\ call[t] \in CallRecord
  BY DEF TypeInv
<1>2. c \in CallRecord
  BY <1>1 DEF CallRecord
<1>3. /\ c.op = call[t].op /\ c.bucket = call[t].bucket /\ c.key = call[t].key
      /\ c.value = call[t].value /\ c.result = v
  BY <1>1 DEF CallRecord
<1>4. call' = [call EXCEPT ![t] = c]
  BY <1>1
<1> HIDE DEF c
<1> QED
  BY <1>2, <1>3, <1>4

\* A call that stays as it is.
LEMMA SameCall ==
    ASSUME TypeInv, NEW t \in Task, UNCHANGED call
    PROVE  call[t] \in CallRecord /\ call' = [call EXCEPT ![t] = call[t]]
BY DEF TypeInv

\* A new call.
LEMMA BeginTyped ==
    ASSUME TypeInv, NEW t \in Task, NEW u \in MayUse[t], NEW o \in {"get", "put", "delete"},
           NEW v \in Value \cup {NoValue}, IF o = "put" THEN v \in Value ELSE v = NoValue,
           Begin(t, o, u[1], u[2], v)
    PROVE  TypeInv'
<1> DEFINE c == [op |-> o, bucket |-> u[1], key |-> u[2], value |-> v, result |-> NoValue]
           l == IF o = "get" THEN "lookup" ELSE "disk"
<1>1. u \in Bucket \X Key
  BY KVAssumption
<1>2. u = <<u[1], u[2]>> /\ u[1] \in Bucket /\ u[2] \in Key
  BY <1>1
<1>3. c \in CallRecord
  BY <1>2 DEF CallRecord
<1>4. CallOk(t, c, l) /\ l \in Labels
  BY <1>2 DEF CallOk, Labels
<1>5. /\ call' = [call EXCEPT ![t] = c] /\ pc' = [pc EXCEPT ![t] = l]
      /\ UNCHANGED <<disk, cache, inFlight, late>>
  BY DEF Begin, Goto, history
<1> HIDE DEF c, l
<1>6. /\ disk' \in [Bucket -> [Key -> Value \cup {NoValue}]] /\ CacheOk(cache')
      /\ inFlight' \in SUBSET (Bucket \X Key \X (Value \cup {NoValue}))
      /\ late' \in SUBSET (Bucket \X Key)
  BY <1>5 DEF TypeInv
<1> QED
  BY <1>3, <1>4, <1>5, <1>6, TypeKept

\* What a hit does to the cache: the same entries in another order.
LEMMA HitOk ==
    ASSUME TypeInv, NEW k, Holds(cache, k)
    PROVE  /\ k \in Key /\ Cached(k) \in Value /\ In(cache, k, Cached(k))
           /\ LET r == Append(Without(cache, k), <<k, Cached(k)>>)
              IN  CacheOk(r) /\ \A j, w : In(r, j, w) <=> In(cache, j, w)
<1>1. cache \in Seq(Entry) /\ Distinct(cache) /\ Len(cache) <= CacheSize
  BY DEF TypeInv, CacheOk
<1>2. k \in Key /\ Cached(k) \in Value /\ In(cache, k, Cached(k))
  BY <1>1, PlaceFinds DEF Cached
<1>3. \A w : In(cache, k, w) <=> w = Cached(k)
  BY <1>1, <1>2, PlaceFinds DEF Cached
<1> DEFINE r == Append(Without(cache, k), <<k, Cached(k)>>)
<1>4. /\ r \in Seq(Entry) /\ Distinct(r) /\ Len(r) = Len(cache)
      /\ \A j, w : In(r, j, w) <=> IF j = k THEN w = Cached(k) ELSE In(cache, j, w)
  BY <1>1, <1>2, Added
<1> HIDE DEF r
<1>5. CacheOk(r) /\ \A j, w : In(r, j, w) <=> In(cache, j, w)
  BY <1>1, <1>3, <1>4 DEF CacheOk
<1> QED
  BY <1>2, <1>5 DEF r

\* What a fill or a Put does to it.
LEMMA PutOk ==
    ASSUME TypeInv, NEW k \in Key, NEW v \in Value
    PROVE  LET r == CacheAdd(cache, k, v)
           IN  /\ CacheOk(r)
               /\ \A w : In(r, k, w) <=> w = v
               /\ \A j, w : j # k /\ In(r, j, w) => In(cache, j, w)
               /\ \E o \in Key : \A j, w : j \notin {k, o} /\ In(cache, j, w) => In(r, j, w)
<1>1. cache \in Seq(Entry) /\ Distinct(cache) /\ Len(cache) <= CacheSize
  BY DEF TypeInv, CacheOk
<1> QED
  BY <1>1, CacheAddOk DEF CacheOk

\* What a Delete does to it.
LEMMA RemoveOk ==
    ASSUME TypeInv, NEW k
    PROVE  LET r == Without(cache, k)
           IN  CacheOk(r) /\ \A j, w : In(r, j, w) <=> In(cache, j, w) /\ j # k
<1>1. cache \in Seq(Entry) /\ Distinct(cache) /\ Len(cache) <= CacheSize /\ Len(cache) \in Nat
  BY LenProperties DEF TypeInv, CacheOk
<1> DEFINE r == Without(cache, k)
<1>2. /\ r \in Seq(Entry) /\ Distinct(r)
      /\ Len(r) = IF Holds(cache, k) THEN Len(cache) - 1 ELSE Len(cache)
      /\ \A j, v : In(r, j, v) <=> In(cache, j, v) /\ j # k
  BY <1>1, WithoutOk
<1> HIDE DEF r
<1>3. Len(r) <= CacheSize
  BY <1>1, <1>2, KVAssumption
<1> QED
  BY <1>2, <1>3 DEF CacheOk, r

\* The steps of a call preserve the types.
LEMMA StepTyped == ASSUME TypeInv, NEW t \in Task, Step(t) PROVE TypeInv'
<1>1. /\ disk \in [Bucket -> [Key -> Value \cup {NoValue}]] /\ CacheOk(cache)
      /\ inFlight \in SUBSET (Bucket \X Key \X (Value \cup {NoValue}))
      /\ late \in SUBSET (Bucket \X Key)
  BY DEF TypeInv
<1>2. pc[t] # "idle"
  BY DEF Step, Lookup, DiskGet, Fill, DiskWrite, DiskFails, TimesOut, CacheUpdate, Return
<1> DEFINE b == call[t].bucket
           k == call[t].key
<1>3. /\ call[t] \in CallRecord /\ CallOk(t, call[t], pc[t])
      /\ b \in Bucket /\ k \in Key /\ <<b, k>> \in MayUse[t]
      /\ disk[b][k] \in Value \cup {NoValue}
  BY <1>2, AtWork
<1>4. CASE Lookup(t)
  <2>1. CASE ~ Holds(cache, k)
    <3>1. UNCHANGED call /\ pc' = [pc EXCEPT ![t] = "disk"] /\ UNCHANGED <<disk, cache, inFlight, late>>
      BY <1>4, <2>1 DEF Lookup, Goto, history
    <3>2. CallOk(t, call[t], "disk") /\ "disk" \in Labels
      BY <1>2, <1>3 DEF CallOk, Labels
    <3> QED
      BY <1>1, <3>1, <3>2, SameCall, TypeKept
  <2>2. CASE Holds(cache, k)
    <3>1. /\ Cached(k) \in Value
          /\ CacheOk(Append(Without(cache, k), <<k, Cached(k)>>))
      BY <2>2, HitOk
    <3>2. /\ call' = [call EXCEPT ![t].result = Cached(k)] /\ pc' = [pc EXCEPT ![t] = "done"]
          /\ cache' = Append(Without(cache, k), <<k, Cached(k)>>)
          /\ UNCHANGED <<disk, inFlight, late>>
      BY <1>4, <2>2 DEF Lookup, Goto, history
    <3>3. PICK c \in CallRecord :
             /\ call' = [call EXCEPT ![t] = c]
             /\ c.op = call[t].op /\ c.bucket = b /\ c.key = k /\ c.value = call[t].value
      BY <3>1, <3>2, WithResult
    <3>4. CallOk(t, c, "done") /\ "done" \in Labels /\ CacheOk(cache')
      BY <1>2, <1>3, <3>1, <3>2, <3>3 DEF CallOk, Labels
    <3> QED
      BY <1>1, <3>2, <3>3, <3>4, TypeKept
  <2> QED
    BY <2>1, <2>2
<1>5. CASE DiskGet(t)
  <2> DEFINE v == disk[b][k]
             l == IF v = NoValue THEN "done" ELSE "fill"
  <2>1. /\ call' = [call EXCEPT ![t].result = v] /\ pc' = [pc EXCEPT ![t] = l]
        /\ UNCHANGED <<disk, cache, inFlight, late>> /\ call[t].op = "get"
        /\ v \in Value \cup {NoValue, "error"}
    BY <1>3, <1>5 DEF DiskGet, Goto, history
  <2>2. PICK c \in CallRecord :
           /\ call' = [call EXCEPT ![t] = c] /\ c.result = v
           /\ c.op = call[t].op /\ c.bucket = b /\ c.key = k /\ c.value = call[t].value
    <3>1. v \in Value \cup {NoValue, "error"} /\ call' = [call EXCEPT ![t].result = v]
      BY <2>1
    <3> HIDE DEF v, l, b, k
    <3>2. \E c \in CallRecord :
             /\ call' = [call EXCEPT ![t] = c]
             /\ c.op = call[t].op /\ c.bucket = call[t].bucket /\ c.key = call[t].key
             /\ c.value = call[t].value /\ c.result = v
      BY <3>1, WithResult
    <3> QED
      BY <3>2 DEF b, k
  <2>3. CallOk(t, c, l) /\ l \in Labels
    BY <1>2, <1>3, <2>1, <2>2 DEF CallOk, Labels
  <2> HIDE DEF l
  <2> QED
    BY <1>1, <2>1, <2>2, <2>3, TypeKept
<1>6. CASE Fill(t)
  <2>1. /\ UNCHANGED call /\ pc' = [pc EXCEPT ![t] = "done"] /\ UNCHANGED <<disk, inFlight, late>>
        /\ cache' = CacheAdd(cache, k, call[t].result) /\ call[t].result \in Value
    BY <1>3, <1>6 DEF Fill, Goto, CallOk
  <2>2. CallOk(t, call[t], "done") /\ "done" \in Labels /\ CacheOk(cache')
    BY <1>2, <1>3, <2>1, PutOk DEF CallOk, Labels
  <2> QED
    BY <1>1, <2>1, <2>2, SameCall, TypeKept
<1>7. CASE DiskWrite(t)
  <2>1. /\ UNCHANGED call /\ pc' = [pc EXCEPT ![t] = "update"] /\ UNCHANGED <<cache, inFlight>>
        /\ disk' = [disk EXCEPT ![b][k] = call[t].value] /\ late' = late \ {<<b, k>>}
    BY <1>7 DEF DiskWrite, Goto, Pair
  <2>2. CallOk(t, call[t], "update") /\ "update" \in Labels
    BY <1>2, <1>3, <1>7 DEF CallOk, Labels, DiskWrite
  <2>3. call[t].value \in Value \cup {NoValue}
    BY <1>3 DEF CallRecord
  <2>4. disk' \in [Bucket -> [Key -> Value \cup {NoValue}]]
    BY <1>1, <1>3, <2>1, <2>3
  <2> QED
    BY <1>1, <2>1, <2>2, <2>4, SameCall, TypeKept
<1>8. CASE DiskFails(t) \/ TimesOut(t)
  <2>1. /\ call' = [call EXCEPT ![t].result = "error"] /\ pc' = [pc EXCEPT ![t] = "done"]
        /\ UNCHANGED <<disk, cache, late>>
    BY <1>8 DEF DiskFails, TimesOut, Goto, history
  <2>2. PICK c \in CallRecord :
           /\ call' = [call EXCEPT ![t] = c]
           /\ c.op = call[t].op /\ c.bucket = b /\ c.key = k /\ c.value = call[t].value
    BY <2>1, WithResult
  <2>3. CallOk(t, c, "done") /\ "done" \in Labels
    BY <1>2, <1>3, <2>2 DEF CallOk, Labels
  <2>4. inFlight' \in SUBSET (Bucket \X Key \X (Value \cup {NoValue}))
    <3>1. call[t].value \in Value \cup {NoValue}
      BY <1>3 DEF CallRecord
    <3>2. <<b, k, call[t].value>> \in Bucket \X Key \X (Value \cup {NoValue})
      BY <1>3, <3>1
    <3> QED
      BY <1>1, <1>8, <3>2 DEF DiskFails, TimesOut, history
  <2> QED
    BY <1>1, <2>1, <2>2, <2>3, <2>4, TypeKept
<1>9. CASE CacheUpdate(t)
  <2>1. /\ UNCHANGED call /\ pc' = [pc EXCEPT ![t] = "done"] /\ UNCHANGED <<disk, inFlight, late>>
        /\ cache' = IF call[t].op = "put" THEN CacheAdd(cache, k, call[t].value)
                                          ELSE Without(cache, k)
    BY <1>9 DEF CacheUpdate, Goto
  <2>2. CallOk(t, call[t], "done") /\ "done" \in Labels
    BY <1>2, <1>3 DEF CallOk, Labels
  <2>3. CacheOk(cache')
    <3>1. CASE call[t].op = "put"
      BY <1>2, <1>3, <2>1, <3>1, PutOk DEF CallOk
    <3>2. CASE call[t].op # "put"
      BY <2>1, <3>2, RemoveOk
    <3> QED
      BY <3>1, <3>2
  <2> QED
    BY <1>1, <2>1, <2>2, <2>3, SameCall, TypeKept
<1>10. CASE Return(t)
  <2>1. /\ call' = [call EXCEPT ![t] = NoCall] /\ pc' = [pc EXCEPT ![t] = "idle"]
        /\ UNCHANGED <<disk, cache, inFlight, late>>
    BY <1>10 DEF Return, Goto, history
  <2>2. NoCall \in CallRecord
    BY DEF NoCall, CallRecord
  <2>3. CallOk(t, NoCall, "idle") /\ "idle" \in Labels
    BY DEF CallOk, Labels
  <2> QED
    BY <1>1, <2>1, <2>2, <2>3, TypeKept
<1> QED
  BY <1>4, <1>5, <1>6, <1>7, <1>8, <1>9, <1>10 DEF Step

LEMMA InitTyped == Init => TypeInv
<1> SUFFICES ASSUME Init PROVE TypeInv
  OBVIOUS
<1>1. NoCall \in CallRecord
  BY DEF NoCall, CallRecord
<1>2. call \in [Task -> CallRecord] /\ pc \in [Task -> Labels]
  BY <1>1 DEF Init, Labels
<1>3. \A t \in Task : CallOk(t, call[t], pc[t])
  BY DEF Init, CallOk
<1>4. CacheOk(cache)
  <2>1. cache = << >> /\ cache \in Seq(Entry) /\ Len(cache) = 0 /\ DOMAIN cache = 1 .. 0
    BY EmptySeq, LenProperties DEF Init
  <2> QED
    BY <2>1, KVAssumption DEF CacheOk, Distinct
<1>5. disk \in [Bucket -> [Key -> Value \cup {NoValue}]]
  BY DEF Init
<1> QED
  BY <1>2, <1>3, <1>4, <1>5 DEF Init, TypeInv

LEMMA NextTyped == TypeInv /\ [Next]_vars => TypeInv'
<1> SUFFICES ASSUME TypeInv, [Next]_vars PROVE TypeInv'
  OBVIOUS
<1>1. CASE UNCHANGED vars
  BY <1>1 DEF TypeInv, CacheOk, CallOk, vars, history
<1>2. ASSUME NEW t \in Task, NEW u \in MayUse[t], NEW v \in Value, Begin(t, "put", u[1], u[2], v)
      PROVE  TypeInv'
  BY <1>2, BeginTyped
<1>3. ASSUME NEW t \in Task, NEW u \in MayUse[t], NEW o \in {"get", "delete"},
             Begin(t, o, u[1], u[2], NoValue)
      PROVE  TypeInv'
  BY <1>3, BeginTyped
<1>4. ASSUME NEW w \in inFlight, Applied(w) PROVE TypeInv'
  <2>1. w[1] \in Bucket /\ w[2] \in Key /\ w[3] \in Value \cup {NoValue}
    BY DEF TypeInv
  <2>2. disk' \in [Bucket -> [Key -> Value \cup {NoValue}]]
    BY <1>4, <2>1 DEF TypeInv, Applied
  <2>3. late' \in SUBSET (Bucket \X Key)
    BY <1>4, <2>1 DEF TypeInv, Applied
  <2> QED
    BY <1>4, <2>2, <2>3 DEF TypeInv, Applied, CacheOk, CallOk
<1> QED
  BY <1>1, <1>2, <1>3, <1>4, StepTyped DEF Next

LEMMA Typed == Spec => []TypeInv
BY InitTyped, NextTyped, PTL DEF Spec

\* Only a call that is between its steps can be overtaken.
HistoryInv ==
    /\ outdated \in SUBSET (Bucket \X Key)
    /\ \A t \in overtaken : t \in Task /\ pc[t] \in {"fill", "update"}

LEMMA StepHistory == ASSUME TypeInv, HistoryInv, NEW t \in Task, Step(t) PROVE HistoryInv'
<1>1. pc[t] # "idle" /\ pc \in [Task -> Labels]
  BY DEF TypeInv, Step, Lookup, DiskGet, Fill, DiskWrite, DiskFails, TimesOut, CacheUpdate, Return
<1>2. Pair(t) \in Bucket \X Key
  BY <1>1, AtWork DEF Pair
<1>3. CASE Lookup(t) \/ DiskGet(t) \/ DiskFails(t) \/ TimesOut(t) \/ Return(t)
  <2>1. pc[t] \notin {"fill", "update"} /\ UNCHANGED <<overtaken, outdated>>
    BY <1>3 DEF Lookup, DiskGet, DiskFails, TimesOut, Return, history
  <2>2. \A u \in Task \ {t} : pc'[u] = pc[u]
    BY <1>1, <1>3 DEF Lookup, DiskGet, DiskFails, TimesOut, Return, Goto
  <2> QED
    BY <2>1, <2>2 DEF HistoryInv
<1>4. CASE Fill(t) \/ CacheUpdate(t)
  <2>1. /\ overtaken' = overtaken \ {t} /\ outdated' \subseteq outdated \cup {Pair(t)}
        /\ \A u \in Task \ {t} : pc'[u] = pc[u]
    BY <1>1, <1>4 DEF Fill, CacheUpdate, ReachesCache, Goto
  <2> QED
    BY <1>2, <2>1 DEF HistoryInv
<1>5. CASE DiskWrite(t)
  <2>1. /\ overtaken' \subseteq overtaken \cup {u \in Task : pc[u] \in {"fill", "update"}}
        /\ pc[t] = "disk" /\ outdated' = outdated
        /\ \A u \in Task \ {t} : pc'[u] = pc[u]
    BY <1>1, <1>5 DEF DiskWrite, Goto
  <2> QED
    BY <2>1 DEF HistoryInv
<1> QED
  BY <1>3, <1>4, <1>5 DEF Step

LEMMA History == Spec => []HistoryInv
<1>1. Init => HistoryInv
  BY DEF Init, HistoryInv
<1>2. ASSUME TypeInv, HistoryInv, [Next]_vars PROVE HistoryInv'
  <2>1. CASE UNCHANGED vars
    BY <1>2, <2>1 DEF HistoryInv, vars, history
  <2>2. ASSUME NEW t \in Task, NEW o, NEW b, NEW k, NEW v, Begin(t, o, b, k, v) PROVE HistoryInv'
    <3>1. /\ pc[t] = "idle" /\ UNCHANGED <<overtaken, outdated>>
          /\ \A u \in Task \ {t} : pc'[u] = pc[u]
      BY <1>2, <2>2 DEF Begin, Goto, history, TypeInv
    <3> QED
      BY <1>2, <3>1 DEF HistoryInv
  <2>3. ASSUME NEW w \in inFlight, Applied(w) PROVE HistoryInv'
    BY <1>2, <2>3 DEF HistoryInv, Applied
  <2> QED
    BY <1>2, <2>1, <2>2, <2>3, StepHistory DEF Next
<1> QED
  BY <1>1, <1>2, Typed, PTL DEF Spec

\* Whoever shares keys with whom, the cache stays within its size and has one
\* entry for a key, and calls are well formed.
THEOREM TypeCorrect == Spec => []TypeOK
<1>1. TypeInv /\ HistoryInv => TypeOK
  <2> SUFFICES ASSUME TypeInv, HistoryInv PROVE TypeOK
    OBVIOUS
  <2>1. \A t \in Task : pc[t] # "idle" => /\ call[t].op \in {"get", "put", "delete"}
                                         /\ Pair(t) \in MayUse[t]
    BY DEF TypeInv, CallOk, Pair
  <2>2. /\ cache \in Seq(Key \X Value) /\ Len(cache) <= CacheSize
        /\ \A i, j \in DOMAIN cache : cache[i][1] = cache[j][1] => i = j
    BY DEF TypeInv, CacheOk, Entry, Distinct
  <2>3. overtaken \in SUBSET {t \in Task : pc[t] \in {"fill", "update"}}
    BY DEF HistoryInv
  <2> QED
    BY <2>1, <2>2, <2>3 DEF TypeInv, HistoryInv, TypeOK, Labels
<1> QED
  BY <1>1, Typed, History, PTL

-----------------------------------------------------------------------------
(* The cache and the database *)

\* The database has v, or a write that had timed out has changed it since.
Current(x, v) == disk[x[1]][x[2]] = v \/ x \in late

\* The last call that wrote the pair has yet to reach the cache.
Awaited(x) == \E t \in Task \ overtaken : pc[t] = "update" /\ Pair(t) = x

\* A value on its way to the cache is current unless its call was overtaken; one
\* in the cache is, unless such a call left it or it waits for the last writer;
\* and where a Get has missed a key that only its caller uses, it stays missing.
FreshInv ==
    /\ \A t \in Task \ overtaken :
          /\ pc[t] = "fill" => Current(Pair(t), call[t].result)
          /\ pc[t] = "update" => Current(Pair(t), call[t].value)
    /\ \A x \in SoleBucket : \A v :
          In(cache, x[2], v) => Current(x, v) \/ x \in outdated \/ Awaited(x)
    /\ \A t \in Task :
          pc[t] = "disk" /\ call[t].op = "get" /\ Pair(t) \in OwnPairs
          => \A v : ~ In(cache, call[t].key, v)

\* Task t goes on at label l with the call c, on the pair q.
Moves(t, q, c, l) ==
    /\ call' = [call EXCEPT ![t] = c] /\ pc' = [pc EXCEPT ![t] = l]
    /\ <<c.bucket, c.key>> = q \/ l = "idle"
    /\ pc[t] = "idle" \/ Pair(t) = q
    /\ \A x \in Bucket \X Key :
          x # q => disk'[x[1]][x[2]] = disk[x[1]][x[2]] /\ (x \in late' <=> x \in late)
    /\ \A j, w : j # q[2] /\ In(cache', j, w) => In(cache, j, w)

\* What it does to the histories: nothing to other calls than those it overtakes,
\* which are on the same pair, and then all of them.
Overtakes(t, q) ==
    /\ \A u \in Task \ {t} :
          /\ u \in overtaken => u \in overtaken'
          /\ u \in overtaken' => u \in overtaken \/ Pair(u) = q
          /\ u \notin overtaken' /\ pc[u] \in {"fill", "update"} /\ Pair(u) = q
             => disk'[q[1]][q[2]] = disk[q[1]][q[2]] /\ (q \in late' <=> q \in late)
    /\ \A x \in Bucket \X Key : x # q /\ x \in outdated => x \in outdated'

\* Bare keys that differ from the one of q.
LEMMA OtherKeys ==
    ASSUME NEW t \in Task, NEW q \in MayUse[t]
    PROVE  /\ q \in Bucket \X Key /\ q = <<q[1], q[2]>>
           /\ \A x \in SoleBucket : x \in Bucket \X Key /\ (x # q => x[2] # q[2])
           /\ \A u \in Task : \A x \in MayUse[u] \cap OwnPairs : u # t \/ x # q => x[2] # q[2]
           /\ OwnPairs \subseteq SoleBucket
<1>1. \A u \in Task : MayUse[u] \subseteq Bucket \X Key
  BY KVAssumption
<1>2. \A x \in SoleBucket : x \in Bucket \X Key /\ (x # q => x[2] # q[2])
  BY <1>1 DEF SoleBucket
<1>3. \A u \in Task : \A x \in MayUse[u] \cap OwnPairs : u # t \/ x # q => x[2] # q[2]
  BY <1>2 DEF OwnPairs
<1> QED
  BY <1>1, <1>2, <1>3 DEF OwnPairs

\* Only what t does to its own pair has to be looked at.
LEMMA FreshKept ==
    ASSUME TypeInv, FreshInv, NEW t \in Task, NEW q, NEW c, NEW l, q \in MayUse[t],
           Moves(t, q, c, l), Overtakes(t, q),
           t \notin overtaken' /\ l = "fill" => disk'[q[1]][q[2]] = c.result \/ q \in late',
           t \notin overtaken' /\ l = "update" => disk'[q[1]][q[2]] = c.value \/ q \in late',
           l = "disk" /\ c.op = "get" => \A v : ~ In(cache', q[2], v),
           q \in SoleBucket => \A v : In(cache', q[2], v) =>
               disk'[q[1]][q[2]] = v \/ q \in late' \/ q \in outdated' \/ Awaited(q)'
    PROVE  FreshInv'
<1>1. /\ call'[t] = c /\ pc'[t] = l
      /\ \A u \in Task \ {t} : call'[u] = call[u] /\ pc'[u] = pc[u] /\ Pair(u)' = Pair(u)
      /\ l # "idle" => c.bucket = q[1] /\ c.key = q[2] /\ Pair(t)' = q
  BY DEF TypeInv, Moves, Pair
<1>2. /\ q \in Bucket \X Key
      /\ \A x \in SoleBucket : x \in Bucket \X Key /\ (x # q => x[2] # q[2])
      /\ \A u \in Task : \A x \in MayUse[u] \cap OwnPairs : u # t \/ x # q => x[2] # q[2]
  BY OtherKeys
<1>3. /\ \A x \in Bucket \X Key : x # q => disk'[x[1]][x[2]] = disk[x[1]][x[2]]
      /\ \A x \in Bucket \X Key : x # q => (x \in late' <=> x \in late)
  BY DEF Moves
<1>4. ASSUME NEW u \in Task, u \notin overtaken'
      PROVE  /\ pc'[u] = "fill" => Current(Pair(u), call[u].result)'
             /\ pc'[u] = "update" => Current(Pair(u), call[u].value)'
  <2>1. CASE u = t
    BY <1>1, <1>4, <2>1 DEF Current
  <2>2. CASE u # t /\ pc[u] \in {"fill", "update"}
    <3>1. u \notin overtaken
      BY <1>4, <2>2 DEF Overtakes
    <3>2. Pair(u) \in Bucket \X Key
      BY <2>2, AtWork DEF Pair
    <3>3. disk'[Pair(u)[1]][Pair(u)[2]] = disk[Pair(u)[1]][Pair(u)[2]] /\ (Pair(u) \in late' <=> Pair(u) \in late)
      <4>1. CASE Pair(u) = q
        BY <1>4, <2>2, <4>1 DEF Overtakes
      <4>2. CASE Pair(u) # q
        BY <1>3, <3>2, <4>2
      <4> QED
        BY <4>1, <4>2
    <3>4. /\ pc[u] = "fill" => Current(Pair(u), call[u].result)
          /\ pc[u] = "update" => Current(Pair(u), call[u].value)
      BY <3>1 DEF FreshInv
    <3>5. call'[u] = call[u] /\ pc'[u] = pc[u] /\ Pair(u)' = Pair(u)
      BY <1>1, <2>2
    <3> QED
      BY <3>3, <3>4, <3>5 DEF Current
  <2>3. CASE u # t /\ pc[u] \notin {"fill", "update"}
    BY <1>1, <2>3
  <2> QED
    BY <2>1, <2>2, <2>3
<1>5. ASSUME NEW x \in SoleBucket, NEW v, In(cache', x[2], v)
      PROVE  disk'[x[1]][x[2]] = v \/ x \in late' \/ x \in outdated' \/ Awaited(x)'
  <2>1. CASE x = q
    BY <1>5, <2>1
  <2>2. CASE x # q
    <3>1. x[2] # q[2] /\ x \in Bucket \X Key
      BY <1>2, <2>2
    <3>2. In(cache, x[2], v)
      BY <1>5, <3>1 DEF Moves
    <3>3. Current(x, v) \/ x \in outdated \/ Awaited(x)
      BY <3>2 DEF FreshInv
    <3>4. Current(x, v) => disk'[x[1]][x[2]] = v \/ x \in late'
      BY <1>3, <2>2, <3>1 DEF Current
    <3>5. x \in outdated => x \in outdated'
      BY <2>2, <3>1 DEF Overtakes
    <3>6. Awaited(x) => Awaited(x)'
      <4> SUFFICES ASSUME NEW u \in Task, u \notin overtaken, pc[u] = "update", Pair(u) = x
                   PROVE  Awaited(x)'
        BY DEF Awaited
      <4>1. u # t
        BY <2>2 DEF Moves
      <4>2. u \notin overtaken' /\ pc'[u] = "update" /\ Pair(u)' = x
        BY <1>1, <2>2, <4>1 DEF Overtakes
      <4> QED
        BY <4>2 DEF Awaited
    <3> QED
      BY <3>3, <3>4, <3>5, <3>6
  <2> QED
    BY <2>1, <2>2
<1>6. ASSUME NEW u \in Task, pc'[u] = "disk", call'[u].op = "get", Pair(u)' \in OwnPairs, NEW v,
             In(cache', call'[u].key, v)
      PROVE  FALSE
  <2>1. CASE u = t
    BY <1>1, <1>6, <2>1
  <2>2. CASE u # t
    <3>1. call'[u] = call[u] /\ pc[u] = "disk" /\ Pair(u) \in OwnPairs /\ call[u].op = "get"
      BY <1>1, <1>6, <2>2
    <3>2. Pair(u) \in MayUse[u] /\ Pair(u)[2] = call[u].key
      BY <3>1, AtWork DEF Pair
    <3>3. call[u].key # q[2]
      BY <1>2, <2>2, <3>1, <3>2
    <3>4. In(cache, call[u].key, v)
      BY <1>6, <3>1, <3>3 DEF Moves
    <3> QED
      BY <3>1, <3>4 DEF FreshInv
  <2> QED
    BY <2>1, <2>2
<1>7. /\ \A u \in Task \ overtaken' :
            /\ pc'[u] = "fill" => Current(Pair(u), call[u].result)'
            /\ pc'[u] = "update" => Current(Pair(u), call[u].value)'
      /\ \A x \in SoleBucket : \A v :
            In(cache, x[2], v)' => Current(x, v)' \/ x \in outdated' \/ Awaited(x)'
  BY <1>4, <1>5 DEF Current, In
<1>8. \A u \in Task : pc'[u] = "disk" /\ call'[u].op = "get" /\ Pair(u)' \in OwnPairs
        => \A v : ~ In(cache', call'[u].key, v)
  BY <1>6
<1> QED
  BY <1>7, <1>8 DEF FreshInv, In

\* A step that leaves the database, the entries and the histories alone, of a call
\* that is not between the database and the cache.
LEMMA QuietFresh ==
    ASSUME TypeInv, FreshInv, NEW t \in Task, NEW q, NEW c, NEW l, q \in MayUse[t],
           Moves(t, q, c, l), UNCHANGED <<disk, history>>, pc[t] \notin {"fill", "update"},
           \A w : In(cache', q[2], w) => In(cache, q[2], w),
           l = "fill" => disk[q[1]][q[2]] = c.result, l # "update",
           l = "disk" /\ c.op = "get" => \A v : ~ In(cache', q[2], v)
    PROVE  FreshInv'
<1>1. UNCHANGED <<disk, late, overtaken, outdated>>
  BY DEF history
<1>2. Overtakes(t, q)
  BY <1>1 DEF Overtakes
<1>3. \A u \in Task \ {t} : pc'[u] = pc[u] /\ Pair(u)' = Pair(u)
  BY DEF Moves, TypeInv, Pair
<1>4. Awaited(q) => Awaited(q)'
  BY <1>1, <1>3 DEF Awaited
<1>5. q \in SoleBucket => \A v : In(cache', q[2], v) =>
         disk'[q[1]][q[2]] = v \/ q \in late' \/ q \in outdated' \/ Awaited(q)'
  BY <1>1, <1>4 DEF FreshInv, Current
<1> QED
  BY <1>1, <1>2, <1>5, FreshKept

\* The step of a call that reaches the cache with the value v, or with none.
LEMMA ReachFresh ==
    ASSUME TypeInv, FreshInv, NEW t \in Task, NEW q, q \in MayUse[t], Pair(t) = q, NEW v,
           Moves(t, q, call[t], "done"), UNCHANGED <<disk, late>>, ReachesCache(t),
           \A w : In(cache', q[2], w) => w = v,
           t \notin overtaken => disk[q[1]][q[2]] = v \/ q \in late
    PROVE  FreshInv'
<1>1. overtaken' = overtaken \ {t}
  BY DEF ReachesCache
<1>2. (\A x : x # q => (x \in outdated' <=> x \in outdated)) /\ (t \in overtaken => q \in outdated')
  BY DEF ReachesCache
<1>3. Overtakes(t, q)
  BY <1>1, <1>2 DEF Overtakes
<1>4. \A w : In(cache', q[2], w) => disk'[q[1]][q[2]] = w \/ q \in late' \/ q \in outdated'
  BY <1>2
<1> QED
  BY <1>3, <1>4, FreshKept

\* Fills and updates leave a current value, or their call was overtaken; a write
\* is awaited by the cache; the other steps show neither here nor there.
LEMMA StepFresh == ASSUME TypeInv, HistoryInv, FreshInv, NEW t \in Task, Step(t) PROVE FreshInv'
<1>1. pc[t] # "idle"
  BY DEF Step, Lookup, DiskGet, Fill, DiskWrite, DiskFails, TimesOut, CacheUpdate, Return
<1>2. PICK b \in Bucket, k \in Key : b = call[t].bucket /\ k = call[t].key
  BY <1>1, AtWork
<1>q. PICK q \in MayUse[t] : Pair(t) = q /\ q = <<b, k>> /\ q[1] = b /\ q[2] = k
  BY <1>1, <1>2, AtWork DEF Pair
<1>3. /\ call[t] \in CallRecord /\ CallOk(t, call[t], pc[t])
      /\ disk[b][k] \in Value \cup {NoValue}
  BY <1>1, <1>2, AtWork
<1>4. t \notin overtaken =>
        /\ pc[t] = "fill" => disk[b][k] = call[t].result \/ q \in late
        /\ pc[t] = "update" => disk[b][k] = call[t].value \/ q \in late
  BY <1>q DEF FreshInv, Current
<1>5. CASE Lookup(t)
  <2>1. CASE ~ Holds(cache, k)
    <3>1. /\ UNCHANGED <<disk, cache, inFlight, history, call>> /\ pc' = [pc EXCEPT ![t] = "disk"]
          /\ pc[t] = "lookup" /\ UNCHANGED late
      BY <1>2, <1>5, <2>1 DEF Lookup, Goto, history
    <3>2. call' = [call EXCEPT ![t] = call[t]]
      BY <3>1, SameCall
    <3>3. \A v : ~ In(cache', k, v)
      BY <2>1, <3>1 DEF In, Holds
    <3>4. Moves(t, q, call[t], "disk")
      BY <1>q, <3>1, <3>2 DEF Moves, Pair
    <3> QED
      BY <1>q, <3>1, <3>3, <3>4, QuietFresh
  <2>2. CASE Holds(cache, k)
    <3>1. /\ call' = [call EXCEPT ![t].result = Cached(k)] /\ pc' = [pc EXCEPT ![t] = "done"]
          /\ cache' = Append(Without(cache, k), <<k, Cached(k)>>)
          /\ UNCHANGED <<disk, inFlight, history>> /\ pc[t] = "lookup" /\ UNCHANGED late
      BY <1>2, <1>5, <2>2 DEF Lookup, Goto, history
    <3>2. Cached(k) \in Value /\ \A j, w : In(cache', j, w) <=> In(cache, j, w)
      BY <2>2, <3>1, HitOk
    <3>3. PICK c \in CallRecord : call' = [call EXCEPT ![t] = c] /\ c.bucket = b /\ c.key = k
      BY <1>2, <3>1, <3>2, WithResult
    <3>4. Moves(t, q, c, "done")
      BY <1>q, <3>1, <3>2, <3>3 DEF Moves
    <3> QED
      BY <1>q, <3>1, <3>2, <3>4, QuietFresh
  <2> QED
    BY <2>1, <2>2
<1>6. CASE DiskGet(t)
  <2>1. /\ call' = [call EXCEPT ![t].result = disk[b][k]] /\ UNCHANGED <<disk, cache, inFlight, history>>
        /\ pc[t] = "disk" /\ call[t].op = "get" /\ UNCHANGED late
    BY <1>2, <1>6 DEF DiskGet, Goto, history
  <2>2. PICK l \in {"done", "fill"} : pc' = [pc EXCEPT ![t] = l]
    BY <1>6 DEF DiskGet, Goto
  <2>3. PICK c \in CallRecord :
          call' = [call EXCEPT ![t] = c] /\ c.bucket = b /\ c.key = k /\ c.result = disk[b][k]
    <3>1. PICK v \in Value \cup {NoValue, "error"} : v = disk[b][k]
      BY <1>3
    <3>2. call' = [call EXCEPT ![t].result = v]
      BY <2>1, <3>1
    <3>3. \E c \in CallRecord :
             /\ call' = [call EXCEPT ![t] = c]
             /\ c.op = call[t].op /\ c.bucket = call[t].bucket /\ c.key = call[t].key
             /\ c.value = call[t].value /\ c.result = v
      BY <3>2, WithResult
    <3> QED
      BY <1>2, <3>1, <3>3
  <2>4. Moves(t, q, c, l)
    BY <1>q, <2>1, <2>2, <2>3 DEF Moves
  <2> QED
    BY <1>q, <2>1, <2>2, <2>3, <2>4, QuietFresh
<1>7. CASE Fill(t)
  <2>1. /\ UNCHANGED <<disk, inFlight, late, call>> /\ pc' = [pc EXCEPT ![t] = "done"]
        /\ cache' = CacheAdd(cache, k, call[t].result) /\ call[t].result \in Value /\ pc[t] = "fill"
        /\ ReachesCache(t)
    BY <1>2, <1>3, <1>7 DEF Fill, Goto, CallOk
  <2>2. /\ \A w : In(cache', k, w) <=> w = call[t].result
        /\ \A j, w : j # k /\ In(cache', j, w) => In(cache, j, w)
    BY <2>1, PutOk
  <2>3. Moves(t, q, call[t], "done")
    BY <1>q, <2>1, <2>2, SameCall DEF Moves, Pair
  <2> QED
    BY <1>q, <1>4, <2>1, <2>2, <2>3, ReachFresh
<1>8. CASE DiskWrite(t)
  <2>1. /\ UNCHANGED <<cache, inFlight, call, outdated>> /\ pc' = [pc EXCEPT ![t] = "update"]
        /\ disk' = [disk EXCEPT ![b][k] = call[t].value] /\ late' = late \ {q}
        /\ overtaken' = overtaken \cup {u \in Task : pc[u] \in {"fill", "update"} /\ Pair(u) = q}
        /\ pc[t] = "disk"
    BY <1>2, <1>q, <1>8 DEF DiskWrite, Goto
  <2>2. /\ disk'[b][k] = call[t].value
        /\ \A x \in Bucket \X Key : x # q => disk'[x[1]][x[2]] = disk[x[1]][x[2]]
    BY <1>q, <2>1 DEF TypeInv
  <2>3. Moves(t, q, call[t], "update")
    BY <1>q, <2>1, <2>2, SameCall DEF Moves, Pair
  <2>4. Overtakes(t, q)
    BY <2>1 DEF Overtakes
  <2>5. t \notin overtaken' => Awaited(q)'
    BY <1>q, <2>1 DEF Awaited, Pair, TypeInv
  <2>6. t \notin overtaken'
    BY <2>1 DEF HistoryInv
  <2> QED
    BY <1>q, <2>2, <2>3, <2>4, <2>5, <2>6, FreshKept
<1>9. CASE DiskFails(t) \/ TimesOut(t)
  <2>1. /\ call' = [call EXCEPT ![t].result = "error"] /\ pc' = [pc EXCEPT ![t] = "done"]
        /\ UNCHANGED <<disk, cache, history>> /\ pc[t] = "disk" /\ UNCHANGED late
    BY <1>9 DEF DiskFails, TimesOut, Goto, history
  <2>2. PICK c \in CallRecord : call' = [call EXCEPT ![t] = c] /\ c.bucket = b /\ c.key = k
    BY <1>2, <2>1, WithResult
  <2>3. Moves(t, q, c, "done")
    BY <1>q, <2>1, <2>2 DEF Moves
  <2> QED
    BY <1>q, <2>1, <2>3, QuietFresh
<1>10. CASE CacheUpdate(t)
  <2>1. /\ UNCHANGED <<disk, inFlight, late, call>> /\ pc' = [pc EXCEPT ![t] = "done"]
        /\ cache' = IF call[t].op = "put" THEN CacheAdd(cache, k, call[t].value) ELSE Without(cache, k)
        /\ pc[t] = "update" /\ ReachesCache(t)
    BY <1>2, <1>10 DEF CacheUpdate, Goto
  <2>2. /\ \A w : In(cache', k, w) => w = call[t].value
        /\ \A j, w : j # k /\ In(cache', j, w) => In(cache, j, w)
    <3>1. CASE call[t].op = "put"
      <4>1. call[t].value \in Value
        BY <1>1, <1>3, <3>1 DEF CallOk
      <4> QED
        BY <2>1, <3>1, <4>1, PutOk
    <3>2. CASE call[t].op # "put"
      BY <2>1, <3>2, RemoveOk
    <3> QED
      BY <3>1, <3>2
  <2>3. Moves(t, q, call[t], "done")
    BY <1>q, <2>1, <2>2, SameCall DEF Moves, Pair
  <2> QED
    BY <1>q, <1>4, <2>1, <2>2, <2>3, ReachFresh
<1>11. CASE Return(t)
  <2>1. /\ call' = [call EXCEPT ![t] = NoCall] /\ pc' = [pc EXCEPT ![t] = "idle"]
        /\ UNCHANGED <<disk, cache, inFlight, history>> /\ pc[t] = "done" /\ UNCHANGED late
    BY <1>11 DEF Return, Goto, history
  <2>2. Moves(t, q, NoCall, "idle")
    BY <1>q, <2>1 DEF Moves
  <2> QED
    BY <1>q, <2>1, <2>2, QuietFresh
<1> QED
  BY <1>5, <1>6, <1>7, <1>8, <1>9, <1>10, <1>11 DEF Step

LEMMA BeginFresh ==
    ASSUME TypeInv, FreshInv, NEW t \in Task, NEW u \in MayUse[t],
           NEW o \in {"get", "put", "delete"}, NEW v, Begin(t, o, u[1], u[2], v)
    PROVE  FreshInv'
<1> DEFINE c == [op |-> o, bucket |-> u[1], key |-> u[2], value |-> v, result |-> NoValue]
           l == IF o = "get" THEN "lookup" ELSE "disk"
<1>1. u = <<u[1], u[2]>>
  BY KVAssumption
<1>2. /\ call' = [call EXCEPT ![t] = c] /\ pc' = [pc EXCEPT ![t] = l] /\ pc[t] = "idle"
      /\ UNCHANGED <<disk, cache, inFlight, history>> /\ UNCHANGED late
  BY DEF Begin, Goto, history
<1>3. c.bucket = u[1] /\ c.key = u[2] /\ c.op = o /\ l \in {"lookup", "disk"}
      /\ (l = "disk" => o # "get")
  OBVIOUS
<1> HIDE DEF c, l
<1>4. Moves(t, u, c, l)
  BY <1>1, <1>2, <1>3 DEF Moves
<1> QED
  BY <1>2, <1>3, <1>4, QuietFresh

LEMMA NextFresh == ASSUME TypeInv, HistoryInv, FreshInv, [Next]_vars PROVE FreshInv'
<1>1. CASE UNCHANGED vars
  BY <1>1 DEF FreshInv, Current, Awaited, Pair, In, vars, history
<1>2. ASSUME NEW w \in inFlight, Applied(w) PROVE FreshInv'
  <2>1. w[1] \in Bucket /\ w[2] \in Key
    BY DEF TypeInv
  <2>2. \A x \in Bucket \X Key : x # <<w[1], w[2]>> => disk'[x[1]][x[2]] = disk[x[1]][x[2]]
    BY <1>2, <2>1 DEF TypeInv, Applied
  <2>3. \A x \in Bucket \X Key : \A v : Current(x, v) => disk'[x[1]][x[2]] = v \/ x \in late'
    BY <1>2, <2>2 DEF Applied, Current
  <2>4. UNCHANGED <<cache, call, pc, overtaken, outdated>>
    BY <1>2 DEF Applied
  <2>5. ASSUME NEW t \in Task, t \notin overtaken
        PROVE  /\ pc[t] = "fill" => Current(Pair(t), call[t].result)'
               /\ pc[t] = "update" => Current(Pair(t), call[t].value)'
    <3>1. pc[t] # "idle" => Pair(t) \in Bucket \X Key
      BY AtWork DEF Pair
    <3>2. Pair(t)' = Pair(t)
      BY <2>4 DEF Pair
    <3>3. /\ pc[t] = "fill" => Current(Pair(t), call[t].result)
          /\ pc[t] = "update" => Current(Pair(t), call[t].value)
      BY <2>5 DEF FreshInv
    <3> QED
      BY <2>3, <2>4, <3>1, <3>2, <3>3 DEF Current
  <2>6. ASSUME NEW x \in SoleBucket, NEW v, In(cache, x[2], v)
        PROVE  disk'[x[1]][x[2]] = v \/ x \in late' \/ x \in outdated \/ Awaited(x)
    <3>1. x \in Bucket \X Key
      BY KVAssumption DEF SoleBucket
    <3> QED
      BY <2>3, <2>6, <3>1 DEF FreshInv
  <2>7. \A x : Awaited(x)' <=> Awaited(x)
    BY <2>4 DEF Awaited, Pair
  <2>8. /\ \A t \in Task \ overtaken' :
            /\ pc'[t] = "fill" => Current(Pair(t), call[t].result)'
            /\ pc'[t] = "update" => Current(Pair(t), call[t].value)'
        /\ \A x \in SoleBucket : \A v :
            In(cache, x[2], v)' => Current(x, v)' \/ x \in outdated' \/ Awaited(x)'
    BY <2>4, <2>5, <2>6, <2>7 DEF Current, In
  <2>9. \A t \in Task : pc'[t] = "disk" /\ call'[t].op = "get" /\ Pair(t)' \in OwnPairs
          => \A v : ~ In(cache, call[t].key, v)'
    BY <2>4 DEF FreshInv, Pair, In
  <2> QED
    BY <2>8, <2>9 DEF FreshInv
<1> QED
  BY <1>1, <1>2, StepFresh, BeginFresh DEF Next

LEMMA InitFresh == ASSUME Init PROVE FreshInv
<1>1. \A k, v : ~ In(cache, k, v)
  BY DEF Init, In
<1> QED
  BY <1>1 DEF Init, FreshInv

LEMMA Fresh == Spec => [](TypeInv /\ FreshInv)
<1>1. Init => FreshInv
  BY InitFresh
<1>2. TypeInv /\ HistoryInv /\ FreshInv /\ [Next]_vars => FreshInv'
  BY NextFresh
<1> QED
  BY <1>1, <1>2, Typed, History, PTL DEF Spec

\* However many callers share however many keys, a cached value that differs from
\* the database is awaiting its last writer, was overtaken by a late write of etcd,
\* or was left by a call that another one's write had overtaken.
THEOREM CacheFresh == Spec => []CacheStaleOnlyIfOvertaken
<1>1. ASSUME TypeInv, FreshInv PROVE CacheStaleOnlyIfOvertaken
  <2> SUFFICES ASSUME NEW x \in SoleBucket, Holds(cache, x[2]), Cached(x[2]) # disk[x[1]][x[2]],
                      x \notin late, x \notin outdated
               PROVE  Awaited(x)
    BY DEF CacheStaleOnlyIfOvertaken, Awaited
  <2>1. In(cache, x[2], Cached(x[2]))
    BY <1>1, HitOk
  <2> QED
    BY <1>1, <2>1 DEF FreshInv, Current
<1> QED
  BY <1>1, Fresh, PTL

-----------------------------------------------------------------------------
(* What a caller finds *)

OnPair(t, x) == pc[t] \in {"update", "fill"} /\ Pair(t) = x

Seen(x) == Visible(x[1], x[2])

Stored(x) == disk[x[1]][x[2]]

ViewOf(x) ==
    /\ \A t \in Task :
          OnPair(t, x) => Seen(x) = IF pc[t] = "update" THEN call[t].value ELSE call[t].result
    /\ (\A t \in Task : ~ OnPair(t, x)) =>
          /\ \A v : In(cache, x[2], v) => Seen(x) = v
          /\ (\A v : ~ In(cache, x[2], v)) => Seen(x) = Stored(x)

ViewRight == \A x \in OwnPairs : ViewOf(x)

LEMMA OwnIsPair == OwnPairs \subseteq Bucket \X Key /\ \A x \in OwnPairs : x = <<x[1], x[2]>>
BY KVAssumption DEF OwnPairs, SoleBucket

\* Visible without the choice: no two callers are in the middle of an own key.
LEMMA View == TypeInv => ViewRight
<1> SUFFICES ASSUME TypeInv, NEW x \in OwnPairs PROVE ViewOf(x)
  BY DEF ViewRight
<1> DEFINE b == x[1]
           k == x[2]
           at(ls) == {t \in Task : pc[t] \in ls /\ Pair(t) = <<b, k>>}
           pick(ls) == CHOOSE t \in at(ls) : TRUE
<1>1. x = <<b, k>>
  BY OwnIsPair
<1>2. Seen(x) = IF at({"update"}) # {} THEN call[pick({"update"})].value
                ELSE IF at({"fill"}) # {} THEN call[pick({"fill"})].result
                ELSE IF Holds(cache, k) THEN Cached(k)
                ELSE Stored(x)
  BY <1>1 DEF Seen, Visible, Stored
<1>3. \A t \in Task : OnPair(t, x) <=> t \in at({"update"}) \/ t \in at({"fill"})
  BY <1>1 DEF OnPair
<1>4. \A t, u \in Task : OnPair(t, x) /\ OnPair(u, x) => t = u
  <2> SUFFICES ASSUME NEW t \in Task, NEW u \in Task, OnPair(t, x), OnPair(u, x) PROVE t = u
    OBVIOUS
  <2>1. pc[t] # "idle" /\ pc[u] # "idle" /\ Pair(t) = x /\ Pair(u) = x
    BY DEF OnPair
  <2>2. x \in MayUse[t] /\ x \in MayUse[u]
    BY <2>1, AtWork DEF Pair
  <2> QED
    BY <2>2 DEF OwnPairs
<1>5. ASSUME NEW t \in Task, OnPair(t, x)
      PROVE  Seen(x) = IF pc[t] = "update" THEN call[t].value ELSE call[t].result
  <2>1. CASE pc[t] = "update"
    <3>1. t \in at({"update"})
      BY <1>1, <1>5, <2>1 DEF OnPair
    <3>2. pick({"update"}) \in at({"update"})
      BY <3>1
    <3>3. pick({"update"}) = t
      BY <1>3, <1>4, <1>5, <3>2
    <3> QED
      BY <1>2, <2>1, <3>1, <3>3
  <2>2. CASE pc[t] # "update"
    <3>1. t \in at({"fill"})
      BY <1>1, <1>5, <2>2 DEF OnPair
    <3>2. pick({"fill"}) \in at({"fill"})
      BY <3>1
    <3>3. pick({"fill"}) = t
      BY <1>3, <1>4, <1>5, <3>2
    <3>4. at({"update"}) = {}
      BY <1>3, <1>4, <1>5, <2>2
    <3> QED
      BY <1>2, <2>2, <3>1, <3>3, <3>4
  <2> QED
    BY <2>1, <2>2
<1>6. ASSUME \A t \in Task : ~ OnPair(t, x)
      PROVE  /\ \A v : In(cache, x[2], v) => Seen(x) = v
             /\ (\A v : ~ In(cache, x[2], v)) => Seen(x) = Stored(x)
  <2>1. at({"update"}) = {} /\ at({"fill"}) = {}
    BY <1>3, <1>6
  <2>2. Seen(x) = IF Holds(cache, k) THEN Cached(k) ELSE Stored(x)
    BY <1>2, <2>1
  <2>3. cache \in Seq(Entry) /\ Distinct(cache)
    BY DEF TypeInv, CacheOk
  <2>4. \A v : In(cache, k, v) => Holds(cache, k) /\ Cached(k) = v
    BY <2>3, PlaceFinds DEF Cached
  <2>5. Holds(cache, k) => \E v : In(cache, k, v)
    BY <2>3, PlaceFinds
  <2> HIDE DEF k, at, pick, b
  <2>6. k = x[2]
    BY DEF k
  <2> QED
    BY <2>2, <2>4, <2>5, <2>6
<1> QED
  BY <1>5, <1>6 DEF ViewOf

LEMMA ViewAfter == TypeInv' => ViewRight'
BY View, PTL

\* A pair whose callers, if any, stay where they are.
Calm(x) ==
    \A t \in Task : /\ OnPair(t, x) => pc'[t] = pc[t] /\ call'[t] = call[t] /\ OnPair(t, x)'
                    /\ OnPair(t, x)' => OnPair(t, x)

\* It shows what it did while its entry stays in the cache, and what the database
\* has once the entry is pushed out.
LEMMA SeenCalm ==
    ASSUME ViewRight, ViewRight', NEW x \in OwnPairs, Calm(x), Stored(x)' = Stored(x)
    PROVE  /\ (\A v : In(cache', x[2], v) <=> In(cache, x[2], v)) => Seen(x)' = Seen(x)
           /\ (\A v : ~ In(cache', x[2], v)) => Seen(x)' \in {Seen(x), Stored(x)}
<1>1. ViewOf(x) /\ ViewOf(x)'
  BY DEF ViewRight
<1>2. ASSUME NEW t \in Task, OnPair(t, x) PROVE Seen(x)' = Seen(x)
  <2>1. pc'[t] = pc[t] /\ call'[t] = call[t] /\ OnPair(t, x)'
    BY <1>2 DEF Calm
  <2>2. Seen(x) = IF pc[t] = "update" THEN call[t].value ELSE call[t].result
    BY <1>1, <1>2 DEF ViewOf
  <2>3. Seen(x)' = IF pc'[t] = "update" THEN call'[t].value ELSE call'[t].result
    BY <1>1, <2>1 DEF ViewOf
  <2> QED
    BY <2>1, <2>2, <2>3
<1>3. CASE \A t \in Task : ~ OnPair(t, x)
  <2>1. \A t \in Task : ~ OnPair(t, x)'
    BY <1>3 DEF Calm
  <2>2. /\ \A v : In(cache, x[2], v) => Seen(x) = v
        /\ (\A v : ~ In(cache, x[2], v)) => Seen(x) = Stored(x)
    BY <1>1, <1>3 DEF ViewOf
  <2>3. /\ \A v : In(cache', x[2], v) => Seen(x)' = v
        /\ (\A v : ~ In(cache', x[2], v)) => Seen(x)' = Stored(x)'
    BY <1>1, <2>1 DEF ViewOf, In
  <2> QED
    BY <2>2, <2>3
<1> QED
  BY <1>2, <1>3

\* The refinement mapping changes where what is seen changes.
LEMMA ContentsSame ==
    ASSUME \A x \in OwnPairs : Seen(x)' = Seen(x)
    PROVE  Contents' = Contents
<1>1. \A b \in Bucket, k \in Key : <<b, k>> \in OwnPairs => Visible(b, k)' = Visible(b, k)
  <2> SUFFICES ASSUME NEW b \in Bucket, NEW k \in Key, <<b, k>> \in OwnPairs
               PROVE  Visible(b, k)' = Visible(b, k)
    OBVIOUS
  <2>1. <<b, k>>[1] = b /\ <<b, k>>[2] = k
    OBVIOUS
  <2>2. Seen(<<b, k>>)' = Seen(<<b, k>>)
    OBVIOUS
  <2> QED
    BY <2>1, <2>2 DEF Seen
<1> QED
  BY <1>1 DEF Contents

LEMMA ContentsOne ==
    ASSUME NEW x0 \in OwnPairs, \A x \in OwnPairs : x # x0 => Seen(x)' = Seen(x)
    PROVE  Contents' = [Contents EXCEPT ![x0[1]][x0[2]] = Seen(x0)']
<1> DEFINE at(b, k) == IF <<b, k>> \in OwnPairs THEN Visible(b, k) ELSE NoValue
<1>1. \A b \in Bucket, k \in Key : <<b, k>> # x0 => at(b, k)' = at(b, k)
  <2> SUFFICES ASSUME NEW b \in Bucket, NEW k \in Key, <<b, k>> # x0, <<b, k>> \in OwnPairs
               PROVE  Visible(b, k)' = Visible(b, k)
    OBVIOUS
  <2>1. <<b, k>>[1] = b /\ <<b, k>>[2] = k
    OBVIOUS
  <2>2. Seen(<<b, k>>)' = Seen(<<b, k>>)
    OBVIOUS
  <2> QED
    BY <2>1, <2>2 DEF Seen
<1>2. PICK b0 \in Bucket, k0 \in Key : x0 = <<b0, k0>>
  BY OwnIsPair
<1>3. Seen(x0)' = at(b0, k0)' /\ x0[1] = b0 /\ x0[2] = k0
  BY <1>2 DEF Seen
<1>4. \A b \in Bucket, k \in Key :
        at(b, k)' = IF b = b0 /\ k = k0 THEN Seen(x0)' ELSE at(b, k)
  BY <1>1, <1>2, <1>3
<1>5. /\ Contents = [b \in Bucket |-> [k \in Key |-> at(b, k)]]
      /\ Contents' = [b \in Bucket |-> [k \in Key |-> at(b, k)']]
  BY DEF Contents
<1> HIDE DEF at
<1> QED
  BY <1>3, <1>4, <1>5

\* So do the writes that are hidden.
LEMMA HiddenOne ==
    ASSUME NEW x0 \in OwnPairs,
           \A x \in OwnPairs : x # x0 => Seen(x)' = Seen(x) /\ Stored(x)' = Stored(x)
    PROVE  /\ Hidden' \subseteq Hidden \cup {<<x0[1], x0[2], Stored(x0)'>>}
           /\ Stored(x0)' = Seen(x0)' => Hidden' \subseteq Hidden
<1> SUFFICES ASSUME NEW w \in Hidden'
             PROVE  w \in Hidden \/ (w = <<x0[1], x0[2], Stored(x0)'>> /\ Stored(x0)' # Seen(x0)')
  OBVIOUS
<1>1. PICK x \in OwnPairs : w = <<x[1], x[2], Stored(x)'>> /\ Stored(x)' # Seen(x)'
  BY DEF Hidden, Stored, Seen
<1>2. CASE x # x0
  BY <1>1, <1>2 DEF Hidden, Stored, Seen
<1>3. CASE x = x0
  BY <1>1, <1>3
<1> QED
  BY <1>2, <1>3

LEMMA HiddenSame ==
    ASSUME \A x \in OwnPairs : Seen(x)' = Seen(x) /\ Stored(x)' = Stored(x)
    PROVE  Hidden' = Hidden
<1>1. ASSUME NEW w PROVE w \in Hidden' <=> w \in Hidden
  <2>1. w \in Hidden' <=>
          \E x \in OwnPairs : w = <<x[1], x[2], Stored(x)'>> /\ Stored(x)' # Seen(x)'
    BY DEF Hidden, Stored, Seen
  <2>2. w \in Hidden <=>
          \E x \in OwnPairs : w = <<x[1], x[2], Stored(x)>> /\ Stored(x) # Seen(x)
    BY DEF Hidden, Stored, Seen
  <2> QED
    BY <2>1, <2>2
<1> QED
  BY <1>1

\* The writes under way that the map is told of.
OwnFlight == {w \in inFlight : <<w[1], w[2]>> \in OwnPairs}

LEMMA UnsureIs == Unsure = OwnFlight \cup Hidden /\ Unsure' = OwnFlight' \cup Hidden'
BY DEF Unsure, OwnFlight

\* And so do the call that goes on and its phase.
PhaseOf(l, x) == CASE l = "idle" \/ x \notin OwnPairs -> "idle"
                   [] l \in {"lookup", "disk"} /\ x \in OwnPairs -> "called"
                   [] OTHER -> "done"

CallOf(c) == IF <<c.bucket, c.key>> \in OwnPairs THEN c ELSE NoCall

LEMMA PhaseGoes ==
    ASSUME TypeInv, NEW t \in Task, NEW q, NEW c, NEW l, Moves(t, q, c, l)
    PROVE  /\ OwnCall' = [OwnCall EXCEPT ![t] = CallOf(c)] /\ OwnCall[t] = CallOf(call[t])
           /\ Phase' = [Phase EXCEPT ![t] = PhaseOf(l, <<c.bucket, c.key>>)]
           /\ Phase[t] = PhaseOf(pc[t], Pair(t))
<1>1. /\ Phase = [u \in Task |-> PhaseOf(pc[u], Pair(u))]
      /\ Phase' = [u \in Task |-> PhaseOf(pc'[u], Pair(u)')]
  BY DEF Phase, PhaseOf
<1>2. OwnCall = [u \in Task |-> CallOf(call[u])] /\ OwnCall' = [u \in Task |-> CallOf(call'[u])]
  BY DEF OwnCall, CallOf, Pair
<1>3. \A u \in Task : /\ pc'[u] = IF u = t THEN l ELSE pc[u]
                      /\ call'[u] = IF u = t THEN c ELSE call[u]
                      /\ Pair(u)' = IF u = t THEN <<c.bucket, c.key>> ELSE Pair(u)
  BY DEF TypeInv, Moves, Pair
<1> HIDE DEF PhaseOf, CallOf
<1> QED
  BY <1>1, <1>2, <1>3

LEMMA SamePhase ==
    ASSUME TypeInv, NEW t \in Task, NEW q, NEW c, NEW l, Moves(t, q, c, l),
           PhaseOf(l, <<c.bucket, c.key>>) = PhaseOf(pc[t], Pair(t)), CallOf(c) = CallOf(call[t])
    PROVE  Phase' = Phase /\ OwnCall' = OwnCall
<1>1. Phase' = [Phase EXCEPT ![t] = Phase[t]] /\ OwnCall' = [OwnCall EXCEPT ![t] = OwnCall[t]]
  BY PhaseGoes
<1>2. Phase = [u \in Task |-> Phase[u]] /\ OwnCall = [u \in Task |-> OwnCall[u]]
  BY DEF Phase, OwnCall
<1> QED
  BY <1>1, <1>2

\* Where the cache lets go of an entry, the hidden write it hid takes effect.
LEMMA LetGo ==
    ASSUME NEW x0 \in OwnPairs,
           \A x \in OwnPairs : x # x0 => Seen(x)' = Seen(x),
           Seen(x0)' \in {Seen(x0), Stored(x0)},
           UNCHANGED <<disk, inFlight, OwnCall, Phase>>
    PROVE  Abstract!Next
<1>1. \A x \in OwnPairs : Stored(x)' = Stored(x)
  BY DEF Stored
<1>2. CASE Seen(x0)' = Seen(x0)
  <2>1. Contents' = Contents /\ Hidden' = Hidden
    BY <1>1, <1>2, ContentsSame, HiddenSame
  <2>2. Abstract!Lost
    BY <2>1 DEF Abstract!Lost, Unsure
  <2> QED
    BY <2>2 DEF Abstract!Next
<1>3. CASE Seen(x0)' = Stored(x0) /\ Seen(x0) # Stored(x0)
  <2> DEFINE w == <<x0[1], x0[2], Stored(x0)>>
  <2>1. w \in Hidden
    BY <1>3 DEF Hidden, Stored, Seen
  <2>2. Hidden' \subseteq Hidden
    BY <1>1, <1>3, HiddenOne
  <2>3. Contents' = [Contents EXCEPT ![x0[1]][x0[2]] = Seen(x0)']
    BY ContentsOne
  <2>4. Unsure' \in SUBSET Unsure /\ w \in Unsure
    BY <2>1, <2>2 DEF Unsure
  <2>5. Contents' = [Contents EXCEPT ![w[1]][w[2]] = w[3]]
    BY <1>3, <2>3
  <2> HIDE DEF w
  <2>6. Abstract!Late(w)
    BY <2>4, <2>5 DEF Abstract!Late
  <2> QED
    BY <2>4, <2>6 DEF Abstract!Next
<1> QED
  BY <1>2, <1>3

-----------------------------------------------------------------------------
(* Every step of the store is a step of the map *)

\* What the owner of a pair finds.
OwnView ==
    \A t \in Task : \A q \in MayUse[t] \cap OwnPairs :
       /\ OnPair(t, q) => Seen(q) = IF pc[t] = "update" THEN call[t].value ELSE call[t].result
       /\ ~ OnPair(t, q) => \A v : In(cache, q[2], v) => Seen(q) = v
       /\ ~ OnPair(t, q) /\ (\A v : ~ In(cache, q[2], v)) => Seen(q) = Stored(q)

LEMMA OwnSeen == TypeInv => OwnView
<1> SUFFICES ASSUME TypeInv, NEW t \in Task, NEW q \in MayUse[t] \cap OwnPairs
             PROVE  /\ OnPair(t, q) => Seen(q) = IF pc[t] = "update" THEN call[t].value
                                                                     ELSE call[t].result
                    /\ ~ OnPair(t, q) => \A v : In(cache, q[2], v) => Seen(q) = v
                    /\ ~ OnPair(t, q) /\ (\A v : ~ In(cache, q[2], v)) => Seen(q) = Stored(q)
  BY DEF OwnView
<1>1. ViewOf(q)
  BY View DEF ViewRight
<1>2. \A u \in Task : OnPair(u, q) => u = t
  <2> SUFFICES ASSUME NEW u \in Task, OnPair(u, q) PROVE u = t
    OBVIOUS
  <2>1. q \in MayUse[u]
    BY AtWork DEF OnPair, Pair
  <2> QED
    BY <2>1 DEF OwnPairs
<1> QED
  BY <1>1, <1>2 DEF ViewOf

LEMMA OwnSeenAfter == TypeInv' => OwnView'
BY OwnSeen, PTL

\* A step of t shows in another pair only if it pushes its entry out.
LEMMA SeenElsewhere ==
    ASSUME TypeInv, TypeInv', NEW t \in Task, NEW q \in MayUse[t], NEW c, NEW l,
           Moves(t, q, c, l), NEW x \in OwnPairs, x # q
    PROVE  /\ Stored(x)' = Stored(x) /\ x[2] # q[2]
           /\ Seen(x)' \in {Seen(x), Stored(x)}
           /\ (\A v : In(cache, x[2], v) => In(cache', x[2], v)) => Seen(x)' = Seen(x)
<1>1. ViewRight /\ ViewRight'
  BY View, ViewAfter
<1>2. Stored(x)' = Stored(x)
  BY OwnIsPair DEF Moves, Stored
<1>3. /\ call'[t] = c /\ pc'[t] = l
      /\ \A u \in Task \ {t} : call'[u] = call[u] /\ pc'[u] = pc[u]
  BY DEF TypeInv, Moves
<1>4. ~ OnPair(t, x) /\ ~ OnPair(t, x)'
  BY <1>3 DEF OnPair, Pair, Moves
<1>5. Calm(x)
  BY <1>3, <1>4 DEF Calm, OnPair, Pair
<1>6. x[2] # q[2]
  BY OtherKeys
<1>7. \A v : In(cache', x[2], v) => In(cache, x[2], v)
  BY <1>6 DEF Moves
<1>8. cache \in Seq(Entry) /\ Distinct(cache)
  BY DEF TypeInv, CacheOk
<1>9. \A v, w : In(cache, x[2], v) /\ In(cache, x[2], w) => v = w
  <2>1. PICK k : k = x[2]
    OBVIOUS
  <2>2. \A v : In(cache, k, v) => cache[Place(cache, k)][2] = v
    BY <1>8, PlaceFinds
  <2> QED
    BY <2>1, <2>2
<1>10. /\ (\A v : In(cache', x[2], v) <=> In(cache, x[2], v)) => Seen(x)' = Seen(x)
       /\ (\A v : ~ In(cache', x[2], v)) => Seen(x)' \in {Seen(x), Stored(x)}
  BY <1>1, <1>2, <1>5, SeenCalm
<1>11. CASE \E v : In(cache, x[2], v) /\ ~ In(cache', x[2], v)
  <2>1. \A v : ~ In(cache', x[2], v)
    BY <1>7, <1>9, <1>11
  <2> QED
    BY <1>2, <1>6, <1>10, <1>11, <2>1
<1>12. CASE ~ \E v : In(cache, x[2], v) /\ ~ In(cache', x[2], v)
  BY <1>2, <1>6, <1>7, <1>10, <1>12
<1> QED
  BY <1>11, <1>12

\* A step that leaves the entries of other keys alone shows in its own pair only.
LEMMA Quietly ==
    ASSUME TypeInv, TypeInv', NEW t \in Task, NEW q \in MayUse[t], NEW c, NEW l,
           Moves(t, q, c, l), \A j, w : j # q[2] /\ In(cache, j, w) => In(cache', j, w),
           q \in OwnPairs => Seen(q)' = Seen(q) /\ Stored(q)' = Stored(q)
    PROVE  Contents' = Contents /\ Hidden' = Hidden
<1>1. ASSUME NEW x \in OwnPairs, x # q PROVE Seen(x)' = Seen(x) /\ Stored(x)' = Stored(x)
  <2>1. /\ Stored(x)' = Stored(x) /\ x[2] # q[2]
        /\ (\A v : In(cache, x[2], v) => In(cache', x[2], v)) => Seen(x)' = Seen(x)
    BY <1>1, SeenElsewhere
  <2> QED
    BY <2>1
<1>2. \A x \in OwnPairs : Seen(x)' = Seen(x) /\ Stored(x)' = Stored(x)
  BY <1>1
<1> QED
  BY <1>2, ContentsSame, HiddenSame

\* Nothing the map knows of is touched by a call on a pair that is shared.
LEMMA SharedStep ==
    ASSUME TypeInv, TypeInv', NEW t \in Task, NEW q \in MayUse[t], q \notin OwnPairs, NEW c, NEW l,
           Moves(t, q, c, l), \A j, w : j # q[2] /\ In(cache, j, w) => In(cache', j, w),
           pc'[t] = l, call'[t] = c, OwnFlight' = OwnFlight
    PROVE  UNCHANGED Abstract!vars
<1>1. Contents' = Contents /\ Hidden' = Hidden
  BY Quietly
<1>2. CallOk(t, call[t], pc[t]) /\ CallOk(t, c, l)
  BY DEF TypeInv, CallOk
<1>3. (pc[t] = "idle" => call[t] = NoCall) /\ (l = "idle" => c = NoCall)
  BY <1>2 DEF CallOk
<1>4. PhaseOf(l, <<c.bucket, c.key>>) = "idle" /\ PhaseOf(pc[t], Pair(t)) = "idle"
  BY DEF PhaseOf, Moves
<1>5. CallOf(c) = NoCall /\ CallOf(call[t]) = NoCall
  BY <1>3 DEF CallOf, Moves, Pair
<1>6. Phase' = Phase /\ OwnCall' = OwnCall
  BY <1>4, <1>5, SamePhase
<1>7. Unsure' = Unsure
  BY <1>1, UnsureIs
<1> QED
  BY <1>1, <1>6, <1>7 DEF Abstract!vars

\* A Get that finds v, in the cache or in the database, takes effect then.
LEMMA GetTakesEffect ==
    ASSUME TypeInv, TypeInv', NEW t \in Task, NEW q \in MayUse[t] \cap OwnPairs, Pair(t) = q,
           pc[t] \in {"lookup", "disk"}, call[t].op = "get", NEW v \in Value \cup {NoValue},
           NEW l \in {"fill", "done"}, pc' = [pc EXCEPT ![t] = l],
           call' = [call EXCEPT ![t].result = v],
           UNCHANGED <<disk, inFlight, late>>,
           \A j, w : In(cache, j, w) <=> In(cache', j, w), Seen(q) = v,
           \A w : In(cache, q[2], w) => w = v,
           (\A w : ~ In(cache, q[2], w)) => Stored(q) = v
    PROVE  Abstract!Next
<1>1. q \in Bucket \X Key /\ call[t].bucket = q[1] /\ call[t].key = q[2] /\ q = <<q[1], q[2]>>
  BY OwnIsPair DEF Pair
<1>2. PICK c \in CallRecord :
         call' = [call EXCEPT ![t] = c] /\ <<c.bucket, c.key>> = q /\ c.result = v
  <2>1. v \in Value \cup {NoValue, "error"}
    OBVIOUS
  <2>2. \E c \in CallRecord :
           /\ call' = [call EXCEPT ![t] = c]
           /\ c.op = call[t].op /\ c.bucket = call[t].bucket /\ c.key = call[t].key
           /\ c.value = call[t].value /\ c.result = v
    BY <2>1, WithResult
  <2> QED
    BY <2>2 DEF Pair
<1>3. Moves(t, q, c, l)
  BY <1>2 DEF Moves
<1>4. call'[t] = c /\ pc'[t] = l
  BY <1>2 DEF TypeInv
<1>5. OnPair(t, q)' <=> l = "fill"
  BY <1>2, <1>4 DEF OnPair, Pair
<1>6. Stored(q)' = Stored(q)
  BY DEF Stored
<1>7. OwnView'
  BY OwnSeenAfter
<1>8. Seen(q)' = v
  <2>1. CASE l = "fill"
    BY <1>2, <1>4, <1>5, <1>7, <2>1 DEF OwnView
  <2>2. CASE l # "fill" /\ \E w : In(cache, q[2], w)
    <3>1. In(cache', q[2], v)
      BY <2>2
    <3> QED
      BY <1>5, <1>7, <2>2, <3>1 DEF OwnView, In
  <2>3. CASE l # "fill" /\ ~ \E w : In(cache, q[2], w)
    <3>1. \A w : ~ In(cache', q[2], w)
      BY <2>3
    <3> QED
      BY <1>5, <1>6, <1>7, <2>3, <3>1 DEF OwnView, In
  <2> QED
    BY <2>1, <2>2, <2>3
<1>9. Contents' = Contents /\ Hidden' = Hidden
  BY <1>3, <1>6, <1>8, Quietly
<1>10. Contents[call[t].bucket][call[t].key] = v
  BY <1>1 DEF Contents, Seen
<1>11. /\ Phase' = [Phase EXCEPT ![t] = "done"] /\ Phase[t] = "called"
       /\ OwnCall' = [OwnCall EXCEPT ![t] = c] /\ OwnCall[t] = call[t]
  <2>1. /\ OwnCall' = [OwnCall EXCEPT ![t] = CallOf(c)] /\ OwnCall[t] = CallOf(call[t])
        /\ Phase' = [Phase EXCEPT ![t] = PhaseOf(l, <<c.bucket, c.key>>)]
        /\ Phase[t] = PhaseOf(pc[t], Pair(t))
    BY <1>3, PhaseGoes
  <2>2. CallOf(c) = c /\ CallOf(call[t]) = call[t]
    BY <1>2 DEF CallOf, Pair
  <2>3. PhaseOf(l, <<c.bucket, c.key>>) = "done" /\ PhaseOf(pc[t], Pair(t)) = "called"
    BY <1>2 DEF PhaseOf
  <2> QED
    BY <2>1, <2>2, <2>3
<1>12. OwnCall' = [OwnCall EXCEPT ![t].result = v]
  <2>1. c = [call[t] EXCEPT !.result = v]
    BY <1>4 DEF TypeInv
  <2> QED
    BY <1>11, <2>1
<1>13. Unsure' = Unsure
  BY <1>9 DEF Unsure
<1>14. OwnCall[t].op = "get" /\ Contents[OwnCall[t].bucket][OwnCall[t].key] = v
  BY <1>10, <1>11
<1>15. Abstract!Effect(t)
  BY <1>9, <1>11, <1>12, <1>13, <1>14 DEF Abstract!Effect
<1> QED
  BY <1>15 DEF Abstract!Next

\* The last step of a call, on the cache alone, shows only where the cache lets
\* go of an entry.
LEMMA CacheStep ==
    ASSUME TypeInv, TypeInv', NEW t \in Task, NEW q \in MayUse[t], Pair(t) = q,
           pc[t] \in {"fill", "update"}, pc' = [pc EXCEPT ![t] = "done"],
           UNCHANGED <<disk, inFlight, late, call>>,
           \A j, w : j # q[2] /\ In(cache', j, w) => In(cache, j, w),
           NEW o, \A j, w : j \notin {q[2], o} /\ In(cache, j, w) => In(cache', j, w),
           q \in OwnPairs => Seen(q)' = Seen(q) \/ (o = q[2] /\ Seen(q)' = Stored(q))
    PROVE  Abstract!Next
<1>1. Moves(t, q, call[t], "done")
  BY SameCall DEF Moves, Pair
<1>2. Phase' = Phase /\ OwnCall' = OwnCall
  BY <1>1, SamePhase DEF PhaseOf, Pair
<1>3. ASSUME NEW x \in OwnPairs, x[2] # o PROVE Seen(x)' = Seen(x)
  <2>1. CASE x = q
    BY <1>3, <2>1
  <2>2. CASE x # q
    <3>1. /\ x[2] # q[2]
          /\ (\A v : In(cache, x[2], v) => In(cache', x[2], v)) => Seen(x)' = Seen(x)
      BY <1>1, <2>2, SeenElsewhere
    <3> QED
      BY <1>3, <3>1
  <2> QED
    BY <2>1, <2>2
<1>4. CASE \A x \in OwnPairs : x[2] # o
  <2>1. \A x \in OwnPairs : Seen(x)' = Seen(x) /\ Stored(x)' = Stored(x)
    BY <1>3, <1>4 DEF Stored
  <2>2. Contents' = Contents /\ Hidden' = Hidden
    BY <2>1, ContentsSame, HiddenSame
  <2>3. Abstract!Lost
    BY <1>2, <2>2 DEF Abstract!Lost, Unsure
  <2> QED
    BY <2>3 DEF Abstract!Next
<1>5. CASE \E x \in OwnPairs : x[2] = o
  <2>1. PICK x0 \in OwnPairs : x0[2] = o
    BY <1>5
  <2>2. \A x \in OwnPairs : x[2] = o => x = x0
    BY <2>1 DEF OwnPairs, SoleBucket
  <2>3. \A x \in OwnPairs : x # x0 => Seen(x)' = Seen(x)
    BY <1>3, <2>2
  <2>4. Seen(x0)' \in {Seen(x0), Stored(x0)}
    <3>1. CASE x0 = q
      BY <3>1
    <3>2. CASE x0 # q
      BY <1>1, <3>2, SeenElsewhere
    <3> QED
      BY <3>1, <3>2
  <2> QED
    BY <1>2, <2>3, <2>4, LetGo
<1> QED
  BY <1>4, <1>5

\* The steps of a call on a shared pair show at most by pushing an entry out.
LEMMA SharedRefines ==
    ASSUME TypeInv, TypeInv', NEW t \in Task, Step(t), Pair(t) \notin OwnPairs
    PROVE  [Abstract!Next]_(Abstract!vars)
<1>1. pc[t] # "idle"
  BY DEF Step, Lookup, DiskGet, Fill, DiskWrite, DiskFails, TimesOut, CacheUpdate, Return
<1>2. PICK b \in Bucket, k \in Key : b = call[t].bucket /\ k = call[t].key
  BY <1>1, AtWork
<1>3. PICK q \in MayUse[t] : Pair(t) = q /\ q = <<b, k>> /\ q[1] = b /\ q[2] = k
  BY <1>1, <1>2, AtWork DEF Pair
<1>4. call[t] \in CallRecord /\ CallOk(t, call[t], pc[t]) /\ disk[b][k] \in Value \cup {NoValue}
  BY <1>1, <1>2, AtWork
<1>5. CASE Fill(t) \/ CacheUpdate(t)
  <2>1. /\ UNCHANGED <<disk, inFlight, late, call>> /\ pc' = [pc EXCEPT ![t] = "done"]
        /\ pc[t] \in {"fill", "update"}
    BY <1>5 DEF Fill, CacheUpdate, Goto
  <2>2. \/ \E v \in Value : cache' = CacheAdd(cache, k, v)
        \/ cache' = Without(cache, k)
    BY <1>2, <1>4, <1>5 DEF Fill, CacheUpdate, CallOk
  <2>3. /\ \A j, w : j # k /\ In(cache', j, w) => In(cache, j, w)
        /\ \E o \in Key : \A j, w : j \notin {k, o} /\ In(cache, j, w) => In(cache', j, w)
    <3>1. CASE \E v \in Value : cache' = CacheAdd(cache, k, v)
      BY <3>1, PutOk
    <3>2. CASE cache' = Without(cache, k)
      BY <3>2, RemoveOk
    <3> QED
      BY <2>2, <3>1, <3>2
  <2>4. PICK o \in Key : \A j, w : j \notin {k, o} /\ In(cache, j, w) => In(cache', j, w)
    BY <2>3
  <2>5. /\ \A j, w : j # q[2] /\ In(cache', j, w) => In(cache, j, w)
        /\ \A j, w : j \notin {q[2], o} /\ In(cache, j, w) => In(cache', j, w)
    BY <1>3, <2>3, <2>4
  <2>6. q \notin OwnPairs
    BY <1>3
  <2>7. Abstract!Next
    BY <1>3, <2>1, <2>5, <2>6, CacheStep
  <2> QED
    BY <2>7
<1>6. CASE Lookup(t) \/ DiskGet(t) \/ DiskWrite(t) \/ DiskFails(t) \/ TimesOut(t) \/ Return(t)
  <2>1. PICK c, l : /\ call' = [call EXCEPT ![t] = c] /\ pc' = [pc EXCEPT ![t] = l]
                    /\ <<c.bucket, c.key>> = q \/ l = "idle"
    <3>1. CASE DiskWrite(t)
      BY <1>3, <3>1, SameCall DEF DiskWrite, Goto, Pair
    <3>2. CASE Return(t)
      BY <3>2 DEF Return, Goto
    <3>3. CASE DiskFails(t) \/ TimesOut(t)
      <4>1. call' = [call EXCEPT ![t].result = "error"] /\ pc' = [pc EXCEPT ![t] = "done"]
        BY <3>3 DEF DiskFails, TimesOut, Goto
      <4>2. PICK c \in CallRecord : call' = [call EXCEPT ![t] = c] /\ c.bucket = b /\ c.key = k
        BY <1>2, <4>1, WithResult
      <4> QED
        BY <1>3, <4>1, <4>2
    <3>4. CASE DiskGet(t)
      <4>1. PICK v \in Value \cup {NoValue, "error"} : v = disk[b][k]
        BY <1>4
      <4>2. call' = [call EXCEPT ![t].result = v]
        BY <1>2, <3>4, <4>1 DEF DiskGet
      <4>3. PICK c \in CallRecord : call' = [call EXCEPT ![t] = c] /\ c.bucket = b /\ c.key = k
        BY <1>2, <4>2, WithResult
      <4>4. PICK l : pc' = [pc EXCEPT ![t] = l]
        BY <3>4 DEF DiskGet, Goto
      <4> QED
        BY <1>3, <4>3, <4>4
    <3>5. CASE Lookup(t) /\ Holds(cache, k)
      <4>1. call' = [call EXCEPT ![t].result = Cached(k)] /\ pc' = [pc EXCEPT ![t] = "done"]
        BY <1>2, <3>5 DEF Lookup, Goto
      <4>2. Cached(k) \in Value
        BY <3>5, HitOk
      <4>3. PICK c \in CallRecord : call' = [call EXCEPT ![t] = c] /\ c.bucket = b /\ c.key = k
        BY <1>2, <4>1, <4>2, WithResult
      <4> QED
        BY <1>3, <4>1, <4>3
    <3>6. CASE Lookup(t) /\ ~ Holds(cache, k)
      <4>1. UNCHANGED call /\ pc' = [pc EXCEPT ![t] = "disk"]
        BY <1>2, <3>6 DEF Lookup, Goto
      <4> QED
        BY <1>3, <4>1, SameCall DEF Pair
    <3> QED
      BY <1>6, <3>1, <3>2, <3>3, <3>4, <3>5, <3>6
  <2>2. \A j, w : In(cache', j, w) <=> In(cache, j, w)
    <3>1. CASE Lookup(t) /\ Holds(cache, k)
      <4>1. cache' = Append(Without(cache, k), <<k, Cached(k)>>)
        BY <1>2, <3>1 DEF Lookup
      <4> QED
        BY <3>1, <4>1, HitOk
    <3>2. CASE ~ (Lookup(t) /\ Holds(cache, k))
      <4>1. cache' = cache
        BY <1>2, <1>6, <3>2 DEF Lookup, DiskGet, DiskWrite, DiskFails, TimesOut, Return
      <4> QED
        BY <4>1
    <3> QED
      BY <3>1, <3>2
  <2>3. \A x \in Bucket \X Key :
          x # q => disk'[x[1]][x[2]] = disk[x[1]][x[2]] /\ (x \in late' <=> x \in late)
    <3>1. CASE DiskWrite(t)
      <4>1. disk' = [disk EXCEPT ![b][k] = call[t].value] /\ late' = late \ {q}
        BY <1>2, <1>3, <3>1 DEF DiskWrite
      <4> QED
        BY <1>3, <4>1 DEF TypeInv
    <3>2. CASE ~ DiskWrite(t)
      <4>1. UNCHANGED <<disk, late>>
        BY <1>6, <3>2 DEF Lookup, DiskGet, DiskFails, TimesOut, Return, history
      <4> QED
        BY <4>1
    <3> QED
      BY <3>1, <3>2
  <2>4. Moves(t, q, c, l)
    BY <1>3, <2>1, <2>2, <2>3 DEF Moves
  <2>5. OwnFlight' = OwnFlight
    <3>1. inFlight' \in {inFlight, inFlight \cup {<<b, k, call[t].value>>}}
      BY <1>2, <1>6 DEF Lookup, DiskGet, DiskWrite, DiskFails, TimesOut, Return
    <3>2. <<b, k>> \notin OwnPairs
      BY <1>3
    <3> QED
      BY <3>1, <3>2 DEF OwnFlight
  <2>6. pc'[t] = l /\ call'[t] = c
    BY <2>1 DEF TypeInv
  <2> QED
    BY <1>3, <2>2, <2>4, <2>5, <2>6, SharedStep
<1> QED
  BY <1>5, <1>6 DEF Step

LEMMA StepRefines ==
    ASSUME TypeInv, FreshInv, TypeInv', NEW t \in Task, Step(t), Pair(t) \in OwnPairs
    PROVE  Abstract!Next
<1>1. pc[t] # "idle"
  BY DEF Step, Lookup, DiskGet, Fill, DiskWrite, DiskFails, TimesOut, CacheUpdate, Return
<1>2. PICK q \in MayUse[t] \cap OwnPairs : Pair(t) = q
  BY <1>1, AtWork DEF Pair
<1>3. PICK b \in Bucket, k \in Key : b = call[t].bucket /\ k = call[t].key
  BY <1>1, AtWork
<1>4. q = <<b, k>> /\ q[1] = b /\ q[2] = k /\ q \in Bucket \X Key
  BY <1>2, <1>3 DEF Pair
<1>5. call[t] \in CallRecord /\ CallOk(t, call[t], pc[t]) /\ disk[b][k] \in Value \cup {NoValue}
  BY <1>1, <1>3, AtWork
<1>6. /\ OnPair(t, q) <=> pc[t] \in {"update", "fill"}
      /\ OnPair(t, q) => Seen(q) = IF pc[t] = "update" THEN call[t].value ELSE call[t].result
      /\ ~ OnPair(t, q) => \A v : In(cache, k, v) => Seen(q) = v
      /\ ~ OnPair(t, q) /\ (\A v : ~ In(cache, k, v)) => Seen(q) = disk[b][k]
  <2>1. OwnView
    BY OwnSeen
  <2> QED
    BY <1>2, <1>4, <2>1 DEF OwnView, OnPair, Stored
<1>7. pc'[t] \notin {"update", "fill"} =>
        /\ \A v : In(cache', k, v) => Seen(q)' = v
        /\ (\A v : ~ In(cache', k, v)) => Seen(q)' = disk'[b][k]
  <2>1. OwnView'
    BY OwnSeenAfter
  <2>2. pc'[t] \notin {"update", "fill"} => ~ OnPair(t, q)'
    BY DEF OnPair
  <2> QED
    BY <1>4, <2>1, <2>2 DEF OwnView, In, Stored
<1>own. OwnCall[t] = call[t] /\ <<call[t].bucket, call[t].key>> \in OwnPairs
  BY <1>2 DEF OwnCall, Pair
<1>same. UNCHANGED call => OwnCall' = OwnCall
  BY DEF OwnCall, Pair
<1>8. CASE Lookup(t)
  <2>1. CASE ~ Holds(cache, k)
    <3>1. /\ UNCHANGED <<disk, cache, inFlight, late, call>> /\ pc' = [pc EXCEPT ![t] = "disk"]
          /\ pc[t] = "lookup"
      BY <1>3, <1>8, <2>1 DEF Lookup, Goto, history
    <3>2. Moves(t, q, call[t], "disk")
      BY <1>2, <3>1, SameCall DEF Moves, Pair
    <3>3. (\A v : ~ In(cache, k, v)) /\ (\A v : ~ In(cache', k, v)) /\ pc'[t] = "disk"
      BY <2>1, <3>1 DEF In, Holds, TypeInv
    <3>4. Seen(q)' = Seen(q) /\ Stored(q)' = Stored(q)
      BY <1>6, <1>7, <3>1, <3>3 DEF Stored
    <3>5. Contents' = Contents /\ Hidden' = Hidden
      BY <3>1, <3>2, <3>4, Quietly
    <3>6. Phase' = Phase /\ OwnCall' = OwnCall
      BY <3>1, <3>2, SamePhase DEF PhaseOf, Pair
    <3>7. Abstract!Lost
      BY <3>1, <3>5, <3>6 DEF Abstract!Lost, Unsure
    <3> QED
      BY <3>7 DEF Abstract!Next
  <2>2. CASE Holds(cache, k)
    <3>1. PICK v \in Value : v = Cached(k) /\ In(cache, k, v)
      BY <2>2, HitOk
    <3>2. /\ call' = [call EXCEPT ![t].result = v] /\ pc' = [pc EXCEPT ![t] = "done"]
          /\ cache' = Append(Without(cache, k), <<k, Cached(k)>>)
          /\ UNCHANGED <<disk, inFlight, late>> /\ pc[t] = "lookup"
      BY <1>3, <1>8, <2>2, <3>1 DEF Lookup, Goto, history
    <3>3. \A j, w : In(cache', j, w) <=> In(cache, j, w)
      BY <2>2, <3>2, HitOk
    <3>4. \A w : In(cache, k, w) => w = Seen(q)
      BY <1>6, <3>2
    <3>5. Seen(q) = v /\ call[t].op = "get"
      BY <1>5, <3>1, <3>2, <3>4 DEF CallOk
    <3> QED
      BY <1>2, <1>4, <3>1, <3>2, <3>3, <3>4, <3>5, GetTakesEffect
  <2> QED
    BY <2>1, <2>2
<1>9. CASE DiskGet(t)
  <2>1. PICK v \in Value \cup {NoValue} : v = disk[b][k]
    BY <1>5
  <2>2. /\ call' = [call EXCEPT ![t].result = v] /\ UNCHANGED <<disk, cache, inFlight, late>>
        /\ pc[t] = "disk" /\ call[t].op = "get"
    BY <1>3, <1>9, <2>1 DEF DiskGet, Goto, history
  <2>3. PICK l \in {"fill", "done"} : pc' = [pc EXCEPT ![t] = l]
    BY <1>9 DEF DiskGet, Goto
  <2>4. \A w : ~ In(cache, k, w)
    BY <1>2, <1>3, <2>2 DEF FreshInv
  <2>5. Seen(q) = v /\ Stored(q) = v
    BY <1>4, <1>6, <2>1, <2>2, <2>4 DEF Stored
  <2>6. \A j, w : In(cache, j, w) <=> In(cache', j, w)
    BY <2>2
  <2> QED
    BY <1>2, <1>4, <2>2, <2>3, <2>4, <2>5, <2>6, GetTakesEffect
<1>10. CASE Fill(t)
  <2>1. PICK v \in Value : v = call[t].result
    BY <1>5, <1>10 DEF Fill, CallOk
  <2>2. /\ UNCHANGED <<disk, inFlight, late, call>> /\ pc' = [pc EXCEPT ![t] = "done"]
        /\ cache' = CacheAdd(cache, k, v) /\ pc[t] = "fill"
    BY <1>3, <1>10, <2>1 DEF Fill, Goto
  <2>3. /\ \A w : In(cache', k, w) <=> w = v
        /\ \A j, w : j # k /\ In(cache', j, w) => In(cache, j, w)
        /\ \E o \in Key : \A j, w : j \notin {k, o} /\ In(cache, j, w) => In(cache', j, w)
    BY <2>2, PutOk
  <2>4. PICK o \in Key : \A j, w : j \notin {k, o} /\ In(cache, j, w) => In(cache', j, w)
    BY <2>3
  <2>5. pc'[t] = "done"
    BY <2>2 DEF TypeInv
  <2>6. Seen(q)' = Seen(q)
    BY <1>6, <1>7, <2>1, <2>2, <2>3, <2>5
  <2> QED
    BY <1>2, <1>4, <2>2, <2>3, <2>4, <2>6, CacheStep
<1>11. CASE DiskWrite(t)
  <2>1. /\ UNCHANGED <<cache, inFlight, call>> /\ pc' = [pc EXCEPT ![t] = "update"]
        /\ disk' = [disk EXCEPT ![b][k] = call[t].value] /\ late' = late \ {q}
        /\ pc[t] = "disk" /\ call[t].op \in {"put", "delete"}
    BY <1>2, <1>3, <1>11 DEF DiskWrite, Goto
  <2>2. /\ disk'[b][k] = call[t].value
        /\ \A x \in Bucket \X Key : x # q => disk'[x[1]][x[2]] = disk[x[1]][x[2]]
    BY <1>4, <2>1 DEF TypeInv
  <2>3. Moves(t, q, call[t], "update")
    BY <1>2, <2>1, <2>2, SameCall DEF Moves, Pair
  <2>4. \A x \in OwnPairs : x # q => Seen(x)' = Seen(x) /\ Stored(x)' = Stored(x)
    BY <2>1, <2>3, SeenElsewhere
  <2>5. pc'[t] = "update" /\ call'[t] = call[t]
    BY <2>1 DEF TypeInv
  <2>6. OnPair(t, q)'
    BY <1>2, <2>5 DEF OnPair, Pair
  <2>7. Seen(q)' = call[t].value
    BY <2>5, <2>6, OwnSeenAfter DEF OwnView
  <2>8. Stored(q)' = call[t].value
    BY <1>4, <2>2 DEF Stored
  <2>9. Contents' = [Contents EXCEPT ![call[t].bucket][call[t].key] = call[t].value]
    BY <1>3, <1>4, <2>4, <2>7, ContentsOne
  <2>10. Unsure' \in SUBSET Unsure
    BY <1>4, <2>1, <2>4, <2>7, <2>8, HiddenOne DEF Unsure
  <2>11. Phase' = [Phase EXCEPT ![t] = "done"] /\ Phase[t] = "called"
    <3>1. /\ Phase' = [Phase EXCEPT ![t] = PhaseOf("update", <<call[t].bucket, call[t].key>>)]
          /\ Phase[t] = PhaseOf(pc[t], Pair(t))
      BY <2>3, PhaseGoes
    <3>2. PhaseOf("update", <<call[t].bucket, call[t].key>>) = "done" /\ PhaseOf(pc[t], Pair(t)) = "called"
      BY <1>own, <2>1 DEF PhaseOf, Pair
    <3> QED
      BY <3>1, <3>2
  <2>12. Abstract!Effect(t)
    BY <1>own, <1>same, <2>1, <2>9, <2>10, <2>11 DEF Abstract!Effect
  <2> QED
    BY <2>12 DEF Abstract!Next
<1>12. CASE DiskFails(t) \/ TimesOut(t)
  <2>1. /\ call' = [call EXCEPT ![t].result = "error"] /\ pc' = [pc EXCEPT ![t] = "done"]
        /\ UNCHANGED <<disk, cache, late>> /\ pc[t] = "disk"
    BY <1>12 DEF DiskFails, TimesOut, Goto, history
  <2>2. PICK c \in CallRecord : call' = [call EXCEPT ![t] = c] /\ c.bucket = b /\ c.key = k
    BY <1>3, <2>1, WithResult
  <2>3. Moves(t, q, c, "done")
    BY <1>2, <1>4, <2>1, <2>2 DEF Moves, Pair
  <2>4. pc'[t] = "done" /\ (\A w : In(cache', k, w) <=> In(cache, k, w)) /\ call'[t] = c
    BY <2>1, <2>2 DEF TypeInv
  <2>5. Seen(q)' = Seen(q) /\ Stored(q)' = Stored(q)
    BY <1>6, <1>7, <2>1, <2>4 DEF Stored
  <2>6. Contents' = Contents /\ Hidden' = Hidden
    BY <2>1, <2>3, <2>5, Quietly
  <2>7. /\ Phase' = [Phase EXCEPT ![t] = "done"] /\ Phase[t] = "called"
        /\ OwnCall' = [OwnCall EXCEPT ![t].result = "error"]
    <3>1. /\ Phase' = [Phase EXCEPT ![t] = PhaseOf("done", <<c.bucket, c.key>>)]
          /\ Phase[t] = PhaseOf(pc[t], Pair(t)) /\ OwnCall' = [OwnCall EXCEPT ![t] = CallOf(c)]
      BY <2>3, PhaseGoes
    <3>2. PhaseOf("done", <<c.bucket, c.key>>) = "done" /\ PhaseOf(pc[t], Pair(t)) = "called"
      BY <1>3, <1>own, <2>1, <2>2 DEF PhaseOf, Pair
    <3>3. CallOf(c) = c
      BY <1>3, <1>own, <2>2 DEF CallOf
    <3>4. c = [call[t] EXCEPT !.result = "error"]
      BY <2>1, <2>4 DEF TypeInv
    <3>5. OwnCall' = [OwnCall EXCEPT ![t].result = "error"]
      BY <1>own, <3>1, <3>3, <3>4
    <3> QED
      BY <3>1, <3>2, <3>5
  <2>8. \/ inFlight' = inFlight
        \/ /\ call[t].op # "get"
           /\ inFlight' = inFlight \cup {<<call[t].bucket, call[t].key, call[t].value>>}
    BY <1>12 DEF DiskFails, TimesOut
  <2>9. Unsure' \in {Unsure} \cup
          (IF call[t].op = "get" THEN {}
           ELSE {Unsure \cup {<<call[t].bucket, call[t].key, call[t].value>>}})
    <3>1. CASE inFlight' = inFlight
      BY <2>6, <3>1 DEF Unsure
    <3>2. CASE /\ call[t].op # "get"
               /\ inFlight' = inFlight \cup {<<call[t].bucket, call[t].key, call[t].value>>}
      <4>1. OwnFlight' = OwnFlight \cup {<<call[t].bucket, call[t].key, call[t].value>>}
        BY <1>own, <3>2 DEF OwnFlight
      <4>2. Unsure' = Unsure \cup {<<call[t].bucket, call[t].key, call[t].value>>}
        BY <2>6, <4>1, UnsureIs
      <4> QED
        BY <3>2, <4>2
    <3> QED
      BY <2>8, <3>1, <3>2
  <2>10. Abstract!Effect(t)
    BY <1>own, <2>6, <2>7, <2>9 DEF Abstract!Effect
  <2> QED
    BY <2>10 DEF Abstract!Next
<1>13. CASE CacheUpdate(t)
  <2>1. /\ UNCHANGED <<disk, inFlight, late, call>> /\ pc' = [pc EXCEPT ![t] = "done"]
        /\ cache' = IF call[t].op = "put" THEN CacheAdd(cache, k, call[t].value) ELSE Without(cache, k)
        /\ pc[t] = "update"
    BY <1>3, <1>13 DEF CacheUpdate, Goto
  <2>2. pc'[t] = "done"
    BY <2>1 DEF TypeInv
  <2>3. CASE call[t].op = "put"
    <3>1. PICK v \in Value : v = call[t].value
      BY <1>1, <1>5, <2>3 DEF CallOk
    <3>2. cache' = CacheAdd(cache, k, v)
      BY <2>1, <2>3, <3>1
    <3>3. /\ \A w : In(cache', k, w) <=> w = v
          /\ \A j, w : j # k /\ In(cache', j, w) => In(cache, j, w)
          /\ \E o \in Key : \A j, w : j \notin {k, o} /\ In(cache, j, w) => In(cache', j, w)
      BY <3>2, PutOk
    <3>4. PICK o \in Key : \A j, w : j \notin {k, o} /\ In(cache, j, w) => In(cache', j, w)
      BY <3>3
    <3>5. Seen(q)' = Seen(q)
      BY <1>6, <1>7, <2>1, <2>2, <3>1, <3>3
    <3> QED
      BY <1>2, <1>4, <2>1, <3>3, <3>4, <3>5, CacheStep
  <2>4. CASE call[t].op # "put"
    <3>1. cache' = Without(cache, k)
      BY <2>1, <2>4
    <3>2. \A j, w : In(cache', j, w) <=> In(cache, j, w) /\ j # k
      BY <3>1, RemoveOk
    <3>3. Seen(q)' = Stored(q)
      BY <1>4, <1>7, <2>1, <2>2, <3>2 DEF Stored
    <3> QED
      BY <1>2, <1>4, <2>1, <3>2, <3>3, CacheStep
  <2> QED
    BY <2>3, <2>4
<1>14. CASE Return(t)
  <2>1. /\ call' = [call EXCEPT ![t] = NoCall] /\ pc' = [pc EXCEPT ![t] = "idle"]
        /\ UNCHANGED <<disk, cache, inFlight, late>> /\ pc[t] = "done"
    BY <1>14 DEF Return, Goto, history
  <2>2. Moves(t, q, NoCall, "idle")
    BY <1>2, <2>1 DEF Moves
  <2>3. pc'[t] = "idle" /\ \A w : In(cache', k, w) <=> In(cache, k, w)
    BY <2>1 DEF TypeInv
  <2>4. Seen(q)' = Seen(q) /\ Stored(q)' = Stored(q)
    BY <1>6, <1>7, <2>1, <2>3 DEF Stored
  <2>5. Contents' = Contents /\ Hidden' = Hidden
    BY <2>1, <2>2, <2>4, Quietly
  <2>6. /\ Phase' = [Phase EXCEPT ![t] = "idle"] /\ Phase[t] = "done"
        /\ OwnCall' = [OwnCall EXCEPT ![t] = NoCall]
    <3>1. /\ Phase' = [Phase EXCEPT ![t] = PhaseOf("idle", <<NoCall.bucket, NoCall.key>>)]
          /\ Phase[t] = PhaseOf(pc[t], Pair(t)) /\ OwnCall' = [OwnCall EXCEPT ![t] = CallOf(NoCall)]
      BY <2>2, PhaseGoes
    <3>2. /\ PhaseOf("idle", <<NoCall.bucket, NoCall.key>>) = "idle"
          /\ PhaseOf(pc[t], Pair(t)) = "done" /\ CallOf(NoCall) = NoCall
      BY <1>2, <2>1 DEF PhaseOf, CallOf
    <3> QED
      BY <3>1, <3>2
  <2>7. Abstract!NoCall = NoCall
    BY DEF Abstract!NoCall, NoCall
  <2>8. Abstract!Return(t)
    BY <2>1, <2>5, <2>6, <2>7 DEF Abstract!Return, Unsure
  <2> QED
    BY <2>8 DEF Abstract!Next
<1> QED
  BY <1>8, <1>9, <1>10, <1>11, <1>12, <1>13, <1>14 DEF Step

\* A call begins on a pair of the caller's own, or out of the map's sight.
LEMMA BeginRefines ==
    ASSUME TypeInv, TypeInv', NEW t \in Task, NEW u \in MayUse[t],
           NEW o \in {"get", "put", "delete"}, NEW v, Begin(t, o, u[1], u[2], v)
    PROVE  IF u \in OwnPairs THEN Abstract!Invoke(t, o, u[1], u[2], v) ELSE UNCHANGED Abstract!vars
<1> DEFINE c == [op |-> o, bucket |-> u[1], key |-> u[2], value |-> v, result |-> NoValue]
           l == IF o = "get" THEN "lookup" ELSE "disk"
<1>1. u = <<u[1], u[2]>>
  BY KVAssumption
<1>2. /\ call' = [call EXCEPT ![t] = c] /\ pc' = [pc EXCEPT ![t] = l] /\ pc[t] = "idle"
      /\ UNCHANGED <<disk, cache, inFlight, late>>
  BY DEF Begin, Goto, history
<1>3. c.bucket = u[1] /\ c.key = u[2] /\ l \in {"lookup", "disk"}
  OBVIOUS
<1> HIDE DEF l
<1>4. pc'[t] = l
  BY <1>2 DEF TypeInv
<1> HIDE DEF c
<1>5. call'[t] = c
  BY <1>2 DEF TypeInv
<1>6. Moves(t, u, c, l)
  BY <1>1, <1>2, <1>3 DEF Moves
<1>7. ~ OnPair(t, u) /\ ~ OnPair(t, u)'
  BY <1>2, <1>3, <1>4 DEF OnPair
<1>8. CASE u \notin OwnPairs
  <2>1. OwnFlight' = OwnFlight
    BY <1>2 DEF OwnFlight
  <2> QED
    BY <1>2, <1>4, <1>5, <1>6, <1>8, <2>1, SharedStep
<1>9. CASE u \in OwnPairs
  <2>1. OwnView /\ OwnView' /\ cache' = cache /\ Stored(u)' = Stored(u)
    BY <1>2, OwnSeen, OwnSeenAfter DEF Stored
  <2>2. /\ \A w : In(cache, u[2], w) => Seen(u) = w
        /\ (\A w : ~ In(cache, u[2], w)) => Seen(u) = Stored(u)
    BY <1>7, <1>9, <2>1 DEF OwnView
  <2>3. /\ \A w : In(cache', u[2], w) => Seen(u)' = w
        /\ (\A w : ~ In(cache', u[2], w)) => Seen(u)' = Stored(u)'
    BY <1>7, <1>9, <2>1 DEF OwnView, In
  <2>4. Seen(u)' = Seen(u)
    BY <2>1, <2>2, <2>3
  <2>5. Contents' = Contents /\ Hidden' = Hidden
    BY <1>2, <1>6, <2>1, <2>4, Quietly
  <2>6. /\ Phase' = [Phase EXCEPT ![t] = "called"] /\ Phase[t] = "idle"
        /\ OwnCall' = [OwnCall EXCEPT ![t] = c]
    <3>1. /\ Phase' = [Phase EXCEPT ![t] = PhaseOf(l, <<c.bucket, c.key>>)]
          /\ Phase[t] = PhaseOf(pc[t], Pair(t)) /\ OwnCall' = [OwnCall EXCEPT ![t] = CallOf(c)]
      BY <1>6, PhaseGoes
    <3>2. <<c.bucket, c.key>> \in OwnPairs
      BY <1>1, <1>3, <1>9
    <3>3. PhaseOf(l, <<c.bucket, c.key>>) = "called" /\ PhaseOf(pc[t], Pair(t)) = "idle" /\ CallOf(c) = c
      BY <1>2, <1>3, <3>2 DEF PhaseOf, CallOf
    <3> QED
      BY <3>1, <3>3
  <2>7. Unsure' = Unsure
    BY <1>2, <2>5 DEF Unsure
  <2>8. Abstract!Invoke(t, o, u[1], u[2], v)
    BY <2>5, <2>6, <2>7 DEF Abstract!Invoke, c
  <2> QED
    BY <1>9, <2>8
<1> QED
  BY <1>8, <1>9

\* A write that etcd applies late is seen at once, or hidden for now.
LEMMA AppliedRefines ==
    ASSUME TypeInv, TypeInv', NEW w \in inFlight, Applied(w)
    PROVE  Abstract!Next
<1>1. w \in Bucket \X Key \X (Value \cup {NoValue})
  BY DEF TypeInv
<1>2. PICK x0 \in Bucket \X Key : x0 = <<w[1], w[2]>>
  BY <1>1
<1>3. x0[1] = w[1] /\ x0[2] = w[2] /\ w = <<x0[1], x0[2], w[3]>>
  BY <1>1, <1>2
<1>4. /\ disk' = [disk EXCEPT ![x0[1]][x0[2]] = w[3]] /\ inFlight' = inFlight \ {w}
      /\ UNCHANGED <<cache, call, pc>>
  BY <1>3 DEF Applied
<1>5. Stored(x0)' = w[3] /\ \A x \in Bucket \X Key : x # x0 => Stored(x)' = Stored(x)
  BY <1>2, <1>4 DEF TypeInv, Stored
<1>6. ViewRight /\ ViewRight'
  BY View, ViewAfter
<1>7. \A x : Calm(x)
  BY <1>4 DEF Calm, OnPair, Pair
<1>8. \A j, v : In(cache', j, v) <=> In(cache, j, v)
  BY <1>4
<1>9. \A x \in OwnPairs : x # x0 => Seen(x)' = Seen(x) /\ Stored(x)' = Stored(x)
  <2> SUFFICES ASSUME NEW x \in OwnPairs, x # x0 PROVE Seen(x)' = Seen(x) /\ Stored(x)' = Stored(x)
    OBVIOUS
  <2>1. Stored(x)' = Stored(x)
    BY <1>5, OwnIsPair
  <2> QED
    BY <1>6, <1>7, <1>8, <2>1, SeenCalm
<1>10. Phase' = Phase /\ OwnCall' = OwnCall
  BY <1>4 DEF Phase, OwnCall, Pair
<1>11. OwnFlight' \subseteq OwnFlight
  BY <1>4 DEF OwnFlight
<1>12. CASE x0 \notin OwnPairs
  <2>1. \A x \in OwnPairs : Seen(x)' = Seen(x) /\ Stored(x)' = Stored(x)
    BY <1>9, <1>12
  <2>2. Contents' = Contents /\ Hidden' = Hidden
    BY <2>1, ContentsSame, HiddenSame
  <2>3. Unsure' \in SUBSET Unsure
    BY <1>11, <2>2, UnsureIs
  <2>4. Abstract!Lost
    BY <1>10, <2>2, <2>3 DEF Abstract!Lost
  <2> QED
    BY <2>4 DEF Abstract!Next
<1>13. CASE x0 \in OwnPairs
  <2>1. Seen(x0)' = Seen(x0) \/ Seen(x0)' = w[3]
    <3>1. ViewOf(x0) /\ ViewOf(x0)'
      BY <1>6, <1>13 DEF ViewRight
    <3>2. \A t \in Task : OnPair(t, x0)' <=> OnPair(t, x0)
      BY <1>7 DEF Calm
    <3>3. ASSUME NEW t \in Task, OnPair(t, x0) PROVE Seen(x0)' = Seen(x0)
      BY <1>4, <3>1, <3>2, <3>3 DEF ViewOf
    <3>4. CASE \A t \in Task : ~ OnPair(t, x0)
      <4>1. /\ \A v : In(cache, x0[2], v) => Seen(x0) = v
            /\ \A v : In(cache', x0[2], v) => Seen(x0)' = v
            /\ (\A v : ~ In(cache', x0[2], v)) => Seen(x0)' = Stored(x0)'
        BY <3>1, <3>2, <3>4 DEF ViewOf, In
      <4> QED
        BY <1>5, <1>8, <4>1
    <3> QED
      BY <3>3, <3>4
  <2>2. Hidden' \subseteq Hidden \cup {w}
    BY <1>3, <1>5, <1>9, <1>13, HiddenOne
  <2>3. w \in OwnFlight
    BY <1>2, <1>13 DEF OwnFlight
  <2>4. Unsure' \in SUBSET Unsure /\ w \in Unsure
    BY <1>11, <2>2, <2>3, UnsureIs
  <2>5. CASE Seen(x0)' = Seen(x0)
    <3>1. Contents' = Contents
      BY <1>9, <2>5, ContentsSame
    <3>2. Abstract!Lost
      BY <1>10, <2>4, <3>1 DEF Abstract!Lost
    <3> QED
      BY <3>2 DEF Abstract!Next
  <2>6. CASE Seen(x0)' = w[3]
    <3>1. Contents' = [Contents EXCEPT ![w[1]][w[2]] = w[3]]
      BY <1>3, <1>9, <1>13, <2>6, ContentsOne
    <3>2. Abstract!Late(w)
      BY <1>10, <2>4, <3>1 DEF Abstract!Late
    <3> QED
      BY <2>4, <3>2 DEF Abstract!Next
  <2> QED
    BY <2>1, <2>5, <2>6
<1> QED
  BY <1>12, <1>13

LEMMA NextRefines ==
    ASSUME TypeInv, FreshInv, TypeInv', [Next]_vars
    PROVE  [Abstract!Next]_(Abstract!vars)
<1>1. CASE UNCHANGED vars
  <2>1. UNCHANGED <<disk, cache, inFlight, call, pc>>
    BY <1>1 DEF vars
  <2>2. \A b, k : Visible(b, k)' = Visible(b, k)
    BY <2>1 DEF Visible, Cached, Holds, Place, Pair
  <2>3. Contents' = Contents /\ Phase' = Phase /\ OwnCall' = OwnCall
    BY <2>1, <2>2 DEF Contents, Phase, OwnCall, Pair
  <2>4. Hidden' = Hidden
    <3>1. \A x \in OwnPairs : Seen(x)' = Seen(x) /\ Stored(x)' = Stored(x)
      BY <2>1, <2>2 DEF Seen, Stored
    <3> QED
      BY <3>1, HiddenSame
  <2> QED
    BY <2>1, <2>3, <2>4 DEF Abstract!vars, Unsure
<1>2. ASSUME NEW t \in Task, NEW u \in MayUse[t], NEW v \in Value, Begin(t, "put", u[1], u[2], v)
      PROVE  [Abstract!Next]_(Abstract!vars)
  <2>1. IF u \in OwnPairs THEN Abstract!Invoke(t, "put", u[1], u[2], v) ELSE UNCHANGED Abstract!vars
    BY <1>2, BeginRefines
  <2> QED
    BY <2>1 DEF Abstract!Next
<1>3. ASSUME NEW t \in Task, NEW u \in MayUse[t], NEW o \in {"get", "delete"},
             Begin(t, o, u[1], u[2], NoValue)
      PROVE  [Abstract!Next]_(Abstract!vars)
  <2>1. IF u \in OwnPairs THEN Abstract!Invoke(t, o, u[1], u[2], NoValue)
                          ELSE UNCHANGED Abstract!vars
    BY <1>3, BeginRefines
  <2> QED
    BY <2>1 DEF Abstract!Next
<1>4. ASSUME NEW t \in Task, Step(t) PROVE [Abstract!Next]_(Abstract!vars)
  BY <1>4, StepRefines, SharedRefines
<1> QED
  BY <1>1, <1>2, <1>3, <1>4, AppliedRefines DEF Next

LEMMA InitRefines == ASSUME Init PROVE Abstract!Init
<1>1. TypeInv /\ ViewRight
  BY InitTyped, View
<1>2. /\ disk = [b \in Bucket |-> [k \in Key |-> NoValue]] /\ cache = << >> /\ inFlight = {}
      /\ call = [t \in Task |-> NoCall] /\ pc = [t \in Task |-> "idle"]
  BY DEF Init
<1>3. \A x \in OwnPairs : Seen(x) = NoValue /\ Stored(x) = NoValue
  <2> SUFFICES ASSUME NEW x \in OwnPairs PROVE Seen(x) = NoValue /\ Stored(x) = NoValue
    OBVIOUS
  <2>1. Stored(x) = NoValue
    BY <1>2, OwnIsPair DEF Stored
  <2>2. (\A v : ~ In(cache, x[2], v)) /\ \A t \in Task : ~ OnPair(t, x)
    BY <1>2 DEF In, OnPair
  <2> QED
    BY <1>1, <2>1, <2>2 DEF ViewRight, ViewOf
<1>4. Contents = [b \in Bucket |-> [k \in Key |-> NoValue]]
  <2>1. \A b \in Bucket, k \in Key : <<b, k>> \in OwnPairs => Visible(b, k) = NoValue
    <3> SUFFICES ASSUME NEW b \in Bucket, NEW k \in Key, <<b, k>> \in OwnPairs
                 PROVE  Visible(b, k) = NoValue
      OBVIOUS
    <3>1. Seen(<<b, k>>) = NoValue
      BY <1>3
    <3> QED
      BY <3>1 DEF Seen
  <2> QED
    BY <2>1 DEF Contents
<1>5. Hidden = {}
  BY <1>3 DEF Hidden, Seen, Stored
<1>6. Phase = [t \in Task |-> "idle"] /\ OwnCall = [t \in Task |-> NoCall]
  BY <1>2 DEF Phase, OwnCall
<1>7. Abstract!NoCall = NoCall
  BY DEF Abstract!NoCall, NoCall
<1> QED
  BY <1>2, <1>4, <1>5, <1>6, <1>7 DEF Abstract!Init, Unsure

\* A caller cannot tell the cached store from an atomic map in the pairs that it
\* alone uses, however small the cache, however many writes etcd applies late and
\* whatever other callers do to the keys they share.
THEOREM StoreIsMap == Spec => ImplementsMap
<1>1. Init => Abstract!Init
  BY InitRefines
<1>2. TypeInv /\ FreshInv /\ TypeInv' /\ [Next]_vars => [Abstract!Next]_(Abstract!vars)
  BY NextRefines
<1> QED
  BY <1>1, <1>2, Fresh, PTL DEF Spec, ImplementsMap, Abstract!Spec
=============================================================================
