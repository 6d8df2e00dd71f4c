------------------------------ MODULE KVStore ------------------------------
(***************************************************************************)
(* BboltDBKVStore and EtcdKVStore (db/bboltdb.go, db/etcd.go): a database  *)
(* behind an LRU cache (db/lru.go) that all buckets of a store share.  The *)
(* cache and the database are each safe for concurrent use; a call touches *)
(* one and then the other, so it is two or three steps.  The cache is      *)
(* keyed by the bare key: the bucket's name is not part of it.             *)
(***************************************************************************)
EXTENDS Naturals, FiniteSets, Sequences, SequencesExt

CONSTANTS Bucket, Key, Value, NoValue, Task,
          MayUse,         \* task -> the <<bucket, key>> pairs it works on
          CacheSize,      \* entries the LRU cache holds
          MaxInFlight     \* timed-out writes etcd may still apply; 0 for bbolt

ASSUME KVAssumption ==
    /\ CacheSize \in Nat \ {0} /\ MaxInFlight \in Nat
    /\ NoValue \notin Value \cup Bucket \cup Key
    /\ MayUse \in [Task -> SUBSET (Bucket \X Key)]

VARIABLES disk,           \* the database
          cache,          \* <<key, value>> pairs, the least recently used first
          inFlight,       \* <<bucket, key, value>> writes etcd may still apply
          call,           \* the present call of each task
          pc,             \* how far it is
          late,           \* <<bucket, key>> whose last write came in late (history)
          overtaken,      \* tasks with a value for the cache that another call's
                          \* write to the pair has made old (history)
          outdated        \* <<bucket, key>> whose last cache access was that of
                          \* such a task (history)

history == <<late, overtaken, outdated>>

vars == <<disk, cache, inFlight, call, pc, history>>

\* The bucket and key of a task's call.
Pair(t) == <<call[t].bucket, call[t].key>>

\* Pairs whose bare key is used in no other bucket.
SoleBucket ==
    {x \in UNION {MayUse[t] : t \in Task} : \A t \in Task : \A y \in MayUse[t] : y[2] = x[2] => y = x}

\* Those of them that a single task uses.
OwnPairs ==
    {x \in SoleBucket : \A t, u \in Task : x \in MayUse[t] /\ x \in MayUse[u] => t = u}

Holds(s, k) == \E i \in DOMAIN s : s[i][1] = k

Place(s, k) == CHOOSE i \in DOMAIN s : s[i][1] = k

NoCall == [op |-> "none", bucket |-> NoValue, key |-> NoValue, value |-> NoValue,
           result |-> NoValue]

\* The cached value of a key that the cache holds.
Cached(k) == cache[Place(cache, k)][2]

\* What the caller of a pair of its own finds: the write or read it is in the
\* middle of, else the cache, else the database.
Visible(b, k) ==
    LET at(ls) == {t \in Task : pc[t] \in ls /\ Pair(t) = <<b, k>>}
    IN  IF at({"update"}) # {} THEN call[CHOOSE t \in at({"update"}) : TRUE].value
        ELSE IF at({"fill"}) # {} THEN call[CHOOSE t \in at({"fill"}) : TRUE].result
        ELSE IF Holds(cache, k) THEN Cached(k)
        ELSE disk[b][k]

\* A late write that the cache hides is as good as still on its way.
Hidden ==
    {<<u[1], u[2], disk[u[1]][u[2]]>> :
        u \in {w \in OwnPairs : disk[w[1]][w[2]] # Visible(w[1], w[2])}}

\* The state of the abstract map: pairs with one caller, and the calls on them.
Contents ==
    [b \in Bucket |-> [k \in Key |-> IF <<b, k>> \in OwnPairs THEN Visible(b, k) ELSE NoValue]]

Unsure == {w \in inFlight : <<w[1], w[2]>> \in OwnPairs} \cup Hidden

OwnCall == [t \in Task |-> IF Pair(t) \in OwnPairs THEN call[t] ELSE NoCall]

Phase == [t \in Task |-> CASE pc[t] = "idle" \/ Pair(t) \notin OwnPairs -> "idle"
                           [] pc[t] \in {"lookup", "disk"} /\ Pair(t) \in OwnPairs -> "called"
                           [] OTHER -> "done"]

Abstract == INSTANCE KVMap
            WITH MayUse <- [t \in Task |-> MayUse[t] \cap OwnPairs],
                 map <- Contents, unsure <- Unsure, call <- OwnCall, phase <- Phase

TypeOK ==
    /\ disk \in [Bucket -> [Key -> Value \cup {NoValue}]]
    /\ cache \in Seq(Key \X Value) /\ Len(cache) <= CacheSize
    /\ inFlight \in SUBSET (Bucket \X Key \X (Value \cup {NoValue}))
    /\ late \in SUBSET (Bucket \X Key) /\ outdated \in SUBSET (Bucket \X Key)
    /\ overtaken \in SUBSET {t \in Task : pc[t] \in {"fill", "update"}}
    /\ \A i, j \in DOMAIN cache : cache[i][1] = cache[j][1] => i = j
    /\ pc \in [Task -> {"idle", "lookup", "disk", "fill", "update", "done"}]
    /\ \A t \in Task : pc[t] # "idle" => /\ call[t].op \in {"get", "put", "delete"}
                                         /\ Pair(t) \in MayUse[t]

Init ==
    /\ disk = [b \in Bucket |-> [k \in Key |-> NoValue]]
    /\ cache = <<>>
    /\ inFlight = {}
    /\ late = {} /\ overtaken = {} /\ outdated = {}
    /\ call = [t \in Task |-> NoCall]
    /\ pc = [t \in Task |-> "idle"]

-----------------------------------------------------------------------------
(* LRUCache *)

Without(s, k) == IF Holds(s, k) THEN RemoveAt(s, Place(s, k)) ELSE s

CacheAddUnbounded(s, k, v) == Append(Without(s, k), <<k, v>>)     \* mutant

\* Add makes the entry the most recent one and may push out the oldest.
CacheAdd(s, k, v) ==
    LET added == Append(Without(s, k), <<k, v>>)
    IN  IF Len(added) > CacheSize THEN Tail(added) ELSE added

-----------------------------------------------------------------------------
(* Get, Put and Delete *)

Goto(t, l) == pc' = [pc EXCEPT ![t] = l]

Begin(t, o, b, k, v) ==
    /\ pc[t] = "idle"
    /\ call' = [call EXCEPT ![t] = [op |-> o, bucket |-> b, key |-> k, value |-> v,
                                    result |-> NoValue]]
    /\ Goto(t, IF o = "get" THEN "lookup" ELSE "disk")
    /\ UNCHANGED <<disk, cache, inFlight, history>>

\* cache.Get: a hit ends the call and refreshes the entry.
Lookup(t) ==
    /\ pc[t] = "lookup"
    /\ LET k == call[t].key
       IN  IF Holds(cache, k)
           THEN /\ call' = [call EXCEPT ![t].result = Cached(k)]
                /\ cache' = Append(Without(cache, k), <<k, Cached(k)>>)
                /\ Goto(t, "done")
           ELSE /\ Goto(t, "disk")
                /\ UNCHANGED <<call, cache>>
    /\ UNCHANGED <<disk, inFlight, history>>

\* db.View, or the Get of the etcd client; an absent key is not cached.
DiskGet(t) ==
    /\ pc[t] = "disk" /\ call[t].op = "get"
    /\ LET v == disk[call[t].bucket][call[t].key]
       IN  /\ call' = [call EXCEPT ![t].result = v]
           /\ Goto(t, IF v = NoValue THEN "done" ELSE "fill")
    /\ UNCHANGED <<disk, cache, inFlight, history>>

\* The call has come to the cache, with an old value if it was overtaken.
ReachesCache(t) ==
    /\ outdated' = IF t \in overtaken THEN outdated \cup {Pair(t)} ELSE outdated \ {Pair(t)}
    /\ overtaken' = overtaken \ {t}

Fill(t) ==
    /\ pc[t] = "fill"
    /\ cache' = CacheAdd(cache, call[t].key, call[t].result)
    /\ ReachesCache(t)
    /\ Goto(t, "done")
    /\ UNCHANGED <<disk, inFlight, call, late>>

\* db.Update, or the Put or Delete of the etcd client.
DiskWrite(t) ==
    /\ pc[t] = "disk" /\ call[t].op \in {"put", "delete"}
    /\ disk' = [disk EXCEPT ![call[t].bucket][call[t].key] = call[t].value]
    /\ late' = late \ {Pair(t)}
    /\ overtaken' = overtaken \cup {u \in Task : pc[u] \in {"fill", "update"} /\ Pair(u) = Pair(t)}
    /\ Goto(t, "update")
    /\ UNCHANGED <<cache, inFlight, call, outdated>>

\* The database refuses, or the request to etcd times out unserved.
DiskFails(t) ==
    /\ pc[t] = "disk"
    /\ call' = [call EXCEPT ![t].result = "error"]
    /\ Goto(t, "done")
    /\ UNCHANGED <<disk, cache, inFlight, history>>

\* The context of a write to etcd expires while the request is under way.
TimesOut(t) ==
    /\ pc[t] = "disk" /\ call[t].op \in {"put", "delete"}
    /\ Cardinality(inFlight) < MaxInFlight
    /\ inFlight' = inFlight \cup {<<call[t].bucket, call[t].key, call[t].value>>}
    /\ call' = [call EXCEPT ![t].result = "error"]
    /\ Goto(t, "done")
    /\ UNCHANGED <<disk, cache, history>>

\* etcd applies such a write.
Applied(w) ==
    /\ disk' = [disk EXCEPT ![w[1]][w[2]] = w[3]]
    /\ inFlight' = inFlight \ {w}
    /\ late' = late \cup {<<w[1], w[2]>>}
    /\ UNCHANGED <<cache, call, pc, overtaken, outdated>>

CacheUpdatePutOnly(t) ==                                          \* mutant
    /\ pc[t] = "update"
    /\ cache' = IF call[t].op = "put" THEN CacheAdd(cache, call[t].key, call[t].value) ELSE cache
    /\ ReachesCache(t)
    /\ Goto(t, "done")
    /\ UNCHANGED <<disk, inFlight, call, late>>

CacheUpdate(t) ==
    /\ pc[t] = "update"
    /\ cache' = IF call[t].op = "put" THEN CacheAdd(cache, call[t].key, call[t].value)
                                      ELSE Without(cache, call[t].key)
    /\ ReachesCache(t)
    /\ Goto(t, "done")
    /\ UNCHANGED <<disk, inFlight, call, late>>

Return(t) ==
    /\ pc[t] = "done"
    /\ call' = [call EXCEPT ![t] = NoCall]
    /\ Goto(t, "idle")
    /\ UNCHANGED <<disk, cache, inFlight, history>>

Step(t) ==
    \/ Lookup(t) \/ DiskGet(t) \/ Fill(t)
    \/ DiskWrite(t) \/ DiskFails(t) \/ TimesOut(t) \/ CacheUpdate(t) \/ Return(t)

Next ==
    \/ \E t \in Task :
        \/ \E u \in MayUse[t], v \in Value : Begin(t, "put", u[1], u[2], v)
        \/ \E u \in MayUse[t], o \in {"get", "delete"} : Begin(t, o, u[1], u[2], NoValue)
        \/ Step(t)
    \/ \E w \in inFlight : Applied(w)

Spec == Init /\ [][Next]_vars

-----------------------------------------------------------------------------
(* Properties *)

\* A caller cannot tell the store from an atomic map in the pairs it alone uses:
\* the shared cache, its evictions and what other callers do to other keys, even
\* if they race for them, are invisible (Get, Put and Delete of both stores).  A
\* write that timed out shows later or never, maybe long after, when the cache
\* lets go of the value it hid.
ImplementsMap == Abstract!Spec

\* However many callers share a key, its cached value differs from the database
\* only until the last call that wrote the key has reached the cache, since etcd
\* applied a write that had timed out, or because the call that last reached the
\* cache was overtaken: another one had written the key after it had read or
\* written it.  A call that is not overtaken repairs the entry.  (A bare key that
\* is used in two buckets is GetOwnBucket's case.)
CacheStaleOnlyIfOvertaken ==
    \A x \in SoleBucket :
        Holds(cache, x[2]) /\ Cached(x[2]) # disk[x[1]][x[2]]
        => \/ x \in late \cup outdated
           \/ \E t \in Task \ overtaken : pc[t] = "update" /\ Pair(t) = x

\* A Get returns the value associated with the key in its own bucket ("Get
\* retrieves the value associated with the given key").
GetOwnBucket ==
    \A t \in Task :
        pc[t] = "done" /\ call[t].op = "get" /\ call[t].result # "error"
        => call[t].result = disk[call[t].bucket][call[t].key]
=============================================================================
