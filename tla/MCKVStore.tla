----------------------------- MODULE MCKVStore -----------------------------
(* KVStore on small instances: two callers that share a key, one of them     *)
(* with a key of its own beside it, and one caller of two buckets.           *)
EXTENDS KVStore

CONSTANTS b1, b2, k1, k2, k3, v1, v2, t1, t2

SharedKey == [t \in Task |-> IF t = t1 THEN {<<b1, k1>>, <<b2, k2>>} ELSE {<<b2, k2>>}]

Symmetric == Permutations(Value)

TwoBuckets == [t \in Task |-> {<<b1, k1>>, <<b2, k1>>}]
=============================================================================
