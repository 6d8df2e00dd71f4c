------------------------------- MODULE KVMap -------------------------------
(***************************************************************************)
(* What db.KVStore promises its callers: buckets of keys, and calls that   *)
(* take effect at one moment between their start and their return.  A call *)
(* that fails has no effect, except that a write whose reply was lost may  *)
(* still take effect at any later moment.  The same write lost twice is    *)
(* kept as one, so taking effect need not use it up.                       *)
(***************************************************************************)
CONSTANTS Bucket, Key, Value, NoValue, Task,
          MayUse          \* task -> the <<bucket, key>> pairs it works on

VARIABLES map,            \* the contents
          unsure,         \* <<bucket, key, value>> writes that failed and may yet take effect
          call,           \* the present call of each task
          phase           \* "idle", "called" or "done"

vars == <<map, unsure, call, phase>>

Ops == {"get", "put", "delete"}

NoCall == [op |-> "none", bucket |-> NoValue, key |-> NoValue, value |-> NoValue,
           result |-> NoValue]

Init ==
    /\ map = [b \in Bucket |-> [k \in Key |-> NoValue]]
    /\ unsure = {}
    /\ call = [t \in Task |-> NoCall]
    /\ phase = [t \in Task |-> "idle"]

Invoke(t, o, b, k, v) ==
    /\ phase[t] = "idle"
    /\ call' = [call EXCEPT ![t] = [op |-> o, bucket |-> b, key |-> k, value |-> v,
                                    result |-> NoValue]]
    /\ phase' = [phase EXCEPT ![t] = "called"]
    /\ UNCHANGED <<map, unsure>>

\* The moment the call takes effect, or fails; a write it overtakes may be lost.
Effect(t) ==
    /\ phase[t] = "called"
    /\ phase' = [phase EXCEPT ![t] = "done"]
    /\ LET c == call[t]
       IN  \/ /\ c.op = "get"
              /\ call' = [call EXCEPT ![t].result = map[c.bucket][c.key]]
              /\ UNCHANGED <<map, unsure>>
           \/ /\ c.op \in {"put", "delete"}
              /\ map' = [map EXCEPT ![c.bucket][c.key] = c.value]
              /\ unsure' \in SUBSET unsure
              /\ UNCHANGED call
           \/ /\ call' = [call EXCEPT ![t].result = "error"]
              /\ unsure' \in {unsure} \cup (IF c.op = "get" THEN {}
                                          ELSE {unsure \cup {<<c.bucket, c.key, c.value>>}})
              /\ UNCHANGED map

\* A write that failed takes effect after all.
Late(w) ==
    /\ map' = [map EXCEPT ![w[1]][w[2]] = w[3]]
    /\ unsure' \in SUBSET unsure
    /\ UNCHANGED <<call, phase>>

\* It is overtaken before anyone has seen it.
Lost ==
    /\ unsure' \in SUBSET unsure
    /\ UNCHANGED <<map, call, phase>>

Return(t) ==
    /\ phase[t] = "done"
    /\ phase' = [phase EXCEPT ![t] = "idle"]
    /\ call' = [call EXCEPT ![t] = NoCall]
    /\ UNCHANGED <<map, unsure>>

Next ==
    \/ \E t \in Task :
        \/ \E u \in MayUse[t], v \in Value : Invoke(t, "put", u[1], u[2], v)
        \/ \E u \in MayUse[t], o \in {"get", "delete"} : Invoke(t, o, u[1], u[2], NoValue)
        \/ Effect(t)
        \/ Return(t)
    \/ \E w \in unsure : Late(w)
    \/ Lost

Spec == Init /\ [][Next]_vars
=============================================================================
