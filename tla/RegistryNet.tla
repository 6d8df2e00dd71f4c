---------------------------- MODULE RegistryNet ----------------------------
(***************************************************************************)
(* The registry services of a network of nodes, for one key: what the     *)
(* module Registry shows of one node, put together through the messages    *)
(* they exchange (service/default/registry.go, protocol/registry_entry.go, *)
(* protocol/registry_query.go).  A query is answered by a Get at the       *)
(* receiver, and such a Get asks that node's own peers in turn, the asker  *)
(* among them.  An entry is given to Set, which sends it, or a newer one,  *)
(* back to where it came from.                                             *)
(*                                                                         *)
(* An entry is its revision, 0 for none: those that fail their checks are  *)
(* refused by Set before anything else (Registry).  A message in flight    *)
(* and the goroutine that handles it are one job, and so is a Get of the   *)
(* program a node runs in.  Jobs are a set; a job equal to one that is     *)
(* there already adds nothing.  Sends and buckets do not fail here.        *)
(*                                                                         *)
(* seen and lowered are history variables: no action reads them.           *)
(***************************************************************************)
EXTENDS Naturals, FiniteSets, FiniteSetsExt

CONSTANTS
    Node,
    Link,          \* pairs <<m, n>>: m is in the peers map of n
    Client,        \* a peer that publishes entries and answers nothing
    MaxRevision,   \* publishes of different revisions: 1 to this bound
    Requester      \* nodes whose own program calls Get, once

ASSUME NetAssumption ==
    /\ Link \subseteq Node \X Node
    /\ \A l \in Link : l[1] # l[2] /\ <<l[2], l[1]>> \in Link
    /\ Client \notin Node
    /\ MaxRevision \in Nat
    /\ Requester \subseteq Node

Peers(n) == {m \in Node : <<m, n>> \in Link}

VARIABLES
    store,         \* the revision in each node's bucket, 0: no entry
    subs,          \* nodes whose subs map has the key
    jobs,          \* messages in flight, their handlers, and calls of Get
    published,     \* revisions clients have sent
    called,        \* requesters whose program has called Get
    seen,          \* history: the newest revision a node's peers had when it asked
    lowered        \* history: nodes whose stored revision went down

vars == <<store, subs, jobs, published, called, seen, lowered>>

\* An entry m sends to n, with its handler there.
Entry(m, n, r) == [kind |-> "entry", from |-> m, at |-> n, pc |-> "read", rev |-> r]

\* A query m sends to n, or a local call of Get, which comes from n itself.
Query(m, n) == [kind |-> "query", from |-> m, at |-> n, pc |-> "subs", rev |-> 0]

Init ==
    /\ store = [n \in Node |-> 0]
    /\ subs = {}
    /\ jobs = {}
    /\ published = {}
    /\ called = {}
    /\ seen = [n \in Node |-> 0]
    /\ lowered = {}

-----------------------------------------------------------------------------
(* Callers *)

Publish(n, r) ==
    /\ r \notin published
    /\ published' = published \cup {r}
    /\ jobs' = jobs \cup {Entry(Client, n, r)}
    /\ UNCHANGED <<store, subs, called, seen, lowered>>

CallGet(n) ==
    /\ n \in Requester \ called
    /\ called' = called \cup {n}
    /\ jobs' = jobs \cup {Query(n, n)}
    /\ UNCHANGED <<store, subs, published, seen, lowered>>

-----------------------------------------------------------------------------
(* Steps shared by the handlers *)

\* Job j goes on as the jobs s.
Becomes(j, s) == jobs' = (jobs \ {j}) \cup s

\* Messages to peer m; clients and the node's own program are not followed.
Send(j, message) == IF j.from \in Peers(j.at) THEN {message} ELSE {}

SendRegistryRequest(n) == {Query(n, m) : m \in Peers(n)}

\* The history of a request.
Asks(n) == seen' = [seen EXCEPT ![n] = Max({@} \cup {store[m] : m \in Peers(n)})]

-----------------------------------------------------------------------------
(* RegistryEntryRequest.HandleMessage: Set *)

SetReadEchoes(j) ==                                               \* mutant
    /\ j.kind = "entry" /\ j.pc = "read"
    /\ LET existing == store[j.at]
       IN  Becomes(j, CASE existing < j.rev -> {[j EXCEPT !.pc = "put"]}
                        [] existing >= j.rev -> Send(j, Entry(j.at, j.from, existing)))
    /\ UNCHANGED <<store, subs, published, called, seen, lowered>>

SetRead(j) ==
    /\ j.kind = "entry" /\ j.pc = "read"
    /\ LET existing == store[j.at]
       IN  Becomes(j, CASE existing < j.rev -> {[j EXCEPT !.pc = "put"]}
                        [] existing = j.rev -> {}
                        [] existing > j.rev -> Send(j, Entry(j.at, j.from, existing)))
    /\ UNCHANGED <<store, subs, published, called, seen, lowered>>

\* Put and BroadcastEntry, which sends to nobody but the peer it came from.
SetPut(j) ==
    /\ j.kind = "entry" /\ j.pc = "put"
    /\ store' = [store EXCEPT ![j.at] = j.rev]
    /\ Becomes(j, Send(j, Entry(j.at, j.from, j.rev)))
    /\ lowered' = IF store[j.at] > j.rev THEN lowered \cup {j.at} ELSE lowered
    /\ UNCHANGED <<subs, published, called, seen>>

-----------------------------------------------------------------------------
(* RegistryQuery.HandleMessage: Get, and the reply *)

\* subs.Contains; a key that is not subscribed is asked for at once.
GetSubs(j) ==
    /\ j.kind = "query" /\ j.pc = "subs"
    /\ IF j.at \in subs
       THEN Becomes(j, {[j EXCEPT !.pc = "cachedRead"]}) /\ UNCHANGED seen
       ELSE /\ Becomes(j, {[j EXCEPT !.pc = "subscribe"]} \cup SendRegistryRequest(j.at))
            /\ Asks(j.at)
    /\ UNCHANGED <<store, subs, published, called, lowered>>

GetSubscribe(j) ==
    /\ j.pc = "subscribe"
    /\ subs' = subs \cup {j.at}
    /\ Becomes(j, {[j EXCEPT !.pc = "poll"]})
    /\ UNCHANGED <<store, published, called, seen, lowered>>

FoundUnsent(j) ==                                                 \* mutant
    /\ store[j.at] # 0
    /\ Becomes(j, {})

\* Get returns what it read, and the asker is sent it.
Found(j) ==
    /\ store[j.at] # 0
    /\ Becomes(j, Send(j, Entry(j.at, j.from, store[j.at])))

\* The read after the request and the 200 polls; the last of them may find
\* nothing, at any time after the request was sent.
GetPoll(j) ==
    /\ j.pc = "poll"
    /\ \/ Found(j)
       \/ store[j.at] = 0 /\ Becomes(j, {})
    /\ UNCHANGED <<store, subs, published, called, seen, lowered>>

\* A subscribed key is asked for when the bucket has nothing; the sleep of
\* 200 ms and the last read that follow are like the polls.
GetCachedRead(j) ==
    /\ j.pc = "cachedRead"
    /\ \/ Found(j) /\ UNCHANGED seen
       \/ /\ store[j.at] = 0
          /\ Becomes(j, {[j EXCEPT !.pc = "poll"]} \cup SendRegistryRequest(j.at))
          /\ Asks(j.at)
    /\ UNCHANGED <<store, subs, published, called, lowered>>

-----------------------------------------------------------------------------
Handle(j) ==
    \/ SetRead(j) \/ SetPut(j)
    \/ GetSubs(j) \/ GetSubscribe(j) \/ GetPoll(j) \/ GetCachedRead(j)

Next ==
    \/ \E n \in Node, r \in 1 .. MaxRevision : Publish(n, r)
    \/ \E n \in Node : CallGet(n)
    \/ \E j \in jobs : Handle(j)

Spec == Init /\ [][Next]_vars

\* Messages are delivered and the goroutines that handle them run: at each
\* node, handlers that stand at the same step do not all stay there.  Nobody has to
\* publish or to call Get.
FairSpec ==
    /\ Spec
    /\ \A n \in Node :
          /\ WF_vars(\E j \in jobs : j.at = n /\ SetRead(j))
          /\ WF_vars(\E j \in jobs : j.at = n /\ SetPut(j))
          /\ WF_vars(\E j \in jobs : j.at = n /\ GetSubs(j))
          /\ WF_vars(\E j \in jobs : j.at = n /\ GetSubscribe(j))
          /\ WF_vars(\E j \in jobs : j.at = n /\ GetPoll(j))
          /\ WF_vars(\E j \in jobs : j.at = n /\ GetCachedRead(j))

-----------------------------------------------------------------------------
(* Properties *)

\* Once some node has an entry the messages die out, although a Get that finds
\* nothing asks every peer, whose Gets ask back.  (While nobody has one, two
\* nodes that have subscribed to the key ask each other for ever.)
QueriesEnd == <>[](jobs = {}) \/ [](\A n \in Node : store[n] = 0)

\* A node that has asked comes to have a revision as new as any its peers had
\* then, though its own Get may have returned before (a lost update excepted);
\* and one that asks before anybody has an entry gets it when it appears.
AskersCatchUp ==
    \A n \in Node :
        /\ \A r \in 1 .. MaxRevision : (seen[n] = r) ~> (store[n] >= r \/ lowered # {})
        /\ (n \in called /\ \E m \in Node : store[m] # 0) ~> (store[n] # 0)
=============================================================================
