----------------------------- MODULE HashRouting -----------------------------
(***************************************************************************)
(* How a network of nodes finds who stores a hash: HashQuery.HandleMessage *)
(* and StorageLocation.HandleMessage (protocol/hash_query.go and           *)
(* protocol/storage_location.go), and SendHashRequest, which starts it.    *)
(* Queries are passed on, askers are remembered in the node's              *)
(* hashQueryRoutingTable, and signed locations travel back to them.        *)
(*                                                                         *)
(* The tables are keyed by hash and hashes do not interact, so the module  *)
(* follows one hash.  A message in flight and the goroutine that handles   *)
(* it at the receiver are one job.  Goroutines are not ordered, so jobs    *)
(* are a set; a job equal to one that is running already adds nothing.     *)
(*                                                                         *)
(* waits, told, failed and raced are history variables: no action reads    *)
(* them.                                                                   *)
(***************************************************************************)
EXTENDS Naturals, FiniteSets

CONSTANTS
    Node,
    Link,          \* pairs <<m, n>>: m is in the peers map of n
    Scenarios      \* what may be the case, one of which is: which nodes have a
                   \* ProviderStore that provides the hash, on which a caller
                   \* looks for it, and whether buckets and sends may fail

ASSUME RoutingAssumption ==
    /\ Link \subseteq Node \X Node
    /\ \A l \in Link : l[1] # l[2] /\ <<l[2], l[1]>> \in Link
    /\ Scenarios \subseteq [provider : SUBSET Node, requester : SUBSET Node, faults : BOOLEAN]

Peers(n) == {m \in Node : <<m, n>> \in Link}

VARIABLES
    scenario,      \* never changes
    cached,        \* providers whose location a node keeps
    table,         \* hashQueryRoutingTable: who asked, {} when there is no entry
    jobs,          \* messages in flight and their handlers
    asked,         \* nodes that called SendHashRequest
    waits,         \* history: <<node, asker>> once entered in the routing table
    told,          \* history: those sent a location since
    failed,        \* history: those a location could not be sent to since
    raced          \* history: those whose entry an overlapping handler may drop

vars == <<scenario, cached, table, jobs, asked, waits, told, failed, raced>>
history == <<waits, told, failed, raced>>

Provider == scenario.provider
Requester == scenario.requester
Faults == scenario.faults

\* at: the node that handles it; from: the peer that sent it; about: the
\* provider a location names; known: the locations its handler has read;
\* list: the askers it has yet to serve.
Query(m, n) == [kind |-> "query", from |-> m, at |-> n, pc |-> "lookup", about |-> n,
                known |-> {}, list |-> {}]

Location(m, n, p) == [kind |-> "location", from |-> m, at |-> n, pc |-> "add", about |-> p,
                      known |-> {}, list |-> {}]

Job == [kind : {"query", "location"}, from : Node, at : Node,
        pc : {"lookup", "route", "put", "add", "store", "read", "send", "remove"},
        about : Node, known : SUBSET Node, list : SUBSET Node]

TypeOK ==
    /\ scenario \in Scenarios
    /\ cached \in [Node -> SUBSET Provider]
    /\ table \in [Node -> SUBSET Node]
    /\ jobs \subseteq Job
    /\ asked \subseteq Requester
    /\ waits \subseteq Link
    /\ told \subseteq waits /\ failed \subseteq waits /\ raced \subseteq waits

Init ==
    /\ scenario \in Scenarios
    /\ cached = [n \in Node |-> {}]
    /\ table = [n \in Node |-> {}]
    /\ jobs = {}
    /\ asked = {}
    /\ waits = {} /\ told = {} /\ failed = {} /\ raced = {}

-----------------------------------------------------------------------------
(* SendHashRequest and HashQuery.HandleMessage *)

\* Of the peers a loop sends to, those it reaches; errors are dropped.
Reached(s) == IF Faults THEN SUBSET s ELSE {s}

\* Job j goes on as the jobs s.
Becomes(j, s) == jobs' = (jobs \ {j}) \cup s

SendHashRequest(n) ==
    /\ n \in Requester \ asked
    /\ asked' = asked \cup {n}
    /\ \E r \in Reached(Peers(n)) : jobs' = jobs \cup {Query(n, m) : m \in r}
    /\ UNCHANGED <<scenario, cached, table, history>>

\* The location of the best node in the cache, then this node's own.  Scores
\* are not modelled: any cached node may be the best.
Answers(n) ==
    LET own == IF n \in Provider THEN {n} ELSE {}
    IN  IF cached[n] = {} THEN {own} ELSE {{p} \cup own : p \in cached[n]}

QueryLookup(j) ==
    /\ j \in jobs /\ j.pc = "lookup"
    /\ \E ps \in Answers(j.at) :
          Becomes(j, {[j EXCEPT !.pc = "route"]} \cup {Location(j.at, j.from, p) : p \in ps})
    /\ UNCHANGED <<scenario, cached, table, asked, history>>

\* The bucket cannot be read, or an answer cannot be sent, the second one
\* perhaps: the handler returns the error.
QueryFails(j) ==
    /\ Faults /\ j \in jobs /\ j.pc = "lookup"
    /\ \/ Becomes(j, {})
       \/ j.at \in Provider /\ \E p \in cached[j.at] : Becomes(j, {Location(j.at, j.from, p)})
    /\ UNCHANGED <<scenario, cached, table, asked, history>>

\* History of an asker entered in a routing table, where it replaced others.
\* It races with the handler of a location that has already read the entry.
Entered(n, m, replaced) ==
    LET late == \E j \in jobs : j.at = n /\ j.pc \in {"send", "remove"}
    IN  /\ waits' = waits \cup {<<n, m>>}
        /\ told' = told \ {<<n, m>>}
        /\ failed' = failed \ {<<n, m>>}
        /\ raced' = (raced \ {<<n, m>>})
                      \cup (IF late THEN {<<n, m>>} ELSE {})
                      \cup {<<n, p>> : p \in replaced \ {m}}

QueryRouteReplaces(j) ==                                          \* mutant
    /\ j \in jobs /\ j.pc = "route"
    /\ IF table[j.at] # {}
       THEN /\ table' = [table EXCEPT ![j.at] = {j.from}]
            /\ Becomes(j, {})
            /\ Entered(j.at, j.from, {})
       ELSE /\ Becomes(j, {[j EXCEPT !.pc = "put"]})
            /\ UNCHANGED <<table, history>>
    /\ UNCHANGED <<scenario, cached, asked>>

\* An entry exists: the asker joins it and the query goes no further.  Get
\* and Add are one step: an Add to a set that has left the table since Get
\* leaves the same as one just before the set leaves it.
QueryRoute(j) ==
    /\ j \in jobs /\ j.pc = "route"
    /\ IF table[j.at] # {}
       THEN /\ table' = [table EXCEPT ![j.at] = @ \cup {j.from}]
            /\ Becomes(j, {})
            /\ Entered(j.at, j.from, {})
       ELSE /\ Becomes(j, {[j EXCEPT !.pc = "put"]})
            /\ UNCHANGED <<table, history>>
    /\ UNCHANGED <<scenario, cached, asked>>

QueryPutUnasked(j) ==                                             \* mutant
    /\ j \in jobs /\ j.pc = "put"
    /\ table' = [table EXCEPT ![j.at] = {j.from}]
    /\ Becomes(j, {})
    /\ Entered(j.at, j.from, table[j.at])
    /\ UNCHANGED <<scenario, cached, asked>>

\* No entry was found: a new one replaces whatever is there by now, and the
\* query is passed on to every peer but the asker.
QueryPut(j) ==
    /\ j \in jobs /\ j.pc = "put"
    /\ table' = [table EXCEPT ![j.at] = {j.from}]
    /\ \E r \in Reached(Peers(j.at) \ {j.from}) : Becomes(j, {Query(j.at, m) : m \in r})
    /\ Entered(j.at, j.from, table[j.at])
    /\ UNCHANGED <<scenario, cached, asked>>

-----------------------------------------------------------------------------
(* StorageLocation.HandleMessage *)

\* The signature is good (others are refused): AddStorageLocation reads the
\* locations of the hash and, in a step of its own, writes them back with the
\* new one, over whatever another handler has written meanwhile.
LocationAdd(j) ==
    /\ j \in jobs /\ j.pc = "add"
    /\ Becomes(j, {[j EXCEPT !.pc = "store", !.known = cached[j.at]]})
    /\ UNCHANGED <<scenario, cached, table, asked, history>>

LocationStoreSender(j) ==                                         \* mutant
    /\ j \in jobs /\ j.pc = "store"
    /\ cached' = [cached EXCEPT ![j.at] = j.known \cup {j.from}]
    /\ Becomes(j, {[j EXCEPT !.pc = "read", !.known = {}]})
    /\ UNCHANGED <<scenario, table, asked, history>>

LocationStore(j) ==
    /\ j \in jobs /\ j.pc = "store"
    /\ cached' = [cached EXCEPT ![j.at] = j.known \cup {j.about}]
    /\ Becomes(j, {[j EXCEPT !.pc = "read", !.known = {}]})
    /\ UNCHANGED <<scenario, table, asked, history>>

\* The bucket fails.
LocationFails(j) ==
    /\ Faults /\ j \in jobs /\ j.pc \in {"add", "store"}
    /\ Becomes(j, {})
    /\ UNCHANGED <<scenario, cached, table, asked, history>>

\* The asker set, without the provider itself; no entry, nobody to tell.
LocationRead(j) ==
    /\ j \in jobs /\ j.pc = "read"
    /\ LET list == table[j.at] \ {j.about}
       IN  Becomes(j, IF list = {} THEN {} ELSE {[j EXCEPT !.pc = "send", !.list = list]})
    /\ UNCHANGED <<scenario, cached, table, asked, history>>

\* What is left of the loop once asker m has been seen to.
Loop(j, m) ==
    IF j.list = {m} THEN {} ELSE {[j EXCEPT !.pc = "send", !.list = @ \ {m}]}

\* One round of the loop: the asker is sent the location and the entry is
\* removed.  A send that fails leaves the entry; an asker that is no longer
\* among the peers is passed over and the entry removed.
LocationSend(j, m) ==
    /\ j \in jobs /\ j.pc = "send" /\ m \in j.list
    /\ LET removal == {[j EXCEPT !.pc = "remove", !.list = @ \ {m}]}
       IN  \/ /\ Becomes(j, removal \cup {Location(j.at, m, j.about)})
              /\ told' = told \cup {<<j.at, m>>}
              /\ UNCHANGED failed
           \/ /\ Faults
              /\ Becomes(j, Loop(j, m)) \/ Becomes(j, removal)
              /\ failed' = failed \cup {<<j.at, m>>}
              /\ UNCHANGED told
    /\ UNCHANGED <<scenario, cached, table, asked, waits, raced>>

LocationRemoveNot(j) ==                                           \* mutant
    /\ j \in jobs /\ j.pc = "remove"
    /\ Becomes(j, IF j.list = {} THEN {} ELSE {[j EXCEPT !.pc = "send"]})
    /\ UNCHANGED <<scenario, cached, table, asked, history>>

LocationRemove(j) ==
    /\ j \in jobs /\ j.pc = "remove"
    /\ table' = [table EXCEPT ![j.at] = {}]
    /\ Becomes(j, IF j.list = {} THEN {} ELSE {[j EXCEPT !.pc = "send"]})
    /\ UNCHANGED <<scenario, cached, asked, history>>

-----------------------------------------------------------------------------
HandleQuery(j) == QueryLookup(j) \/ QueryFails(j) \/ QueryRoute(j) \/ QueryPut(j)

HandleLocation(j) ==
    \/ LocationAdd(j) \/ LocationStore(j) \/ LocationFails(j)
    \/ LocationRead(j) \/ LocationRemove(j)
    \/ \E m \in Node : LocationSend(j, m)

Next ==
    \/ \E n \in Node : SendHashRequest(n)
    \/ \E j \in jobs : HandleQuery(j) \/ HandleLocation(j)

Spec == Init /\ [][Next]_vars

\* Messages are delivered and the goroutines that handle them run: handlers
\* that stand at the same step do not all stay there.
FairSpec ==
    /\ Spec
    /\ WF_vars(\E j \in jobs : QueryLookup(j))
    /\ WF_vars(\E j \in jobs : QueryRoute(j))
    /\ WF_vars(\E j \in jobs : QueryPut(j))
    /\ WF_vars(\E j \in jobs : LocationAdd(j))
    /\ WF_vars(\E j \in jobs : LocationStore(j))
    /\ WF_vars(\E j \in jobs : LocationRead(j))
    /\ WF_vars(\E j \in jobs, m \in Node : LocationSend(j, m))
    /\ WF_vars(\E j \in jobs : LocationRemove(j))

-----------------------------------------------------------------------------
(* Properties *)

\* An asker that was entered in a routing table is still there, or is about to
\* be served by a handler that has read the entry, or has been sent a location
\* since.  The exceptions are what the code does not rule out: the send
\* failed, a handler that overlapped the entry dropped it, or the asker is a
\* provider, which is never told of itself.
NoAskerForgotten ==
    \A w \in waits :
        \/ w[2] \in table[w[1]]
        \/ \E j \in jobs : j.at = w[1] /\ w[2] \in j.list
        \/ w \in told \cup failed \cup raced
        \/ w[2] \in Provider

\* Requests die out: from some moment on no message is in flight.  The entry in
\* the routing table stops a query, and its removal stops two nodes that asked
\* each other from sending one location back and forth.
Quiescence == <>[](jobs = {})

\* When nothing fails, a node that asks learns of a provider, however far away
\* it is, and never forgets all of them, although handlers write over each
\* other's locations.
RequesterLearns == \A n \in Node : (n \in asked /\ ~Faults) ~> [](cached[n] # {})
=============================================================================
