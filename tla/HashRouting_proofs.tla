------------------------- MODULE HashRouting_proofs -------------------------
(***************************************************************************)
(* What holds of hash queries and locations on every network, cycles       *)
(* included, for any set of providers and requesters and with or without   *)
(* faults.  TLC checks the same on a path of three nodes.                  *)
(***************************************************************************)
EXTENDS HashRouting, TLAPS

Serving == {"send", "remove"}

LocationPCs == {"add", "store", "read", "send", "remove"}

\* A job came over a link, a location names a provider, and only a handler in
\* its loop has a list, of askers that were entered.
JobInv(j) ==
    /\ j \in Job
    /\ <<j.at, j.from>> \in Link
    /\ j.known \subseteq Provider
    /\ j.pc \in LocationPCs => j.about \in Provider
    /\ j.pc \notin Serving => j.list = {}
    /\ \A p \in j.list : <<j.at, p>> \in waits

\* While a handler goes through its list, the askers of the entry it will
\* remove are on the list, were seen to, or came late.
ServeInv(j) ==
    j.pc \in Serving =>
        \A p \in table[j.at] :
            \/ p \in j.list
            \/ <<j.at, p>> \in told \cup failed \cup raced
            \/ p \in Provider

TableInv == \A n \in Node : \A p \in table[n] : <<n, p>> \in waits

Inv ==
    /\ TypeOK
    /\ TableInv
    /\ \A j \in jobs : JobInv(j) /\ ServeInv(j)
    /\ NoAskerForgotten

\* An idle network.
LEMMA InitInv == Init => Inv
BY RoutingAssumption DEF Init, Inv, TypeOK, TableInv, NoAskerForgotten, Provider, Requester

\* A query sent over a link, and the location sent back over it.
LEMMA NewMessages ==
    ASSUME TypeOK, NEW m \in Node, NEW n \in Node, <<n, m>> \in Link
    PROVE  /\ JobInv(Query(m, n)) /\ ServeInv(Query(m, n))
           /\ \A p \in Provider : JobInv(Location(m, n, p)) /\ ServeInv(Location(m, n, p))
<1>1. Provider \subseteq Node
  BY RoutingAssumption DEF TypeOK, Provider
<1> QED
  BY <1>1 DEF JobInv, ServeInv, Job, Query, Location, Serving, LocationPCs

\* A handler outside the loop over the askers that leaves the routing table
\* alone and goes on as good jobs preserves Inv.
LEMMA Passed ==
    ASSUME Inv, NEW j \in jobs, NEW s, Becomes(j, s), j.pc \notin Serving,
           \A k \in s : JobInv(k) /\ ServeInv(k),
           cached' \in [Node -> SUBSET Provider],
           UNCHANGED <<scenario, table, asked, history>>
    PROVE  Inv'
<1>1. j.list = {}
  BY DEF Inv, JobInv
<1>2. Provider' = Provider /\ Requester' = Requester
  BY DEF Provider, Requester
<1>3. ASSUME NEW k \in jobs'
      PROVE  JobInv(k)' /\ ServeInv(k)'
  <2>1. JobInv(k) /\ ServeInv(k)
    BY DEF Inv, Becomes
  <2> QED
    BY <1>2, <2>1 DEF JobInv, ServeInv, history
<1>4. TypeOK' /\ TableInv'
  BY <1>2, <1>3 DEF Inv, TypeOK, TableInv, JobInv, history
<1>5. NoAskerForgotten'
  BY <1>1, <1>2 DEF Inv, NoAskerForgotten, Becomes, history
<1> QED
  BY <1>3, <1>4, <1>5 DEF Inv

\* The steps of a query's handler before it touches the routing table, and those
\* of a location's handler before its loop.
LEMMA QuietSteps ==
    ASSUME Inv, NEW j \in jobs,
           \/ QueryLookup(j) \/ QueryFails(j) \/ LocationAdd(j) \/ LocationStore(j)
           \/ LocationFails(j) \/ LocationRead(j)
           \/ QueryRoute(j) /\ table[j.at] = {}
    PROVE  Inv'
<1> USE DEF Serving, LocationPCs
<1>1. /\ JobInv(j) /\ j.at \in Node /\ j.from \in Node /\ j.pc \notin Serving
      /\ <<j.at, j.from>> \in Link /\ <<j.from, j.at>> \in Link
      /\ cached \in [Node -> SUBSET Provider] /\ TypeOK
  BY RoutingAssumption DEF Inv, TypeOK, JobInv, Job, QueryLookup, QueryFails, LocationAdd, LocationStore,
     LocationFails, LocationRead, QueryRoute
<1>2. \A p \in Provider : LET k == Location(j.at, j.from, p) IN JobInv(k) /\ ServeInv(k)
  BY <1>1, NewMessages
<1>3. CASE QueryLookup(j)
  <2>1. PICK ps \in Answers(j.at) :
          Becomes(j, {[j EXCEPT !.pc = "route"]} \cup {Location(j.at, j.from, p) : p \in ps})
    BY <1>3 DEF QueryLookup
  <2>2. ps \subseteq Provider
    BY <1>1 DEF Answers
  <2>3. LET k == [j EXCEPT !.pc = "route"] IN JobInv(k) /\ ServeInv(k)
    BY <1>1, <1>3 DEF JobInv, ServeInv, Job, QueryLookup
  <2> DEFINE s == {[j EXCEPT !.pc = "route"]} \cup {Location(j.at, j.from, p) : p \in ps}
  <2>4. \A k \in s : JobInv(k) /\ ServeInv(k)
    BY <1>2, <2>2, <2>3
  <2>5. UNCHANGED <<scenario, cached, table, asked, history>>
    BY <1>3 DEF QueryLookup
  <2> HIDE DEF s
  <2> QED
    BY <1>1, <2>1, <2>4, <2>5, Passed DEF s
<1>4. CASE QueryFails(j)
  <2>1. UNCHANGED <<scenario, cached, table, asked, history>>
    BY <1>4 DEF QueryFails
  <2>2. CASE Becomes(j, {})
    BY <1>1, <2>1, <2>2, Passed
  <2>3. ASSUME NEW p \in cached[j.at], Becomes(j, {Location(j.at, j.from, p)})
        PROVE  Inv'
    <3>1. p \in Provider
      BY <1>1, <2>3
    <3> QED
      BY <1>1, <1>2, <2>1, <2>3, <3>1, Passed
  <2> QED
    BY <1>4, <2>2, <2>3 DEF QueryFails
<1>5. CASE LocationAdd(j)
  <2> DEFINE k == [j EXCEPT !.pc = "store", !.known = cached[j.at]]
  <2>1. JobInv(k) /\ ServeInv(k)
    <3>1. cached[j.at] \subseteq Provider /\ Provider \subseteq Node
      BY <1>1, RoutingAssumption DEF TypeOK, Provider
    <3> QED
      BY <1>1, <1>5, <3>1 DEF JobInv, ServeInv, Job, LocationAdd
  <2> QED
    BY <1>1, <1>5, <2>1, Passed DEF LocationAdd
<1>6. CASE LocationStore(j)
  <2> DEFINE k == [j EXCEPT !.pc = "read", !.known = {}]
  <2>1. JobInv(k) /\ ServeInv(k)
    BY <1>1, <1>6 DEF JobInv, ServeInv, Job, LocationStore
  <2>2. cached' \in [Node -> SUBSET Provider]
    BY <1>1, <1>6 DEF JobInv, LocationStore
  <2> QED
    BY <1>1, <1>6, <2>1, <2>2, Passed DEF LocationStore
<1>7. CASE LocationFails(j)
  BY <1>1, <1>7, Passed DEF LocationFails
<1>8. CASE LocationRead(j)
  <2> DEFINE list == table[j.at] \ {j.about}
             k == [j EXCEPT !.pc = "send", !.list = list]
  <2>1. JobInv(k) /\ ServeInv(k)
    <3>1. table[j.at] \subseteq Node /\ \A p \in list : <<j.at, p>> \in waits
      BY <1>1 DEF Inv, TypeOK, TableInv
    <3>2. j.about \in Provider
      BY <1>1, <1>8 DEF JobInv, LocationRead
    <3> QED
      BY <1>1, <1>8, <3>1, <3>2 DEF JobInv, ServeInv, Job, LocationRead
  <2>2. Becomes(j, {}) \/ Becomes(j, {k})
    BY <1>8 DEF LocationRead
  <2> QED
    BY <1>1, <1>8, <2>1, <2>2, Passed DEF LocationRead
<1>9. CASE QueryRoute(j) /\ table[j.at] = {}
  <2> DEFINE k == [j EXCEPT !.pc = "put"]
  <2>1. JobInv(k) /\ ServeInv(k)
    BY <1>1, <1>9 DEF JobInv, ServeInv, Job, QueryRoute
  <2> QED
    BY <1>1, <1>9, <2>1, Passed DEF QueryRoute
<1> QED
  BY <1>3, <1>4, <1>5, <1>6, <1>7, <1>8, <1>9

\* A caller looks for the hash.
LEMMA RequestStep == ASSUME Inv, NEW n \in Node, SendHashRequest(n) PROVE Inv'
<1>1. Provider' = Provider /\ Requester' = Requester
  BY DEF SendHashRequest, Provider, Requester
<1>2. PICK r \in SUBSET Peers(n) : jobs' = jobs \cup {Query(n, m) : m \in r}
  BY DEF SendHashRequest, Reached
<1>3. ASSUME NEW k \in jobs'
      PROVE  JobInv(k)' /\ ServeInv(k)'
  <2>1. \A m \in r : JobInv(Query(n, m)) /\ ServeInv(Query(n, m))
    BY <1>2, NewMessages, RoutingAssumption DEF Peers, Inv
  <2>2. JobInv(k) /\ ServeInv(k)
    BY <1>2, <2>1 DEF Inv
  <2> QED
    BY <1>1, <2>2 DEF JobInv, ServeInv, history, SendHashRequest
<1> QED
  BY <1>1, <1>2, <1>3 DEF Inv, TypeOK, TableInv, NoAskerForgotten, JobInv, history, SendHashRequest

\* An asker enters the routing table.  A handler in its loop sees it as late, and
\* those whose entry it replaces are remembered as dropped by a race.
LEMMA EnterStep ==
    ASSUME Inv, NEW j \in jobs, j.pc \notin Serving, NEW s, Becomes(j, s),
           \A k \in s : JobInv(k) /\ k.pc \notin Serving,
           NEW t \in SUBSET Node, j.from \in t, t \subseteq table[j.at] \cup {j.from},
           table' = [table EXCEPT ![j.at] = t],
           NEW r, r \ {j.from} = table[j.at] \ t,
           Entered(j.at, j.from, r),
           UNCHANGED <<scenario, cached, asked>>
    PROVE  Inv'
<1>1. /\ j \in Job /\ j.at \in Node /\ j.from \in Node /\ j.list = {}
      /\ <<j.at, j.from>> \in Link
      /\ table \in [Node -> SUBSET Node]
      /\ table'[j.at] = t /\ \A n \in Node \ {j.at} : table'[n] = table[n]
  BY DEF Inv, JobInv, TypeOK, Job
<1>2. Provider' = Provider /\ Requester' = Requester
  BY DEF Provider, Requester
<1> DEFINE e == <<j.at, j.from>>
<1>3. /\ waits' = waits \cup {e} /\ told' = told \ {e} /\ failed' = failed \ {e}
      /\ raced \ {e} \subseteq raced'
      /\ \A p \in table[j.at] \ t : <<j.at, p>> \in raced'
      /\ (\E k \in jobs : k.at = j.at /\ k.pc \in Serving) => e \in raced'
  BY DEF Entered, Serving
<1>4. \A p \in table[j.at] : <<j.at, p>> \in waits
  BY <1>1 DEF Inv, TableInv
<1>5. raced' \subseteq waits'
  BY <1>4, <1>1 DEF Entered, Inv, TypeOK
<1>6. TypeOK'
  <2>1. jobs' \subseteq Job
    BY DEF Inv, TypeOK, Becomes, JobInv
  <2>2. table' \in [Node -> SUBSET Node]
    BY <1>1
  <2> QED
    BY <1>1, <1>2, <1>3, <1>5, <2>1, <2>2 DEF Inv, TypeOK
<1>7. TableInv'
  BY <1>1, <1>3, <1>4 DEF Inv, TableInv
<1>8. ASSUME NEW k \in jobs'
      PROVE  JobInv(k)' /\ ServeInv(k)'
  <2>1. JobInv(k)
    BY DEF Inv, Becomes
  <2>2. JobInv(k)'
    BY <1>2, <1>3, <2>1 DEF JobInv
  <2>3. ASSUME k.pc \in Serving, NEW p \in table'[k.at]
        PROVE  p \in k.list \/ <<k.at, p>> \in told' \cup failed' \cup raced' \/ p \in Provider'
    <3>1. k \in jobs /\ k.at \in Node
      BY <2>1, <2>3 DEF Becomes, JobInv, Job
    <3>2. CASE k.at = j.at /\ p = j.from
      BY <3>1, <3>2, <2>3, <1>3
    <3>3. CASE <<k.at, p>> # e
      <4>1. p \in table[k.at]
        BY <1>1, <2>3, <3>1, <3>3
      <4>2. p \in k.list \/ <<k.at, p>> \in told \cup failed \cup raced \/ p \in Provider
        BY <2>3, <3>1, <4>1 DEF Inv, ServeInv
      <4> QED
        BY <1>2, <1>3, <3>3, <4>2
    <3> QED
      BY <3>2, <3>3
  <2> QED
    BY <2>2, <2>3 DEF ServeInv
<1>9. NoAskerForgotten'
  <2> SUFFICES ASSUME NEW w \in waits', w[2] \notin table'[w[1]]
               PROVE  \/ \E k \in jobs' : k.at = w[1] /\ w[2] \in k.list
                      \/ w \in told' \cup failed' \cup raced'
                      \/ w[2] \in Provider'
    BY DEF NoAskerForgotten
  <2>1. w # e /\ w \in waits /\ w = <<w[1], w[2]>> /\ w[1] \in Node
    BY <1>1, <1>3, <1>6, RoutingAssumption DEF Inv, TypeOK
  <2>2. CASE w[2] \in table[w[1]]
    BY <1>1, <1>3, <2>1, <2>2
  <2>3. CASE \E k \in jobs : k.at = w[1] /\ w[2] \in k.list
    BY <1>1, <2>3 DEF Becomes
  <2>4. CASE w \in told \cup failed \cup raced \/ w[2] \in Provider
    BY <1>2, <1>3, <2>1, <2>4
  <2> QED
    BY <2>1, <2>2, <2>3, <2>4 DEF Inv, NoAskerForgotten
<1> QED
  BY <1>6, <1>7, <1>8, <1>9 DEF Inv

\* The two ways into the routing table.
LEMMA TableSteps ==
    ASSUME Inv, NEW j \in jobs, (QueryRoute(j) /\ table[j.at] # {}) \/ QueryPut(j)
    PROVE  Inv'
<1>1. /\ JobInv(j) /\ j.at \in Node /\ j.from \in Node /\ j.pc \notin Serving
      /\ TypeOK /\ table[j.at] \in SUBSET Node
  BY DEF Inv, TypeOK, JobInv, Job, QueryRoute, QueryPut, Serving
<1>2. CASE QueryRoute(j) /\ table[j.at] # {}
  <2> DEFINE t == table[j.at] \cup {j.from}
  <2>1. /\ table' = [table EXCEPT ![j.at] = t] /\ Becomes(j, {}) /\ Entered(j.at, j.from, {})
        /\ UNCHANGED <<scenario, cached, asked>>
    BY <1>2 DEF QueryRoute
  <2>2. t \in SUBSET Node /\ j.from \in t /\ t \subseteq table[j.at] \cup {j.from}
        /\ {} \ {j.from} = table[j.at] \ t
    BY <1>1
  <2> HIDE DEF t
  <2> QED
    BY <1>1, <2>1, <2>2, EnterStep
<1>3. CASE QueryPut(j)
  <2>1. PICK r \in SUBSET Peers(j.at) : Becomes(j, {Query(j.at, m) : m \in r})
    BY <1>3 DEF QueryPut, Reached
  <2> DEFINE s == {Query(j.at, m) : m \in r}
             t == {j.from}
  <2>2. \A k \in s : JobInv(k) /\ k.pc \notin Serving
    <3>1. \A m \in r : JobInv(Query(j.at, m))
      BY <1>1, NewMessages, RoutingAssumption DEF Peers
    <3> QED
      BY <3>1 DEF Query, Serving
  <2>3. /\ table' = [table EXCEPT ![j.at] = t] /\ Entered(j.at, j.from, table[j.at])
        /\ UNCHANGED <<scenario, cached, asked>>
    BY <1>3 DEF QueryPut
  <2>4. t \in SUBSET Node /\ j.from \in t /\ t \subseteq table[j.at] \cup {j.from}
        /\ table[j.at] \ {j.from} = table[j.at] \ t
    BY <1>1
  <2>5. Becomes(j, s)
    BY <2>1
  <2> HIDE DEF s, t
  <2> QED
    BY <1>1, <2>2, <2>3, <2>4, <2>5, EnterStep
<1> QED
  BY <1>2, <1>3

\* A round of the loop: the asker m leaves the list and is told, or not.
LEMMA SendStep ==
    ASSUME Inv, NEW j \in jobs, NEW m \in Node, LocationSend(j, m)
    PROVE  Inv'
<1>1. /\ JobInv(j) /\ ServeInv(j) /\ j \in Job /\ j.at \in Node /\ j.pc = "send" /\ m \in j.list
      /\ <<j.at, m>> \in waits /\ <<j.at, m>> \in Link /\ TypeOK
  BY DEF Inv, TypeOK, JobInv, Job, LocationSend
<1>2. /\ Provider' = Provider /\ Requester' = Requester
      /\ UNCHANGED <<scenario, cached, table, asked, waits, raced>>
  BY DEF Provider, Requester, LocationSend
<1>3. /\ told \cup failed \cup {<<j.at, m>>} = told' \cup failed'
      /\ told' \subseteq waits /\ failed' \subseteq waits
  BY <1>1 DEF LocationSend, TypeOK
<1> DEFINE rest == j.list \ {m}
           removal == [j EXCEPT !.pc = "remove", !.list = rest]
           round == [j EXCEPT !.pc = "send", !.list = rest]
<1>4. \A k \in {removal, round} : k.list = rest /\ k.at = j.at /\ k.pc \in Serving
  BY <1>1 DEF Job, Serving
<1>5. \A k \in {removal, round} : JobInv(k)
  <2>1. rest \in SUBSET Node
    BY <1>1 DEF Job
  <2>2. removal \in Job /\ round \in Job
    BY <1>1, <2>1 DEF Job
  <2>3. \A k \in {removal, round} : k.from = j.from /\ k.known = j.known /\ k.about = j.about
    BY <1>1 DEF Job
  <2> HIDE DEF removal, round
  <2> QED
    BY <1>1, <1>4, <2>2, <2>3 DEF JobInv, Serving, LocationPCs
<1>6. \A k \in {removal, round} : ServeInv(k)'
  BY <1>1, <1>2, <1>3, <1>4 DEF ServeInv, Serving
<1>7. LET k == Location(j.at, m, j.about) IN JobInv(k) /\ ServeInv(k)
  BY <1>1, NewMessages, RoutingAssumption DEF JobInv, LocationPCs
<1>8. \/ jobs' = (jobs \ {j}) \cup {removal, Location(j.at, m, j.about)}
      \/ jobs' = (jobs \ {j}) \cup {round}
      \/ jobs' = (jobs \ {j}) \cup {removal}
      \/ rest = {} /\ jobs' = jobs \ {j}
  BY DEF LocationSend, Becomes, Loop
<1> HIDE DEF rest, removal, round
<1>9. ASSUME NEW k \in jobs'
      PROVE  JobInv(k)' /\ ServeInv(k)'
  <2>1. JobInv(k)
    BY <1>5, <1>7, <1>8 DEF Inv
  <2>2. JobInv(k)'
    BY <1>2, <2>1 DEF JobInv
  <2>3. CASE k \in {removal, round}
    BY <1>6, <2>2, <2>3
  <2>4. CASE ServeInv(k)
    BY <1>2, <1>3, <2>2, <2>4 DEF ServeInv
  <2> QED
    BY <1>7, <1>8, <2>3, <2>4 DEF Inv
<1>10. TypeOK' /\ TableInv'
  <2>1. jobs' \subseteq Job
    BY <1>9 DEF JobInv
  <2> QED
    BY <1>2, <1>3, <2>1 DEF Inv, TypeOK, TableInv
<1>11. NoAskerForgotten'
  <2> SUFFICES ASSUME NEW w \in waits, w[2] \notin table[w[1]], w[2] \notin Provider,
                      w \notin told' \cup failed' \cup raced'
               PROVE  \E k \in jobs' : k.at = w[1] /\ w[2] \in k.list
    BY <1>2 DEF NoAskerForgotten
  <2>1. w = <<w[1], w[2]>> /\ w # <<j.at, m>>
    BY <1>1, <1>3, RoutingAssumption DEF TypeOK
  <2>2. PICK k \in jobs : k.at = w[1] /\ w[2] \in k.list
    BY <1>2, <1>3 DEF Inv, NoAskerForgotten
  <2>3. CASE k = j
    <3>1. w[2] \in rest
      BY <2>1, <2>2, <2>3 DEF rest
    <3> QED
      BY <1>4, <1>8, <2>2, <2>3, <3>1
  <2>4. CASE k # j
    BY <1>8, <2>2, <2>4
  <2> QED
    BY <2>3, <2>4
<1> QED
  BY <1>9, <1>10, <1>11 DEF Inv

\* The entry is removed: those it held are on the list of the handler that
\* removes it, were seen to, or came late.
LEMMA RemoveStep ==
    ASSUME Inv, NEW j \in jobs, LocationRemove(j)
    PROVE  Inv'
<1>1. /\ JobInv(j) /\ ServeInv(j) /\ j \in Job /\ j.at \in Node /\ j.pc = "remove" /\ TypeOK
      /\ table' = [table EXCEPT ![j.at] = {}]
      /\ table'[j.at] = {} /\ \A n \in Node \ {j.at} : table'[n] = table[n]
  BY DEF Inv, TypeOK, JobInv, Job, LocationRemove
<1>2. /\ Provider' = Provider /\ Requester' = Requester
      /\ UNCHANGED <<scenario, cached, asked, waits, told, failed, raced>>
  BY DEF Provider, Requester, LocationRemove, history
<1> DEFINE round == [j EXCEPT !.pc = "send"]
<1>3. round.list = j.list /\ round.at = j.at /\ JobInv(round)
  BY <1>1 DEF JobInv, Job, Serving, LocationPCs
<1>4. \/ jobs' = (jobs \ {j}) \cup {round}
      \/ j.list = {} /\ jobs' = jobs \ {j}
  BY DEF LocationRemove, Becomes
<1> HIDE DEF round
<1>5. ASSUME NEW k \in jobs'
      PROVE  JobInv(k)' /\ ServeInv(k)'
  <2>1. JobInv(k)
    BY <1>3, <1>4 DEF Inv
  <2>2. JobInv(k)' /\ k.at \in Node
    BY <1>2, <2>1 DEF JobInv, Job
  <2>3. CASE k.at = j.at
    BY <1>1, <2>2, <2>3 DEF ServeInv
  <2>4. CASE k.at # j.at
    <3>1. ServeInv(k)
      BY <1>3, <1>4, <2>4 DEF Inv
    <3> QED
      BY <1>1, <1>2, <2>2, <2>4, <3>1 DEF ServeInv
  <2> QED
    BY <2>3, <2>4
<1>6. TypeOK' /\ TableInv'
  <2>1. jobs' \subseteq Job
    BY <1>5 DEF JobInv
  <2> QED
    BY <1>1, <1>2, <2>1 DEF Inv, TypeOK, TableInv
<1>7. NoAskerForgotten'
  <2> SUFFICES ASSUME NEW w \in waits, w[2] \notin table'[w[1]], w[2] \notin Provider,
                      w \notin told \cup failed \cup raced
               PROVE  \E k \in jobs' : k.at = w[1] /\ w[2] \in k.list
    BY <1>2 DEF NoAskerForgotten
  <2>1. w = <<w[1], w[2]>> /\ w[1] \in Node
    BY <1>1, RoutingAssumption DEF TypeOK
  <2>2. CASE w[2] \in table[w[1]]
    <3>1. w[1] = j.at /\ w[2] \in j.list
      BY <1>1, <2>1, <2>2 DEF ServeInv, Serving
    <3> QED
      BY <1>3, <1>4, <3>1
  <2>3. CASE w[2] \notin table[w[1]]
    <3>1. PICK k \in jobs : k.at = w[1] /\ w[2] \in k.list
      BY <2>3 DEF Inv, NoAskerForgotten
    <3> QED
      BY <1>3, <1>4, <3>1
  <2> QED
    BY <2>2, <2>3
<1> QED
  BY <1>5, <1>6, <1>7 DEF Inv

LEMMA StepInv == Inv /\ [Next]_vars => Inv'
<1> SUFFICES ASSUME Inv, [Next]_vars PROVE Inv'
  OBVIOUS
<1>1. CASE UNCHANGED vars
  BY <1>1 DEF Inv, TypeOK, TableInv, JobInv, ServeInv, NoAskerForgotten, Provider, Requester, vars
<1>2. CASE \E n \in Node : SendHashRequest(n)
  BY <1>2, RequestStep
<1>3. ASSUME NEW j \in jobs, HandleQuery(j) PROVE Inv'
  BY <1>3, QuietSteps, TableSteps DEF HandleQuery
<1>4. ASSUME NEW j \in jobs, HandleLocation(j) PROVE Inv'
  BY <1>4, QuietSteps, SendStep, RemoveStep DEF HandleLocation
<1> QED
  BY <1>1, <1>2, <1>3, <1>4 DEF Next

\* The inductive invariant of hash routing, on every network.
THEOREM Invariance == Spec => []Inv
BY InitInv, StepInv, PTL DEF Spec

\* Handlers, tables and caches have their types; in particular a node caches
\* only nodes that do provide the hash (AddStorageLocation).
THEOREM TypeCorrect == Spec => []TypeOK
<1>1. Inv => TypeOK
  BY DEF Inv
<1> QED
  BY <1>1, Invariance, PTL

\* However queries and locations overlap at a node, an asker that was entered in
\* its hashQueryRoutingTable is served, but for a send that fails or the race
\* between Get and Put, or Get and Remove, of the table.
THEOREM NoneForgotten == Spec => []NoAskerForgotten
<1>1. Inv => NoAskerForgotten
  BY DEF Inv
<1> QED
  BY <1>1, Invariance, PTL
=============================================================================
