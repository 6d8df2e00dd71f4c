----------------------------- MODULE P2P_proofs -----------------------------
(***************************************************************************)
(* What holds of the peer-to-peer service for any number of connections,   *)
(* goroutines, ids and addresses, any configuration and any messages.  TLC *)
(* checks the same with one or two connections.                            *)
(***************************************************************************)
EXTENDS P2P, TLAPS, FiniteSetTheorems

\* Goroutines that have read the failure counter's presence, not its value.
Tallying(i) == {t \in Task : task[t].pc = "tally" /\ task[t].target = i}

\* A connection that is not in use has left no trace; a handshake is completed
\* only by a proof of the id, with the buckets open, and a connection we dialled
\* keeps the id it was dialled for.
ConnInv(c) ==
    /\ conn[c].main = "free" =>
          conn[c] = FreeConn /\ proved[c] = {} /\ c \notin listed \cup renamed \cup late
    /\ conn[c].main # "free" => conn[c].ip \in IP
    /\ conn[c].main = "new" => conn[c].reader = "none"
    /\ conn[c].hs => opened /\ conn[c].id \in proved[c] /\ conn[c].reader # "none"
    /\ conn[c].dialed # NoId => conn[c].id = conn[c].dialed
    /\ c \in listed => conn[c].hs

\* A goroutine in state s: handlers are waited for by the reader that started
\* them, and the attempts of a dial are counted by retry.
TaskInv(s) ==
    /\ s.pc \in {"handle", "add", "use", "fail"} => s.conn # NoConn
    /\ s.pc \in {"handle", "add"} => s.msg # NoMsg
    /\ s.conn # NoConn => conn[s.conn].reader \in {"reading", "draining"}
    /\ s.pc \in {"add", "use"} => conn[s.conn].hs
    /\ s.pc \in {"blocked", "dial", "giveUp", "tally", "count", "block"} => s.target \in Id
    /\ s.dials <= MaxAttempts + 2
    /\ s.pc \in {"handle", "add", "use", "check", "blocked", "dial"} =>
          s.dials = s.retry /\ s.retry <= MaxAttempts + 1

\* Whoever is listed has proved the id, and as long as it did not change its id
\* or come late it bears that id and is being read.
PeerInv(i) ==
    peers[i] # NoConn =>
        LET c == peers[i]
        IN  /\ c \in listed /\ i \in proved[c] /\ conn[c].dialed \in {NoId, i}
            /\ c \notin late \cup renamed => conn[c].id = i /\ conn[c].reader = "reading"

\* Two connections that bear the same id were noticed.
DoubledInv ==
    \A c, d \in Conn :
        /\ c # d /\ conn[c].id = conn[d].id /\ conn[c].id # NoId
        /\ conn[c].reader # "ended" /\ conn[d].reader # "ended"
        => conn[c].id \in doubled

\* The failure counter of id i, as it is and as goroutines are about to write
\* it, never exceeds the dials that gave up, although updates can be lost; the
\* goroutines that have yet to add theirs are allowed for.
CountInv(i) ==
    /\ IsFiniteSet(Tallying(i))
    /\ giveups[i] # MaxFailures =>
          /\ failures[i] + Cardinality(Tallying(i)) <= giveups[i]
          /\ \A t \in Task : task[t].target = i =>
                /\ task[t].pc = "count" =>
                      task[t].counter + Cardinality(Tallying(i)) <= giveups[i]
                /\ task[t].pc # "block"
          /\ i \in outBlock => i \in ConfigBlock

Inv ==
    /\ TypeOK
    /\ started => opened
    /\ \A c \in Conn : ConnInv(c)
    /\ \A t \in Task : TaskInv(task[t])
    /\ \A i \in Id : PeerInv(i) /\ CountInv(i)
    /\ DoubledInv
    /\ OpenPeersListed

-----------------------------------------------------------------------------
(* The initial states, and what a step must leave alone to preserve Inv. *)

Fresh ==
    /\ FreeConn \in ConnState /\ FreeConn.main = "free" /\ FreeConn.id = NoId
    /\ FreeConn.dialed = NoId /\ FreeConn.hs = FALSE
    /\ Idle \in TaskState /\ Idle.pc = "idle" /\ Idle.conn = NoConn /\ Idle.dials = 0

\* A peer object and a goroutine before their first use.
LEMMA FreshOk == Fresh
BY P2PAssumption DEF Fresh, FreeConn, Idle, ConnState, TaskState

\* A service that has been initialised and not started.
LEMMA InitInv == Init => Inv
<1> SUFFICES ASSUME Init PROVE Inv
  OBVIOUS
<1>1. \A c \in Conn : conn[c] = FreeConn
  BY DEF Init
<1>2. \A t \in Task : task[t] = Idle
  BY DEF Init
<1>3. TypeOK
  <2>1. conn \in [Conn -> ConnState] /\ task \in [Task -> TaskState]
    BY FreshOk DEF Init, Fresh
  <2>2. proved \in [Conn -> SUBSET Id] /\ failures \in [Id -> Nat]
    BY DEF Init
  <2>3. giveups \in [Id -> 0 .. MaxFailures]
    BY P2PAssumption DEF Init
  <2> QED
    BY <2>1, <2>2, <2>3, P2PAssumption DEF Init, TypeOK
<1>4. \A c \in Conn : ConnInv(c)
  BY <1>1, FreshOk DEF ConnInv, Init, Fresh
<1>5. \A t \in Task : TaskInv(task[t])
  BY <1>2, FreshOk, P2PAssumption DEF TaskInv, Fresh
<1>6. \A i \in Id : PeerInv(i)
  BY DEF PeerInv, Init
<1>7. ASSUME NEW i \in Id PROVE CountInv(i)
  <2>1. Tallying(i) = {}
    BY <1>2, FreshOk DEF Tallying, Fresh
  <2>2. IsFiniteSet(Tallying(i)) /\ Cardinality(Tallying(i)) = 0
    BY <2>1, FS_EmptySet
  <2> QED
    BY <1>2, <2>2, FreshOk DEF CountInv, Init, Fresh
<1>8. DoubledInv /\ OpenPeersListed
  BY <1>1, FreshOk DEF DoubledInv, OpenPeersListed, Init, Fresh
<1> QED
  BY <1>3, <1>4, <1>5, <1>6, <1>7, <1>8 DEF Inv, Init

\* Connection c keeps everything but its socket, its errors and, once in use,
\* how far OnNewPeer has come.
SameConn(c) ==
    /\ conn'[c].id = conn[c].id /\ conn'[c].dialed = conn[c].dialed
    /\ conn'[c].hs = conn[c].hs /\ conn'[c].reader = conn[c].reader
    /\ conn'[c].ip = conn[c].ip
    /\ conn[c].main = "free" \/ conn'[c].main = "free" => conn'[c] = conn[c]
    /\ conn'[c].main = "new" => conn[c].main = "new"

LEMMA ConnsKept ==
    ASSUME Inv, \A c \in Conn : SameConn(c), opened => opened',
           UNCHANGED <<peers, proved, listed, renamed, late, doubled>>
    PROVE  /\ \A c \in Conn : ConnInv(c)'
           /\ \A i \in Id : PeerInv(i)'
           /\ DoubledInv' /\ OpenPeersListed'
           /\ \A s \in TaskState : TaskInv(s) => TaskInv(s)'
<1>1. \A c \in Conn : ConnInv(c)'
  BY DEF Inv, ConnInv, SameConn
<1>2. \A i \in Id : PeerInv(i)'
  BY DEF Inv, TypeOK, PeerInv, SameConn
<1>3. DoubledInv'
  BY DEF Inv, DoubledInv, SameConn
<1>4. OpenPeersListed'
  BY DEF Inv, TypeOK, OpenPeersListed, SameConn
<1>5. ASSUME NEW s \in TaskState, TaskInv(s) PROVE TaskInv(s)'
  <2>1. s.conn \in Conn \cup {NoConn}
    BY DEF TaskState
  <2>2. s.conn # NoConn => /\ conn'[s.conn].reader = conn[s.conn].reader
                           /\ conn'[s.conn].hs = conn[s.conn].hs
    BY <2>1 DEF SameConn
  <2> QED
    BY <1>5, <2>2, P2PAssumption DEF TaskInv
<1> QED
  BY <1>1, <1>2, <1>3, <1>4, <1>5

\* The states of a goroutine that is about to update the failure counter.
Counting == {"tally", "count", "block"}

LEMMA CountsKept ==
    ASSUME Inv, task' \in [Task -> TaskState], failures' \in [Id -> Nat],
           \A u \in Task : task'[u] = task[u] \/ task'[u].pc \notin Counting,
           \A i \in Id : failures'[i] <= failures[i],
           \A i \in outBlock' \ outBlock : giveups[i] = MaxFailures,
           UNCHANGED giveups
    PROVE  \A i \in Id : CountInv(i)'
<1> SUFFICES ASSUME NEW i \in Id PROVE CountInv(i)'
  OBVIOUS
<1> DEFINE S == Tallying(i)
           n == Cardinality(S)
<1>1. CountInv(i) /\ IsFiniteSet(S) /\ failures[i] \in Nat /\ giveups[i] \in Nat
  BY P2PAssumption DEF Inv, TypeOK, CountInv
<1>2. S' \subseteq S
  BY DEF Tallying, Counting
<1>3. IsFiniteSet(S') /\ S' \in SUBSET S /\ Cardinality(S') <= n /\ n \in Nat /\ Cardinality(S') \in Nat
  BY <1>1, <1>2, FS_Subset, FS_CardinalityType
<1>4. ASSUME giveups'[i] # MaxFailures
      PROVE  /\ failures'[i] + Cardinality(S') <= giveups'[i]
             /\ i \in outBlock' => i \in ConfigBlock
  <2>1. failures[i] + n <= giveups[i] /\ failures'[i] \in Nat
    BY <1>1, <1>4 DEF CountInv
  <2> HIDE DEF n, S
  <2> QED
    BY <1>1, <1>3, <1>4, <2>1 DEF CountInv
<1>5. ASSUME giveups'[i] # MaxFailures, NEW u \in Task, task'[u].target = i
      PROVE  /\ task'[u].pc = "count" => task'[u].counter + Cardinality(S') <= giveups'[i]
             /\ task'[u].pc # "block"
  <2>1. CASE task'[u] = task[u]
    <3>1. task[u].pc = "count" => task[u].counter + n <= giveups[i]
      BY <1>1, <1>5, <2>1 DEF CountInv
    <3>2. task[u].counter \in Nat
      BY DEF Inv, TypeOK, TaskState
    <3> HIDE DEF n, S
    <3>3. task'[u].pc = "count" => task'[u].counter + Cardinality(S') <= giveups'[i]
      BY <1>1, <1>3, <2>1, <3>1, <3>2
    <3> QED
      BY <1>1, <1>5, <2>1, <3>3 DEF CountInv
  <2>2. CASE task'[u].pc \notin Counting
    BY <2>2 DEF Counting
  <2> QED
    BY <2>1, <2>2
<1> QED
  BY <1>3, <1>4, <1>5 DEF CountInv

\* A step of goroutines that neither complete a handshake nor count failures.
LEMMA Quiet ==
    ASSUME Inv, conn' \in [Conn -> ConnState], task' \in [Task -> TaskState],
           \A c \in Conn : SameConn(c),
           \A u \in Task : /\ TaskInv(task'[u])
                           /\ task'[u] = task[u] \/ task'[u].pc \notin Counting,
           outBlock' \subseteq Id, inBlock' \subseteq Id, ipBlock' \subseteq IP,
           \A i \in outBlock' \ outBlock : giveups[i] = MaxFailures,
           UNCHANGED <<flags, peers, pending, failures, history>>
    PROVE  Inv'
<1>1. /\ UNCHANGED <<started, starting, opened>>
      /\ UNCHANGED <<proved, listed, renamed, late, doubled, giveups>>
  BY DEF flags, history
<1>2. TypeOK'
  BY <1>1 DEF Inv, TypeOK
<1>3. \A i \in Id : CountInv(i)'
  <2>1. \A i \in Id : failures'[i] <= failures[i] /\ failures' \in [Id -> Nat]
    BY DEF Inv, TypeOK
  <2> QED
    BY <1>1, <2>1, CountsKept
<1>4. /\ \A c \in Conn : ConnInv(c)'
      /\ \A i \in Id : PeerInv(i)'
      /\ DoubledInv' /\ OpenPeersListed'
      /\ \A s \in TaskState : TaskInv(s) => TaskInv(s)'
  BY <1>1, ConnsKept
<1>5. \A t \in Task : TaskInv(task[t])'
  BY <1>4
<1> QED
  BY <1>1, <1>2, <1>3, <1>4, <1>5 DEF Inv

\* Goroutine t goes on in state s, and nothing else happens.
LEMMA TaskMoves ==
    ASSUME Inv, NEW t \in Task, NEW s \in TaskState, TaskInv(s), s.pc \notin Counting,
           task' = [task EXCEPT ![t] = s],
           UNCHANGED <<flags, peers, pending, blocklists, failures, conn, history>>
    PROVE  Inv'
<1>1. task' \in [Task -> TaskState]
  BY DEF Inv, TypeOK
<1>2. \A u \in Task : /\ TaskInv(task'[u])
                      /\ task'[u] = task[u] \/ task'[u].pc \notin Counting
  BY DEF Inv, TypeOK
<1>3. \A c \in Conn : SameConn(c)
  BY DEF SameConn
<1>4. outBlock' \subseteq Id /\ inBlock' \subseteq Id /\ ipBlock' \subseteq IP /\ outBlock' = outBlock
      /\ conn' \in [Conn -> ConnState]
  BY DEF Inv, TypeOK, blocklists
<1> QED
  BY <1>1, <1>2, <1>3, <1>4, Quiet

\* How a goroutine ends: it is idle, or has an error to report.
LEMMA Ends ==
    ASSUME Inv, NEW t \in Task, Done(t) \/ Failed(t)
    PROVE  \E s \in TaskState : TaskInv(s) /\ s.pc \in {"idle", "fail"}
                                /\ task' = [task EXCEPT ![t] = s]
<1>1. TaskInv(Idle)
  BY FreshOk, P2PAssumption DEF Fresh, TaskInv
<1>2. CASE task' = [task EXCEPT ![t] = Idle]
  BY <1>1, <1>2, FreshOk DEF Fresh
<1>3. CASE Failed(t) /\ task[t].conn # NoConn
  <2> DEFINE s == [task[t] EXCEPT !.pc = "fail"]
  <2>1. task[t] \in TaskState /\ TaskInv(task[t])
    BY DEF Inv, TypeOK
  <2>2. s \in TaskState /\ s.pc = "fail"
    BY <2>1 DEF TaskState
  <2>3. TaskInv(s)
    BY <1>3, <2>1, P2PAssumption DEF TaskInv, TaskState
  <2>4. task' = [task EXCEPT ![t] = s]
    BY <1>3 DEF Failed, Inv, TypeOK
  <2> QED
    BY <2>2, <2>3, <2>4
<1> QED
  BY <1>2, <1>3 DEF Done, Failed, Inv, TypeOK

\* The same for the actions that do no more than that.
LEMMA EndsOnly ==
    ASSUME Inv, NEW t \in Task, Done(t) \/ Failed(t),
           UNCHANGED <<flags, peers, pending, blocklists, failures, conn, history>>
    PROVE  Inv'
<1>1. PICK s \in TaskState : TaskInv(s) /\ s.pc \in {"idle", "fail"} /\ task' = [task EXCEPT ![t] = s]
  BY Ends
<1>2. s.pc \notin Counting
  BY <1>1 DEF Counting
<1> QED
  BY <1>1, <1>2, TaskMoves

\* Start and Stop of the services.
LEMMA LifecycleStep == ASSUME Inv, Lifecycle PROVE Inv'
<1>1. UNCHANGED <<peers, pending, blocklists, failures, conn, task, history>>
  BY DEF Lifecycle, StartBegin, StorageStart, StartEnd, Stop
<1>2. /\ UNCHANGED <<proved, listed, renamed, late, doubled, giveups>>
      /\ UNCHANGED <<outBlock, inBlock, ipBlock>>
  BY <1>1 DEF history, blocklists
<1>3. /\ opened => opened'
      /\ started' => opened'
      /\ started' \in BOOLEAN /\ starting' \in BOOLEAN /\ opened' \in BOOLEAN
  <2>1. started => opened
    BY DEF Inv
  <2>2. started \in BOOLEAN /\ starting \in BOOLEAN /\ opened \in BOOLEAN
    BY DEF Inv, TypeOK
  <2>3. CASE StartBegin
    BY <2>1, <2>2, <2>3, Zenon DEF StartBegin
  <2>4. CASE StorageStart
    BY <2>1, <2>2, <2>4, Zenon DEF StorageStart
  <2>5. CASE StartEnd
    BY <2>1, <2>2, <2>5, Zenon DEF StartEnd
  <2>6. CASE Stop
    BY <2>1, <2>2, <2>6, Zenon DEF Stop
  <2> QED
    BY <2>3, <2>4, <2>5, <2>6 DEF Lifecycle
<1>4. TypeOK'
  BY <1>1, <1>2, <1>3 DEF Inv, TypeOK
<1>5. \A i \in Id : CountInv(i)'
  <2>1. \A i \in Id : failures'[i] <= failures[i] /\ failures' \in [Id -> Nat]
    BY <1>1 DEF Inv, TypeOK
  <2>2. task' \in [Task -> TaskState]
    BY <1>4 DEF TypeOK
  <2> QED
    BY <1>1, <1>2, <2>1, <2>2, CountsKept
<1>6. \A c \in Conn : SameConn(c)
  BY <1>1 DEF SameConn
<1>7. /\ \A c \in Conn : ConnInv(c)'
      /\ \A i \in Id : PeerInv(i)'
      /\ DoubledInv' /\ OpenPeersListed'
      /\ \A s \in TaskState : TaskInv(s) => TaskInv(s)'
  <2>1. opened => opened'
    BY <1>3
  <2>2. UNCHANGED <<peers, proved, listed, renamed, late, doubled>>
    BY <1>1, <1>2
  <2> QED
    BY <1>6, <2>1, <2>2, ConnsKept, Zenon
<1>8. \A t \in Task : TaskInv(task[t])'
  BY <1>1, <1>7 DEF Inv, TypeOK
<1> QED
  BY <1>3, <1>4, <1>5, <1>7, <1>8 DEF Inv

\* Steps in which one goroutine moves on.
LEMMA HandlerMoves ==
    ASSUME Inv, NEW t \in Task,
           \/ HandleOpen(t) \/ HandleAnnounce(t) \/ HandleQuery(t) \/ UseBuckets(t)
           \/ \E i \in Initial : DialBegin(t, i)
           \/ DialCheck(t) \/ DialFails(t) \/ DialUnsupported(t)
    PROVE  Inv'
<1>1. UNCHANGED <<flags, peers, pending, blocklists, failures, conn, history>>
  BY DEF HandleOpen, HandleAnnounce, HandleQuery, UseBuckets, DialBegin, DialCheck, DialFails,
         DialUnsupported
<1>2. CASE Done(t) \/ Failed(t)
  BY <1>1, <1>2, EndsOnly
<1>3. task[t] \in TaskState /\ TaskInv(task[t]) /\ task \in [Task -> TaskState]
  BY DEF Inv, TypeOK
<1>4. CASE HandleAnnounce(t) /\ conn[task[t].conn].hs
  <2> DEFINE s == [task[t] EXCEPT !.pc = "check", !.target = task[t].msg.uri]
  <2>1. task' = [task EXCEPT ![t] = s]
    BY <1>3, <1>4 DEF HandleAnnounce
  <2>2. task[t].msg \in Message
    BY <1>3, <1>4, P2PAssumption DEF HandleAnnounce, Handling, TaskInv, TaskState
  <2>3. s \in TaskState /\ s.pc = "check"
    BY <1>3, <2>2 DEF TaskState, Message
  <2>4. TaskInv(s)
    BY <1>3, <1>4, <2>2 DEF TaskInv, TaskState, HandleAnnounce, Handling
  <2>5. s.pc \notin Counting
    BY <2>3 DEF Counting
  <2> HIDE DEF s
  <2> QED
    BY <1>1, <2>1, <2>3, <2>4, <2>5, TaskMoves
<1>5. CASE HandleQuery(t) /\ conn[task[t].conn].hs
  <2> DEFINE s == [task[t] EXCEPT !.pc = "use"]
  <2>1. task' = [task EXCEPT ![t] = s]
    BY <1>3, <1>5 DEF HandleQuery
  <2>3. s \in TaskState /\ s.pc = "use"
    BY <1>3 DEF TaskState
  <2>4. TaskInv(s)
    BY <1>3, <1>5 DEF TaskInv, TaskState, HandleQuery, Handling
  <2>5. s.pc \notin Counting
    BY <2>3 DEF Counting
  <2> HIDE DEF s
  <2> QED
    BY <1>1, <2>1, <2>3, <2>4, <2>5, TaskMoves
<1>6. ASSUME NEW i \in Initial, DialBegin(t, i) PROVE Inv'
  <2> DEFINE s == [Idle EXCEPT !.pc = "check", !.target = i]
  <2>1. task' = [task EXCEPT ![t] = s]
    BY <1>6 DEF DialBegin
  <2>3. s \in TaskState /\ s.pc = "check"
    BY FreshOk, P2PAssumption DEF TaskState, Fresh
  <2>4. TaskInv(s)
    BY P2PAssumption DEF TaskInv, Idle
  <2>5. s.pc \notin Counting
    BY <2>3 DEF Counting
  <2> HIDE DEF s
  <2> QED
    BY <1>1, <2>1, <2>3, <2>4, <2>5, TaskMoves
<1>7. CASE DialCheck(t) /\ Goto(t, "blocked") /\ task[t].target # NoId
  <2> DEFINE s == [task[t] EXCEPT !.pc = "blocked"]
  <2>1. task' = [task EXCEPT ![t] = s]
    BY <1>3, <1>7 DEF Goto
  <2>3. s \in TaskState /\ s.pc = "blocked"
    BY <1>3 DEF TaskState
  <2>4. TaskInv(s)
    BY <1>3, <1>7 DEF TaskInv, TaskState, DialCheck
  <2>5. s.pc \notin Counting
    BY <2>3 DEF Counting
  <2> HIDE DEF s
  <2> QED
    BY <1>1, <2>1, <2>3, <2>4, <2>5, TaskMoves
<1>8. CASE DialFails(t) /\ task[t].retry > MaxAttempts
  <2> DEFINE s == [task[t] EXCEPT !.pc = "giveUp", !.dials = @ + 1]
  <2>1. task' = [task EXCEPT ![t] = s]
    BY <1>3, <1>8 DEF DialFails
  <2>2. task[t].dials + 1 \in Nat /\ task[t].retry + 1 \in Nat
    BY <1>3 DEF TaskState
  <2>3. s \in TaskState /\ s.pc = "giveUp"
    BY <1>3, <2>2 DEF TaskState
  <2>4. TaskInv(s)
    BY <1>3, <1>8, P2PAssumption DEF TaskInv, TaskState, DialFails
  <2>5. s.pc \notin Counting
    BY <2>3 DEF Counting
  <2> HIDE DEF s
  <2> QED
    BY <1>1, <2>1, <2>3, <2>4, <2>5, TaskMoves
<1>9. CASE DialFails(t) /\ ~ (task[t].retry > MaxAttempts)
  <2> DEFINE s == [task[t] EXCEPT !.pc = "check", !.dials = @ + 1, !.retry = @ + 1]
  <2>1. task' = [task EXCEPT ![t] = s]
    BY <1>3, <1>9 DEF DialFails
  <2>2. task[t].dials + 1 \in Nat /\ task[t].retry + 1 \in Nat
    BY <1>3 DEF TaskState
  <2>3. s \in TaskState /\ s.pc = "check"
    BY <1>3, <2>2 DEF TaskState
  <2>4. TaskInv(s)
    BY <1>3, <1>9, P2PAssumption DEF TaskInv, TaskState, DialFails
  <2>5. s.pc \notin Counting
    BY <2>3 DEF Counting
  <2> HIDE DEF s
  <2> QED
    BY <1>1, <2>1, <2>3, <2>4, <2>5, TaskMoves
<1> QED
  BY <1>2, <1>4, <1>5, <1>6, <1>7, <1>8, <1>9 DEF HandleOpen, HandleAnnounce, HandleQuery,
     UseBuckets, DialCheck, DialUnsupported

-----------------------------------------------------------------------------
(* Steps that change a socket, its errors or the blocklists. *)

\* A connection in use of which only main, socket and errs change.
LEMMA ConnMoves ==
    ASSUME Inv, NEW c \in Conn, conn[c].main # "free",
           NEW m \in {"opening", "waiting", "returned", conn[c].main},
           NEW k \in {"none", "open", "closed"}, NEW e \in 0 .. ErrCap,
           conn' = [conn EXCEPT ![c] = [conn[c] EXCEPT !.main = m, !.socket = k, !.errs = e]]
    PROVE  /\ conn' \in [Conn -> ConnState]
           /\ \A d \in Conn : SameConn(d)
<1> DEFINE s == [conn[c] EXCEPT !.main = m, !.socket = k, !.errs = e]
<1>1. conn \in [Conn -> ConnState] /\ conn[c] \in ConnState
  BY DEF Inv, TypeOK
<1>2. s \in ConnState
  BY <1>1 DEF ConnState
<1>3. /\ s.id = conn[c].id /\ s.dialed = conn[c].dialed /\ s.hs = conn[c].hs
      /\ s.reader = conn[c].reader /\ s.ip = conn[c].ip /\ s.main = m
  BY <1>1 DEF ConnState
<1>4. conn' = [conn EXCEPT ![c] = s]
  OBVIOUS
<1> HIDE DEF s
<1>5. conn'[c] = s /\ \A d \in Conn \ {c} : conn'[d] = conn[d]
  BY <1>1, <1>4
<1> QED
  BY <1>1, <1>2, <1>3, <1>4, <1>5 DEF SameConn

\* The same, put as the actions put it.
LEMMA ConnMoved ==
    ASSUME Inv, NEW c \in Conn, conn[c].main # "free"
    PROVE  /\ conn[c] \in ConnState
           /\ \A m \in {"waiting", "returned"} : conn' = [conn EXCEPT ![c].main = m] =>
                conn' \in [Conn -> ConnState] /\ \A d \in Conn : SameConn(d)
           /\ conn' = [conn EXCEPT ![c].socket = "closed"] =>
                conn' \in [Conn -> ConnState] /\ \A d \in Conn : SameConn(d)
           /\ \A e \in 0 .. ErrCap : conn' = [conn EXCEPT ![c].errs = e] =>
                conn' \in [Conn -> ConnState] /\ \A d \in Conn : SameConn(d)
<1> DEFINE k == conn[c]
           To(m, o, e) == [k EXCEPT !.main = m, !.socket = o, !.errs = e]
<1>1. conn \in [Conn -> ConnState] /\ k \in ConnState
  BY DEF Inv, TypeOK
<1>2. k.socket \in {"none", "open", "closed"} /\ k.errs \in 0 .. ErrCap
  BY <1>1 DEF ConnState
<1>3. ASSUME NEW m \in {"waiting", "returned"}, conn' = [conn EXCEPT ![c].main = m]
      PROVE  conn' \in [Conn -> ConnState] /\ \A d \in Conn : SameConn(d)
  <2>1. [k EXCEPT !.main = m] = To(m, k.socket, k.errs)
    BY <1>1 DEF ConnState
  <2>2. conn' = [conn EXCEPT ![c] = To(m, k.socket, k.errs)]
    BY <1>1, <1>3, <2>1
  <2> QED
    BY <1>2, <2>2, ConnMoves
<1>4. ASSUME conn' = [conn EXCEPT ![c].socket = "closed"]
      PROVE  conn' \in [Conn -> ConnState] /\ \A d \in Conn : SameConn(d)
  <2>1. [k EXCEPT !.socket = "closed"] = To(k.main, "closed", k.errs)
    BY <1>1 DEF ConnState
  <2>2. conn' = [conn EXCEPT ![c] = To(k.main, "closed", k.errs)]
    BY <1>1, <1>4, <2>1
  <2> QED
    BY <1>2, <2>2, ConnMoves
<1>5. ASSUME NEW e \in 0 .. ErrCap, conn' = [conn EXCEPT ![c].errs = e]
      PROVE  conn' \in [Conn -> ConnState] /\ \A d \in Conn : SameConn(d)
  <2>1. [k EXCEPT !.errs = e] = To(k.main, k.socket, e)
    BY <1>1 DEF ConnState
  <2>2. conn' = [conn EXCEPT ![c] = To(k.main, k.socket, e)]
    BY <1>1, <1>5, <2>1
  <2> QED
    BY <1>2, <2>2, ConnMoves
<1> QED
  BY <1>1, <1>3, <1>4, <1>5

\* A goroutine that moves on, together with a connection or a blocklist.
LEMMA BothMove ==
    ASSUME Inv, NEW t \in Task, NEW s \in TaskState, TaskInv(s), s.pc \notin Counting,
           task' = [task EXCEPT ![t] = s],
           conn' \in [Conn -> ConnState], \A d \in Conn : SameConn(d),
           outBlock' \subseteq Id, inBlock' \subseteq Id, ipBlock' \subseteq IP,
           \A i \in outBlock' \ outBlock : giveups[i] = MaxFailures,
           UNCHANGED <<flags, peers, pending, failures, history>>
    PROVE  Inv'
<1>1. task' \in [Task -> TaskState]
  BY DEF Inv, TypeOK
<1>2. \A u \in Task : /\ TaskInv(task'[u])
                      /\ task'[u] = task[u] \/ task'[u].pc \notin Counting
  BY DEF Inv, TypeOK
<1> QED
  BY <1>1, <1>2, Quiet

\* A handler's connection is in use.
LEMMA InUse ==
    ASSUME Inv, NEW t \in Task, task[t].conn # NoConn
    PROVE  /\ task[t].conn \in Conn /\ conn[task[t].conn].main # "free"
           /\ conn[task[t].conn].ip \in IP /\ conn[task[t].conn] \in ConnState
           /\ conn[task[t].conn].reader \in {"reading", "draining"}
<1>1. task[t].conn \in Conn /\ TaskInv(task[t])
  BY DEF Inv, TypeOK, TaskState
<1>2. ConnInv(task[t].conn) /\ conn[task[t].conn] \in ConnState
  BY <1>1 DEF Inv, TypeOK
<1>3. FreeConn.reader = "none"
  BY DEF FreeConn
<1> QED
  BY <1>1, <1>2, <1>3 DEF TaskInv, ConnInv

\* The socket and the goroutine OnNewPeer of one connection.
LEMMA SocketSteps ==
    ASSUME Inv, NEW c \in Conn, SendHandshakeOpen(c) \/ OnNewPeerReturn(c) \/ RemoteClose(c)
    PROVE  Inv'
<1>1. UNCHANGED <<flags, peers, pending, blocklists, failures, task, history>>
  BY DEF SendHandshakeOpen, OnNewPeerReturn, RemoteClose
<1>2. conn[c].main # "free"
  <2>1. FreeConn.socket = "none"
    BY DEF FreeConn
  <2> QED
    BY <2>1 DEF SendHandshakeOpen, OnNewPeerReturn, RemoteClose, Inv, ConnInv
<1>3. \/ conn' = [conn EXCEPT ![c].socket = "closed"]
      \/ \E m \in {"waiting", "returned"} : conn' = [conn EXCEPT ![c].main = m]
  BY DEF SendHandshakeOpen, OnNewPeerReturn, RemoteClose
<1>4. conn' \in [Conn -> ConnState] /\ \A d \in Conn : SameConn(d)
  BY <1>2, <1>3, ConnMoved
<1>5. /\ outBlock' \subseteq Id /\ inBlock' \subseteq Id /\ ipBlock' \subseteq IP
      /\ outBlock' = outBlock /\ task' \in [Task -> TaskState]
      /\ \A u \in Task : TaskInv(task'[u])
  BY <1>1 DEF Inv, TypeOK, blocklists
<1> QED
  BY <1>1, <1>4, <1>5, Quiet

\* A message arrives, and the error of a handler is reported.
LEMMA MessageSteps ==
    ASSUME Inv, NEW t \in Task,
           ReportError(t) \/ \E c \in Conn, m \in Inputs : Deliver(c, m, t)
    PROVE  Inv'
<1>1. UNCHANGED <<flags, peers, pending, blocklists, failures, history>>
  BY DEF ReportError, Deliver
<1>2. outBlock' \subseteq Id /\ inBlock' \subseteq Id /\ ipBlock' \subseteq IP /\ outBlock' = outBlock
  BY <1>1 DEF Inv, TypeOK, blocklists
<1>3. CASE ReportError(t)
  <2> DEFINE c == task[t].conn
  <2>1. task[t].conn # NoConn
    BY <1>3 DEF ReportError, Inv, TaskInv
  <2>2. c \in Conn /\ conn[c].main # "free" /\ conn[c] \in ConnState
    BY <2>1, InUse
  <2>3. conn' \in [Conn -> ConnState] /\ \A d \in Conn : SameConn(d)
    <3>1. CASE UNCHANGED conn
      BY <3>1 DEF SameConn, Inv, TypeOK
    <3>2. CASE conn[c].errs < ErrCap /\ conn' = [conn EXCEPT ![c].errs = @ + 1]
      <4>1. conn[c].errs + 1 \in 0 .. ErrCap
        BY <2>2, <3>2, P2PAssumption DEF ConnState
      <4>2. conn' = [conn EXCEPT ![c].errs = conn[c].errs + 1]
        BY <3>2
      <4> QED
        BY <2>2, <4>1, <4>2, ConnMoved
    <3> QED
      BY <1>3, <3>1, <3>2 DEF ReportError
  <2>4. PICK s \in TaskState : TaskInv(s) /\ s.pc \in {"idle", "fail"} /\ task' = [task EXCEPT ![t] = s]
    BY <1>3, Ends DEF ReportError
  <2>5. s.pc \notin Counting
    BY <2>4 DEF Counting
  <2> QED
    BY <1>1, <1>2, <2>3, <2>4, <2>5, BothMove
<1>4. ASSUME NEW c \in Conn, NEW m \in Inputs, Deliver(c, m, t) PROVE Inv'
  <2> DEFINE s == [Idle EXCEPT !.pc = "handle", !.conn = c, !.msg = m]
             e == IF conn[c].errs > 0 THEN conn[c].errs - 1 ELSE 0
  <2>1. FreeConn.reader = "none"
    BY DEF FreeConn
  <2>2. conn[c].main # "free" /\ conn[c] \in ConnState
    BY <1>4, <2>1 DEF Deliver, Inv, TypeOK, ConnInv
  <2>3. e \in 0 .. ErrCap
    BY <2>2, P2PAssumption DEF ConnState
  <2>4. conn' = [conn EXCEPT ![c].errs = e]
    BY <1>4 DEF Deliver
  <2>5. conn' \in [Conn -> ConnState] /\ \A d \in Conn : SameConn(d)
    <3> HIDE DEF e
    <3> QED
      BY <2>2, <2>3, <2>4, ConnMoved
  <2>6. s \in TaskState /\ s.pc = "handle"
    BY FreshOk DEF Fresh, TaskState
  <2>7. TaskInv(s)
    <3>1. m # NoMsg /\ c # NoConn /\ MaxAttempts \in Nat
      BY P2PAssumption
    <3>2. s.conn = c /\ s.msg = m /\ s.dials = 0 /\ s.retry = 0
      BY DEF Idle
    <3>3. conn[c].reader = "reading"
      BY <1>4 DEF Deliver
    <3> HIDE DEF s
    <3> QED
      BY <2>6, <3>1, <3>2, <3>3 DEF TaskInv
  <2>8. task' = [task EXCEPT ![t] = s] /\ s.pc \notin Counting
    BY <1>4, <2>6 DEF Deliver, Counting
  <2> HIDE DEF s, e
  <2> QED
    BY <1>1, <1>2, <2>5, <2>6, <2>7, <2>8, BothMove
<1> QED
  BY <1>3, <1>4

\* A peer that sent us to a bad id is blocked, or the id is, or neither.
LEMMA BlockSteps ==
    ASSUME Inv, NEW t \in Task, DialBlocked(t) \/ Block(t)
    PROVE  Inv'
<1>1. /\ UNCHANGED <<flags, peers, pending, failures, history>>
      /\ outBlock \subseteq Id /\ inBlock \subseteq Id /\ ipBlock \subseteq IP
      /\ task[t] \in TaskState /\ TaskInv(task[t]) /\ task[t].target \in Id
      /\ task \in [Task -> TaskState]
  BY DEF DialBlocked, Block, Inv, TypeOK, TaskInv
<1>2. outBlock' \subseteq Id /\ \A i \in outBlock' \ outBlock : giveups[i] = MaxFailures
  <2>1. CASE DialBlocked(t)
    BY <1>1, <2>1 DEF DialBlocked
  <2>2. CASE Block(t)
    <3>1. giveups[task[t].target] = MaxFailures
      BY <1>1, <2>2 DEF Block, Inv, CountInv
    <3> QED
      BY <1>1, <2>2, <3>1 DEF Block
  <2> QED
    BY <2>1, <2>2
<1>3. /\ conn' \in [Conn -> ConnState] /\ \A d \in Conn : SameConn(d)
      /\ inBlock' \subseteq Id /\ ipBlock' \subseteq IP
  <2>1. CASE UNCHANGED <<inBlock, ipBlock, conn>>
    BY <1>1, <2>1 DEF SameConn, Inv, TypeOK
  <2>2. CASE BlockFrom(t) /\ task[t].conn # NoConn
    <3> DEFINE c == task[t].conn
    <3>1. c \in Conn /\ conn[c].main # "free" /\ conn[c].ip \in IP /\ conn[c].id \in Id \cup {NoId}
      BY <2>2, InUse DEF ConnState
    <3>2. /\ conn' = [conn EXCEPT ![c].socket = "closed"]
          /\ inBlock' = inBlock \cup ({conn[c].id} \ {NoId}) /\ ipBlock' = ipBlock \cup {conn[c].ip}
      BY <2>2 DEF BlockFrom
    <3> HIDE DEF c
    <3>3. conn' \in [Conn -> ConnState] /\ \A d \in Conn : SameConn(d)
      BY <3>1, <3>2, ConnMoved
    <3> QED
      BY <1>1, <3>1, <3>2, <3>3
  <2> QED
    BY <2>1, <2>2 DEF DialBlocked, Block
<1>4. CASE Done(t) \/ Failed(t)
  <2>1. PICK s \in TaskState : TaskInv(s) /\ s.pc \in {"idle", "fail"} /\ task' = [task EXCEPT ![t] = s]
    BY <1>4, Ends
  <2>2. s.pc \notin Counting
    BY <2>1 DEF Counting
  <2> QED
    BY <1>1, <1>2, <1>3, <2>1, <2>2, BothMove
<1>5. CASE DialBlocked(t) /\ Goto(t, "dial")
  <2> DEFINE s == [task[t] EXCEPT !.pc = "dial"]
  <2>1. task' = [task EXCEPT ![t] = s]
    BY <1>1, <1>5 DEF Goto
  <2>2. s \in TaskState /\ s.pc = "dial"
    BY <1>1 DEF TaskState
  <2>3. TaskInv(s)
    BY <1>1, <1>5 DEF TaskInv, TaskState, DialBlocked
  <2>4. s.pc \notin Counting
    BY <2>2 DEF Counting
  <2> HIDE DEF s
  <2> QED
    BY <1>1, <1>2, <1>3, <2>1, <2>2, <2>3, <2>4, BothMove
<1> QED
  BY <1>4, <1>5 DEF DialBlocked, Block

-----------------------------------------------------------------------------
(* The failure counter *)

\* An id that goroutine t has nothing to do with.
LEMMA OtherCounts ==
    ASSUME Inv, NEW t \in Task, NEW s \in TaskState, task' = [task EXCEPT ![t] = s],
           NEW j \in Id, task[t].target # j, s.target # j,
           failures'[j] = failures[j], giveups'[j] = giveups[j], outBlock' = outBlock
    PROVE  CountInv(j)'
<1>1. task \in [Task -> TaskState] /\ CountInv(j)
  BY DEF Inv, TypeOK
<1>2. \A u \in Task : task'[u].target = j => task'[u] = task[u]
  BY <1>1
<1>3. Tallying(j)' = Tallying(j)
  BY <1>1, <1>2 DEF Tallying
<1> QED
  BY <1>1, <1>2, <1>3 DEF CountInv

\* The id whose failures goroutine t counts: what has to be shown of it.  n is
\* the number of goroutines that will have yet to add theirs.
LEMMA OwnCount ==
    ASSUME Inv, NEW t \in Task, NEW s \in TaskState, task' = [task EXCEPT ![t] = s],
           NEW i \in Id, NEW n \in Nat, NEW g \in Nat, giveups'[i] = g, outBlock' = outBlock,
           IsFiniteSet(Tallying(i)'), Cardinality(Tallying(i)') = n,
           g # MaxFailures =>
               /\ giveups[i] # MaxFailures /\ giveups[i] <= g
               /\ n <= Cardinality(Tallying(i)) + (g - giveups[i])
               /\ failures'[i] + n <= g
               /\ s.pc = "count" => s.counter + n <= g
               /\ s.pc # "block"
    PROVE  CountInv(i)'
<1>1. task \in [Task -> TaskState] /\ CountInv(i) /\ giveups[i] \in Nat
  BY P2PAssumption DEF Inv, TypeOK
<1>2. CASE g = MaxFailures
  BY <1>2 DEF CountInv
<1>3. CASE g # MaxFailures
  <2>1. ASSUME NEW u \in Task, task'[u].target = i
        PROVE  /\ task'[u].pc = "count" => task'[u].counter + n <= g
               /\ task'[u].pc # "block"
    <3>1. CASE u = t
      BY <1>1, <1>3, <3>1
    <3>2. CASE u # t
      <4>1. task'[u] = task[u] /\ task[u].target = i /\ task[u].counter \in Nat
        BY <1>1, <2>1, <3>2 DEF TaskState
      <4>2. /\ task[u].pc = "count" => task[u].counter + Cardinality(Tallying(i)) <= giveups[i]
            /\ task[u].pc # "block"
        BY <1>1, <1>3, <4>1 DEF CountInv
      <4>3. Cardinality(Tallying(i)) \in Nat
        BY <1>1, FS_CardinalityType DEF CountInv
      <4> QED
        BY <1>1, <1>3, <4>1, <4>2, <4>3
    <3> QED
      BY <3>1, <3>2
  <2>2. i \in outBlock' => i \in ConfigBlock
    BY <1>1, <1>3 DEF CountInv
  <2> QED
    BY <1>3, <2>1, <2>2 DEF CountInv
<1> QED
  BY <1>2, <1>3

\* Goroutine t counts, and every counter is in order afterwards.
LEMMA CountMoves ==
    ASSUME Inv, NEW t \in Task, NEW s \in TaskState, TaskInv(s), task' = [task EXCEPT ![t] = s],
           failures' \in [Id -> Nat], giveups' \in [Id -> 0 .. MaxFailures],
           \A i \in Id : CountInv(i)',
           UNCHANGED <<flags, peers, pending, blocklists, conn, proved, listed, renamed, late, doubled>>
    PROVE  Inv'
<1>1. task' \in [Task -> TaskState] /\ \A u \in Task : TaskInv(task'[u])
  BY DEF Inv, TypeOK
<1>2. UNCHANGED <<started, starting, opened, outBlock, inBlock, ipBlock>>
  BY DEF flags, blocklists
<1>3. TypeOK'
  BY <1>1, <1>2 DEF Inv, TypeOK
<1>4. \A c \in Conn : SameConn(c)
  BY DEF SameConn
<1>5. /\ \A c \in Conn : ConnInv(c)'
      /\ \A i \in Id : PeerInv(i)'
      /\ DoubledInv' /\ OpenPeersListed'
      /\ \A k \in TaskState : TaskInv(k) => TaskInv(k)'
  BY <1>2, <1>4, ConnsKept
<1>6. \A u \in Task : TaskInv(task[u])'
  BY <1>1, <1>5
<1> QED
  BY <1>2, <1>3, <1>5, <1>6 DEF Inv

\* A dial has used up its attempts: the counter is started or read.
LEMMA GiveUpStep == ASSUME Inv, NEW t \in Task, GiveUp(t) \/ Tally(t) PROVE Inv'
<1>0. PICK i \in Id : i = task[t].target
  BY DEF GiveUp, Tally, Inv, TaskInv
<1> DEFINE S == Tallying(i)
           n == Cardinality(S)
           g == giveups[i]
<1>1. /\ i = task[t].target
      /\ task \in [Task -> TaskState] /\ task[t] \in TaskState /\ TaskInv(task[t]) /\ i \in Id
      /\ failures \in [Id -> Nat] /\ giveups \in [Id -> 0 .. MaxFailures]
      /\ MaxFailures \in Nat \ {0} /\ failures[i] \in Nat /\ g \in 0 .. MaxFailures
      /\ CountInv(i) /\ IsFiniteSet(S)
  BY <1>0, P2PAssumption DEF GiveUp, Tally, Inv, TypeOK, TaskInv, CountInv
<1>2. n \in Nat /\ (g # MaxFailures => failures[i] + n <= g)
  BY <1>1, FS_CardinalityType DEF CountInv
<1>3. /\ UNCHANGED <<flags, peers, pending, blocklists, conn, proved, listed, renamed, late, doubled>>
      /\ failures' = failures /\ outBlock' = outBlock
  BY DEF GiveUp, Tally, history, blocklists
<1>4. CASE GiveUp(t)
  <2> DEFINE h == IF g < MaxFailures THEN g + 1 ELSE g
  <2>1. /\ giveups' = [giveups EXCEPT ![i] = h] /\ h \in 0 .. MaxFailures /\ task[t].pc = "giveUp"
        /\ h # MaxFailures => g # MaxFailures /\ h = g + 1
    BY <1>1, <1>4 DEF GiveUp
  <2> HIDE DEF h
  <2>2. giveups' \in [Id -> 0 .. MaxFailures] /\ giveups'[i] = h /\ h \in Nat
        /\ \A j \in Id \ {i} : giveups'[j] = giveups[j]
    BY <1>1, <2>1
  <2>3. ASSUME NEW s \in TaskState, TaskInv(s), task' = [task EXCEPT ![t] = s], s.target = i,
               \/ s.pc = "count" /\ s.counter = 1 /\ failures[i] = 0
               \/ s.pc = "tally"
        PROVE  Inv'
    <3>1. ASSUME NEW j \in Id \ {i} PROVE CountInv(j)'
      BY <1>1, <1>3, <2>2, <2>3, <3>1, OtherCounts
    <3>2. CountInv(i)'
      <4>1. CASE s.pc = "count" /\ s.counter = 1 /\ failures[i] = 0
        <5>1. Tallying(i)' = S
          BY <1>1, <2>1, <2>3, <4>1 DEF Tallying
        <5> HIDE DEF S, n, g
        <5>2. /\ IsFiniteSet(Tallying(i)') /\ Cardinality(Tallying(i)') = n
              /\ h # MaxFailures => /\ g # MaxFailures /\ g <= h /\ n <= n + (h - g)
                                    /\ failures'[i] + n <= h /\ 1 + n <= h
          BY <1>1, <1>2, <1>3, <2>1, <4>1, <5>1 DEF n
        <5>9. h # MaxFailures =>
                   /\ giveups[i] # MaxFailures /\ giveups[i] <= h
                   /\ n <= Cardinality(Tallying(i)) + (h - giveups[i])
                   /\ failures'[i] + n <= h
                   /\ s.pc = "count" => s.counter + n <= h
                   /\ s.pc # "block"
          BY <1>1, <2>3, <4>1, <5>2 DEF n, g, S
        <5> QED
          BY <1>1, <1>2, <1>3, <2>2, <2>3, <5>2, <5>9, OwnCount
      <4>2. CASE s.pc = "tally"
        <5>1. Tallying(i)' = S \cup {t} /\ t \notin S
          BY <1>1, <2>1, <2>3, <4>2 DEF Tallying
        <5>2. IsFiniteSet(S \cup {t}) /\ Cardinality(S \cup {t}) = n + 1
          BY <1>1, <5>1, FS_AddElement
        <5> HIDE DEF S, n, g
        <5>3. /\ IsFiniteSet(Tallying(i)') /\ Cardinality(Tallying(i)') = n + 1
              /\ n + 1 \in Nat
              /\ h # MaxFailures => /\ g # MaxFailures /\ g <= h /\ n + 1 <= n + (h - g)
                                    /\ failures'[i] + (n + 1) <= h
          BY <1>1, <1>2, <1>3, <2>1, <5>1, <5>2
        <5>9. h # MaxFailures =>
                   /\ giveups[i] # MaxFailures /\ giveups[i] <= h
                   /\ (n + 1) <= Cardinality(Tallying(i)) + (h - giveups[i])
                   /\ failures'[i] + (n + 1) <= h
                   /\ s.pc = "count" => s.counter + (n + 1) <= h
                   /\ s.pc # "block"
          BY <1>1, <2>3, <4>2, <5>3 DEF n, g, S
        <5> QED
          BY <1>1, <1>2, <1>3, <2>2, <2>3, <5>3, <5>9, OwnCount
      <4> QED
        BY <2>3, <4>1, <4>2
    <3> QED
      BY <1>1, <1>3, <2>2, <2>3, <3>1, <3>2, CountMoves
  <2>4. CASE failures[i] = 0
    <3> DEFINE s == [task[t] EXCEPT !.pc = "count", !.counter = 1]
    <3>1. task' = [task EXCEPT ![t] = s]
      BY <1>1, <1>4, <2>4 DEF GiveUp
    <3>2. s \in TaskState /\ s.target = i /\ s.pc = "count" /\ s.counter = 1
      BY <1>1 DEF TaskState
    <3>3. TaskInv(s)
      BY <1>1, <2>1 DEF TaskInv, TaskState
    <3> HIDE DEF s
    <3> QED
      BY <2>3, <2>4, <3>1, <3>2, <3>3
  <2>5. CASE failures[i] # 0
    <3> DEFINE s == [task[t] EXCEPT !.pc = "tally"]
    <3>1. task' = [task EXCEPT ![t] = s]
      BY <1>1, <1>4, <2>5 DEF GiveUp, Goto
    <3>2. s \in TaskState /\ s.target = i /\ s.pc = "tally"
      BY <1>1 DEF TaskState
    <3>3. TaskInv(s)
      BY <1>1, <2>1 DEF TaskInv, TaskState
    <3> HIDE DEF s
    <3> QED
      BY <2>3, <3>1, <3>2, <3>3
  <2> QED
    BY <2>4, <2>5
<1>5. CASE Tally(t)
  <2> DEFINE f == failures[i] + 1
             s == [task[t] EXCEPT !.pc = "count", !.counter = f]
  <2>1. task' = [task EXCEPT ![t] = s] /\ giveups' = giveups /\ task[t].pc = "tally"
    BY <1>1, <1>5 DEF Tally, history
  <2>2. f \in Nat
    BY <1>1
  <2>3. s \in TaskState /\ s.target = i /\ s.pc = "count" /\ s.counter = f
    BY <1>1, <2>2 DEF TaskState
  <2>4. TaskInv(s)
    BY <1>1, <2>1 DEF TaskInv, TaskState
  <2> HIDE DEF s
  <2>5. ASSUME NEW j \in Id \ {i} PROVE CountInv(j)'
    BY <1>1, <1>3, <2>1, <2>3, <2>5, OtherCounts
  <2>6. CountInv(i)'
    <3>1. Tallying(i)' = S \ {t} /\ t \in S
      BY <1>1, <2>1, <2>3 DEF Tallying
    <3>2. IsFiniteSet(S \ {t}) /\ Cardinality(S \ {t}) = n - 1 /\ Cardinality(S \ {t}) \in Nat
      BY <1>1, <3>1, FS_RemoveElement, FS_CardinalityType
    <3> HIDE DEF S, n, g
    <3>3. /\ IsFiniteSet(Tallying(i)') /\ Cardinality(Tallying(i)') = n - 1 /\ n - 1 \in Nat
          /\ g # MaxFailures => /\ g <= g /\ n - 1 <= n + (g - g)
                                /\ failures'[i] + (n - 1) <= g /\ f + (n - 1) <= g
      BY <1>1, <1>2, <1>3, <3>1, <3>2
    <3>8. g \in Nat /\ giveups'[i] = g
      BY <1>1, <2>1 DEF g
    <3>9. g # MaxFailures =>
               /\ giveups[i] # MaxFailures /\ giveups[i] <= g
               /\ (n - 1) <= Cardinality(Tallying(i)) + (g - giveups[i])
               /\ failures'[i] + (n - 1) <= g
               /\ s.pc = "count" => s.counter + (n - 1) <= g
               /\ s.pc # "block"
      BY <1>1, <2>3, <3>3 DEF n, g, S
    <3> QED
      BY <1>1, <1>2, <1>3, <2>1, <2>3, <3>3, <3>8, <3>9, OwnCount
  <2> QED
    BY <1>1, <1>3, <2>1, <2>3, <2>4, <2>5, <2>6, CountMoves
<1> QED
  BY <1>4, <1>5

\* The counter is written, and the id is to be blocked when it has reached its
\* limit.
LEMMA CountStep == ASSUME Inv, NEW t \in Task, Count(t) PROVE Inv'
<1>1. PICK i \in Id : i = task[t].target
  BY DEF Count, Inv, TaskInv
<1> DEFINE S == Tallying(i)
           n == Cardinality(S)
           g == giveups[i]
           k == task[t].counter
<1>2. /\ task \in [Task -> TaskState] /\ task[t] \in TaskState /\ TaskInv(task[t])
      /\ failures \in [Id -> Nat] /\ giveups \in [Id -> 0 .. MaxFailures] /\ g \in 0 .. MaxFailures
      /\ MaxFailures \in Nat \ {0} /\ CountInv(i) /\ IsFiniteSet(S) /\ task[t].pc = "count"
  BY P2PAssumption DEF Count, Inv, TypeOK, CountInv
<1>3. n \in Nat /\ k \in Nat /\ (g # MaxFailures => k + n <= g)
  BY <1>1, <1>2, FS_CardinalityType DEF CountInv, TaskState
<1>4. /\ UNCHANGED <<flags, peers, pending, blocklists, conn, proved, listed, renamed, late, doubled>>
      /\ giveups' = giveups /\ outBlock' = outBlock /\ failures' = [failures EXCEPT ![i] = k]
  BY <1>1 DEF Count, history, blocklists
<1>5. failures' \in [Id -> Nat] /\ failures'[i] = k /\ \A j \in Id \ {i} : failures'[j] = failures[j]
  BY <1>2, <1>3, <1>4
<1>6. PICK s \in TaskState : /\ TaskInv(s) /\ task' = [task EXCEPT ![t] = s]
                             /\ \/ s.pc = "block" /\ s.target = i /\ k >= MaxFailures
                                \/ s.pc = "idle" /\ s.target \notin Id
  <2>1. CASE k >= MaxFailures
    <3> DEFINE s == [task[t] EXCEPT !.pc = "block"]
    <3>1. task' = [task EXCEPT ![t] = s]
      BY <1>2, <2>1 DEF Count, Goto
    <3>2. s \in TaskState /\ s.target = i /\ s.pc = "block"
      BY <1>1, <1>2 DEF TaskState
    <3>3. TaskInv(s)
      BY <1>2 DEF TaskInv, TaskState
    <3> HIDE DEF s
    <3> QED
      BY <2>1, <3>1, <3>2, <3>3
  <2>2. CASE ~ (k >= MaxFailures)
    <3>1. task' = [task EXCEPT ![t] = Idle]
      BY <2>2 DEF Count, Done
    <3>2. Idle.target \notin Id
      BY P2PAssumption DEF Idle
    <3>3. TaskInv(Idle) /\ Idle \in TaskState /\ Idle.pc = "idle"
      BY FreshOk, P2PAssumption DEF Fresh, TaskInv
    <3> QED
      BY <3>1, <3>2, <3>3
  <2> QED
    BY <2>1, <2>2
<1>7. ASSUME NEW j \in Id \ {i} PROVE CountInv(j)'
  BY <1>1, <1>4, <1>5, <1>6, <1>7, OtherCounts
<1>8. CountInv(i)'
  <2>1. Tallying(i)' = S
    BY <1>2, <1>6 DEF Tallying
  <2> HIDE DEF S, n, g, k
  <2>2. /\ IsFiniteSet(Tallying(i)') /\ Cardinality(Tallying(i)') = n
        /\ g \in Nat /\ giveups'[i] = g
    BY <1>2, <1>4, <2>1 DEF n, g
  <2>3. g # MaxFailures =>
           /\ giveups[i] # MaxFailures /\ giveups[i] <= g
           /\ n <= Cardinality(Tallying(i)) + (g - giveups[i])
           /\ failures'[i] + n <= g
           /\ s.pc = "count" => s.counter + n <= g
           /\ s.pc # "block"
    BY <1>2, <1>3, <1>5, <1>6 DEF n, g, S
  <2> QED
    BY <1>3, <1>4, <1>6, <2>2, <2>3, OwnCount
<1> QED
  BY <1>2, <1>4, <1>5, <1>6, <1>7, <1>8, CountMoves

\* The process starts again from nothing.
LEMMA PanicStep == ASSUME Inv, NEW t \in Task, Panics(t) PROVE Inv'
<1>1. Init'
  BY DEF Panics, Init
<1> QED
  BY <1>1, InitInv, PTL

-----------------------------------------------------------------------------
(* The life of a connection *)

\* The counters after a step that is not about them.
LEMMA NoCounts ==
    ASSUME Inv, task' \in [Task -> TaskState],
           \A u \in Task : task'[u] = task[u] \/ task'[u].pc \notin Counting,
           UNCHANGED <<failures, giveups, outBlock>>
    PROVE  \A i \in Id : CountInv(i)'
<1>1. failures' \in [Id -> Nat] /\ \A i \in Id : failures'[i] <= failures[i]
  BY DEF Inv, TypeOK
<1> QED
  BY <1>1, CountsKept

\* A step that is about connection c only.
LEMMA OneConn ==
    ASSUME Inv, NEW c \in Conn, NEW k \in ConnState, conn' = [conn EXCEPT ![c] = k],
           peers' \in [Id -> Conn \cup {NoConn}], pending' \in [Id -> Conn \cup {NoConn}],
           \A t \in Task : TaskInv(task[t])', \A i \in Id : PeerInv(i)',
           ConnInv(c)', DoubledInv', OpenPeersListed',
           UNCHANGED <<flags, blocklists, failures, task, history>>
    PROVE  Inv'
<1>1. /\ UNCHANGED <<started, starting, opened, outBlock, inBlock, ipBlock>>
      /\ UNCHANGED <<proved, listed, renamed, late, doubled, giveups>>
  BY DEF flags, blocklists, history
<1>2. conn' \in [Conn -> ConnState] /\ \A d \in Conn \ {c} : conn'[d] = conn[d]
  BY DEF Inv, TypeOK
<1>3. TypeOK'
  BY <1>1, <1>2 DEF Inv, TypeOK
<1>4. \A d \in Conn : ConnInv(d)'
  BY <1>1, <1>2 DEF Inv, ConnInv
<1>5. \A i \in Id : CountInv(i)'
  <2>1. task' \in [Task -> TaskState] /\ \A u \in Task : task'[u] = task[u]
    BY DEF Inv, TypeOK
  <2> QED
    BY <1>1, <2>1, NoCounts
<1> QED
  BY <1>1, <1>3, <1>4, <1>5 DEF Inv

\* A connection that nobody uses yet is accepted, or OnNewPeer begins.
LEMMA ConnBegins ==
    ASSUME Inv, NEW c \in Conn, OnNewPeer(c) \/ \E ip \in IP : Accept(c, ip)
    PROVE  Inv'
<1>1. /\ conn \in [Conn -> ConnState] /\ ConnInv(c) /\ conn[c] \in ConnState
      /\ peers \in [Id -> Conn \cup {NoConn}] /\ pending \in [Id -> Conn \cup {NoConn}]
  BY DEF Inv, TypeOK
<1>2. UNCHANGED <<flags, peers, pending, blocklists, failures, task, history>>
  BY DEF OnNewPeer, Accept
<1>3. /\ UNCHANGED opened
      /\ UNCHANGED <<proved, listed, renamed, late, doubled>>
  BY <1>2 DEF flags, history
<1>4. conn[c].main \in {"free", "new"} /\ conn[c].reader = "none"
  <2>1. FreeConn.reader = "none"
    BY DEF FreeConn
  <2> QED
    BY <1>1, <2>1 DEF OnNewPeer, Accept, ConnInv
<1>5. PICK k \in ConnState :
         /\ conn' = [conn EXCEPT ![c] = k]
         /\ k.id = conn[c].id /\ k.dialed = conn[c].dialed /\ k.hs = conn[c].hs
         /\ k.ip \in IP /\ k.main # "free" /\ k.reader \in {"none", "reading"}
         /\ k.main = "new" => k.reader = "none"
  <2>1. CASE OnNewPeer(c)
    <3> DEFINE k == IF Blocklisted(c) THEN [conn[c] EXCEPT !.main = "returned", !.socket = "closed"]
                                      ELSE [conn[c] EXCEPT !.main = "opening", !.reader = "reading"]
    <3>1. conn' = [conn EXCEPT ![c] = k]
      BY <1>1, <2>1 DEF OnNewPeer
    <3>2. conn[c].ip \in IP
      BY <1>1, <2>1 DEF OnNewPeer, ConnInv
    <3>3. k \in ConnState
      BY <1>1 DEF ConnState
    <3>4. /\ k.id = conn[c].id /\ k.dialed = conn[c].dialed /\ k.hs = conn[c].hs
          /\ k.ip = conn[c].ip /\ k.main \in {"returned", "opening"} /\ k.reader \in {"none", "reading"}
      BY <1>1, <1>4 DEF ConnState
    <3> HIDE DEF k
    <3> QED
      BY <3>1, <3>2, <3>3, <3>4
  <2>2. ASSUME NEW ip \in IP, Accept(c, ip)
        PROVE  \E k \in ConnState :
                 /\ conn' = [conn EXCEPT ![c] = k]
                 /\ k.id = conn[c].id /\ k.dialed = conn[c].dialed /\ k.hs = conn[c].hs
                 /\ k.ip \in IP /\ k.main # "free" /\ k.reader \in {"none", "reading"}
                 /\ k.main = "new" => k.reader = "none"
    <3> DEFINE k == [FreeConn EXCEPT !.main = "new", !.socket = "open", !.ip = ip]
    <3>1. conn[c] = FreeConn /\ conn' = [conn EXCEPT ![c] = k]
      BY <1>1, <2>2 DEF Accept, ConnInv
    <3>2. k \in ConnState
      BY FreshOk DEF ConnState, Fresh
    <3>3. /\ k.id = FreeConn.id /\ k.dialed = FreeConn.dialed /\ k.hs = FreeConn.hs
          /\ k.ip = ip /\ k.main = "new" /\ k.reader = "none"
      BY DEF FreeConn
    <3> HIDE DEF k
    <3> QED
      BY <3>1, <3>2, <3>3
  <2> QED
    BY <2>1, <2>2
<1>6. conn'[c] = k /\ \A d \in Conn \ {c} : conn'[d] = conn[d]
  BY <1>1, <1>5
<1>7. \A t \in Task : task[t].conn # c
  BY <1>4, P2PAssumption DEF Inv, TaskInv
<1>8. \A t \in Task : TaskInv(task[t])'
  <2> SUFFICES ASSUME NEW t \in Task PROVE TaskInv(task[t])'
    OBVIOUS
  <2>1. TaskInv(task[t]) /\ task[t].conn \in Conn \cup {NoConn} /\ task'[t] = task[t]
    BY <1>2 DEF Inv, TypeOK, TaskState
  <2>2. task[t].conn # NoConn => conn'[task[t].conn] = conn[task[t].conn]
    BY <1>6, <1>7, <2>1
  <2> QED
    BY <2>1, <2>2 DEF TaskInv
<1>9. c \notin listed /\ ~ conn[c].hs
  BY <1>1, <1>4 DEF ConnInv
<1>10. ConnInv(c)'
  BY <1>1, <1>3, <1>5, <1>6, <1>9 DEF ConnInv
<1>11. \A i \in Id : PeerInv(i)'
  <2> SUFFICES ASSUME NEW i \in Id, peers[i] # NoConn PROVE PeerInv(i)'
    BY <1>2 DEF PeerInv
  <2>1. PeerInv(i) /\ peers[i] \in Conn
    BY <1>1 DEF Inv
  <2>2. peers[i] # c
    BY <1>9, <2>1 DEF PeerInv
  <2> QED
    BY <1>2, <1>3, <1>6, <2>1, <2>2 DEF PeerInv
<1>12. DoubledInv'
  BY <1>3, <1>4, <1>5, <1>6 DEF Inv, DoubledInv
<1>13. OpenPeersListed'
  BY <1>2, <1>3, <1>6, <1>9 DEF Inv, TypeOK, OpenPeersListed
<1> QED
  BY <1>1, <1>2, <1>5, <1>8, <1>10, <1>11, <1>12, <1>13, OneConn

\* The reader ends: onDone drops the id from the maps, then the goroutines are
\* waited for.
LEMMA ReaderSteps == ASSUME Inv, NEW c \in Conn, OnClose(c) \/ ReaderEnd(c) PROVE Inv'
<1>1. /\ conn \in [Conn -> ConnState] /\ ConnInv(c) /\ conn[c] \in ConnState
      /\ peers \in [Id -> Conn \cup {NoConn}] /\ pending \in [Id -> Conn \cup {NoConn}]
      /\ conn[c].reader \in {"reading", "draining"} /\ conn[c].id \in Id \cup {NoId}
  BY DEF Inv, TypeOK, OnClose, ReaderEnd, ConnState
<1>2. UNCHANGED <<flags, blocklists, failures, task, history>>
  BY DEF OnClose, ReaderEnd
<1>3. /\ UNCHANGED opened
      /\ UNCHANGED <<proved, listed, renamed, late, doubled>>
  BY <1>2 DEF flags, history
<1>4. PICK k \in ConnState :
         /\ conn' = [conn EXCEPT ![c] = k]
         /\ k.id = conn[c].id /\ k.dialed = conn[c].dialed /\ k.hs = conn[c].hs
         /\ k.ip = conn[c].ip /\ k.main = conn[c].main
         /\ \/ OnClose(c) /\ k.reader = "draining"
            \/ ReaderEnd(c) /\ k.reader = "ended"
  <2>1. CASE OnClose(c)
    <3> DEFINE k == [conn[c] EXCEPT !.reader = "draining"]
    <3>1. conn' = [conn EXCEPT ![c] = k]
      BY <1>1, <2>1 DEF OnClose
    <3>2. k \in ConnState
      BY <1>1 DEF ConnState
    <3>3. /\ k.id = conn[c].id /\ k.dialed = conn[c].dialed /\ k.hs = conn[c].hs
          /\ k.ip = conn[c].ip /\ k.main = conn[c].main /\ k.reader = "draining"
      BY <1>1 DEF ConnState
    <3> HIDE DEF k
    <3> QED
      BY <2>1, <3>1, <3>2, <3>3
  <2>2. CASE ReaderEnd(c)
    <3> DEFINE k == [conn[c] EXCEPT !.reader = "ended", !.errs = 0]
    <3>1. conn' = [conn EXCEPT ![c] = k]
      BY <1>1, <2>2 DEF ReaderEnd
    <3>2. k \in ConnState
      <4>1. 0 \in 0 .. ErrCap
        BY P2PAssumption
      <4> QED
        BY <1>1, <4>1 DEF ConnState
    <3>3. /\ k.id = conn[c].id /\ k.dialed = conn[c].dialed /\ k.hs = conn[c].hs
          /\ k.ip = conn[c].ip /\ k.main = conn[c].main /\ k.reader = "ended"
      BY <1>1 DEF ConnState
    <3> HIDE DEF k
    <3> QED
      BY <2>2, <3>1, <3>2, <3>3
  <2> QED
    BY <2>1, <2>2
<1>5. conn'[c] = k /\ \A d \in Conn \ {c} : conn'[d] = conn[d]
  BY <1>1, <1>4
<1>6. /\ peers' \in [Id -> Conn \cup {NoConn}] /\ pending' \in [Id -> Conn \cup {NoConn}]
      /\ \A i \in Id : peers'[i] = peers[i] \/ peers'[i] = NoConn
      /\ \A i \in Id : i # conn[c].id => peers'[i] = peers[i]
      /\ OnClose(c) /\ conn[c].id \in Id => peers'[conn[c].id] = NoConn
      /\ ReaderEnd(c) => UNCHANGED peers
  BY <1>1, P2PAssumption DEF OnClose, ReaderEnd
<1>7. \A t \in Task : TaskInv(task[t])'
  <2> SUFFICES ASSUME NEW t \in Task PROVE TaskInv(task[t])'
    OBVIOUS
  <2>1. TaskInv(task[t]) /\ task[t].conn \in Conn \cup {NoConn} /\ task'[t] = task[t]
    BY <1>2 DEF Inv, TypeOK, TaskState
  <2>2. task[t].conn # NoConn => /\ conn'[task[t].conn].reader \in {"reading", "draining"}
                                 /\ conn'[task[t].conn].hs = conn[task[t].conn].hs
    BY <1>4, <1>5, <2>1 DEF TaskInv, ReaderEnd
  <2> QED
    BY <2>1, <2>2 DEF TaskInv
<1>8. ConnInv(c)'
  <2>1. conn[c].main \notin {"free", "new"}
    <3>1. FreeConn.reader = "none"
      BY DEF FreeConn
    <3> QED
      BY <1>1, <3>1 DEF ConnInv
  <2> QED
    BY <1>1, <1>3, <1>4, <1>5, <2>1 DEF ConnInv
<1>9. \A i \in Id : PeerInv(i)'
  <2> SUFFICES ASSUME NEW i \in Id, peers'[i] # NoConn PROVE PeerInv(i)'
    BY DEF PeerInv
  <2>1. PeerInv(i) /\ peers[i] \in Conn /\ peers'[i] = peers[i]
    BY <1>1, <1>6 DEF Inv
  <2>2. CASE peers[i] # c
    BY <1>3, <1>5, <2>1, <2>2 DEF PeerInv
  <2>3. CASE peers[i] = c
    <3>1. c \in late \cup renamed
      <4>1. CASE OnClose(c)
        BY <1>6, <2>1, <2>3, <4>1 DEF PeerInv
      <4>2. CASE ReaderEnd(c)
        BY <2>1, <2>3, <4>2 DEF PeerInv, ReaderEnd
      <4> QED
        BY <4>1, <4>2
    <3> QED
      BY <1>3, <1>4, <1>5, <2>1, <2>3, <3>1 DEF PeerInv
  <2> QED
    BY <2>2, <2>3
<1>10. DoubledInv'
  BY <1>1, <1>3, <1>4, <1>5 DEF Inv, DoubledInv
<1>11. OpenPeersListed'
  <2> SUFFICES ASSUME NEW d \in listed, conn'[d].reader = "reading", d \notin renamed,
                      conn'[d].id \notin doubled
               PROVE  peers'[conn'[d].id] = d
    BY <1>3 DEF OpenPeersListed
  <2>1. d \in Conn /\ ConnInv(d) /\ proved[d] \subseteq Id
    BY DEF Inv, TypeOK
  <2>2. d # c /\ conn'[d] = conn[d]
    BY <1>4, <1>5, <2>1
  <2>3. peers[conn[d].id] = d /\ conn[d].id \in Id /\ conn[d].id # NoId
    BY <2>1, <2>2, P2PAssumption DEF Inv, OpenPeersListed, ConnInv
  <2>4. conn[d].id # conn[c].id
    BY <1>1, <2>1, <2>2, <2>3 DEF Inv, DoubledInv
  <2> QED
    BY <1>6, <2>2, <2>3, <2>4
<1> QED
  BY <1>2, <1>4, <1>6, <1>7, <1>8, <1>9, <1>10, <1>11, OneConn

-----------------------------------------------------------------------------
(* The handshake *)

\* Connections that come to bear id i: whoever bears it already is noticed.
LEMMA Noticed ==
    ASSUME Inv, NEW c \in Conn, NEW i \in Id, conn'[c].id = i,
           \A d \in Conn \ {c} : conn'[d] = conn[d],
           doubled' = IF Bearers(i, c) = {} THEN doubled ELSE doubled \cup {i}
    PROVE  DoubledInv' /\ doubled \subseteq doubled'
<1>1. \A d \in Conn \ {c} : conn[d].id = i /\ conn[d].reader # "ended" => i \in doubled'
  BY DEF Bearers
<1>2. doubled \subseteq doubled'
  OBVIOUS
<1>3. ASSUME NEW d \in Conn \ {c}, NEW e \in Conn \ {c}, d # e, conn[d].id = conn[e].id,
             conn[d].id # NoId, conn[d].reader # "ended", conn[e].reader # "ended"
      PROVE  conn[d].id \in doubled'
  BY <1>2, <1>3 DEF Inv, DoubledInv
<1> QED
  BY <1>1, <1>2, <1>3 DEF DoubledInv

\* HandshakeDone is refused, or completes the handshake of the connection.
LEMMA HandshakeStep == ASSUME Inv, NEW t \in Task, HandleDone(t) PROVE Inv'
<1>1. PICK c \in Conn : c = task[t].conn
  BY DEF HandleDone, Handling, Inv, TypeOK, TaskInv, TaskState
<1>2. PICK m \in Inputs : m = task[t].msg
  BY DEF HandleDone, Handling, Inv, TypeOK, TaskInv, TaskState
<1>3. /\ task \in [Task -> TaskState] /\ task[t] \in TaskState /\ TaskInv(task[t])
      /\ conn \in [Conn -> ConnState] /\ conn[c] \in ConnState /\ ConnInv(c)
      /\ task[t].pc = "handle" /\ m.kind = "done" /\ m.signer \in Id /\ m.signer # NoId
  BY <1>1, <1>2, P2PAssumption DEF HandleDone, Handling, Inv, TypeOK
<1>4. /\ conn[c].main \notin {"free", "new"} /\ conn[c].ip \in IP
      /\ conn[c].reader \in {"reading", "draining"}
  BY <1>1, <1>3, InUse, P2PAssumption DEF ConnInv
<1>5. /\ UNCHANGED <<flags, peers, pending, blocklists, failures>>
      /\ UNCHANGED <<started, starting, opened, outBlock, inBlock, ipBlock>>
  BY DEF HandleDone, flags, blocklists
<1>6. CASE ~ started /\ conn' = [conn EXCEPT ![c].socket = "closed"] /\ Done(t) /\ UNCHANGED history
  <2>1. conn' \in [Conn -> ConnState] /\ \A d \in Conn : SameConn(d)
    BY <1>4, <1>6, ConnMoved
  <2>2. PICK s \in TaskState : TaskInv(s) /\ s.pc \in {"idle", "fail"} /\ task' = [task EXCEPT ![t] = s]
    BY <1>6, Ends
  <2>3. /\ s.pc \notin Counting
        /\ outBlock' \subseteq Id /\ inBlock' \subseteq Id /\ ipBlock' \subseteq IP /\ outBlock' = outBlock
    BY <1>5, <2>2 DEF Counting, Inv, TypeOK
  <2> QED
    BY <1>5, <1>6, <2>1, <2>2, <2>3, BothMove
<1>7. CASE Failed(t) /\ UNCHANGED <<conn, history>>
  BY <1>5, <1>7, EndsOnly
<1>8. CASE /\ started /\ HandshakeOk(t)
           /\ conn' = [conn EXCEPT ![c].id = m.signer, ![c].hs = TRUE]
           /\ IF m.feat THEN task' = [task EXCEPT ![t].pc = "add"] ELSE Failed(t)
           /\ proved' = [proved EXCEPT ![c] = @ \cup (IF m.good THEN {m.signer} ELSE {})]
           /\ renamed' = IF conn[c].id \in {NoId, m.signer} THEN renamed ELSE renamed \cup {c}
           /\ doubled' = IF Bearers(m.signer, c) = {} THEN doubled ELSE doubled \cup {m.signer}
           /\ UNCHANGED <<listed, late, giveups>>
  <2> DEFINE k == [conn[c] EXCEPT !.id = m.signer, !.hs = TRUE]
             i == m.signer
  <2>1. m.good /\ (conn[c].dialed # NoId => conn[c].id = i) /\ opened
    BY <1>1, <1>2, <1>8 DEF HandshakeOk, Inv
  <2>2. k \in ConnState
    BY <1>3 DEF ConnState
  <2>3. /\ k.id = i /\ k.hs = TRUE /\ k.dialed = conn[c].dialed /\ k.reader = conn[c].reader
        /\ k.ip = conn[c].ip /\ k.main = conn[c].main
    BY <1>3 DEF ConnState
  <2>4. conn' = [conn EXCEPT ![c] = k]
    BY <1>3, <1>8
  <2> HIDE DEF k
  <2>5. conn' \in [Conn -> ConnState] /\ conn'[c] = k /\ \A d \in Conn \ {c} : conn'[d] = conn[d]
    BY <1>3, <2>2, <2>4
  <2>6. /\ proved' \in [Conn -> SUBSET Id] /\ i \in proved'[c]
        /\ \A d \in Conn : proved[d] \subseteq proved'[d]
        /\ \A d \in Conn \ {c} : proved'[d] = proved[d]
    BY <1>3, <1>8, <2>1 DEF Inv, TypeOK
  <2>7. /\ renamed \subseteq renamed' /\ renamed' \subseteq renamed \cup {c}
        /\ conn[c].id \notin {NoId, i} => c \in renamed'
    BY <1>8
  <2>8. DoubledInv' /\ doubled \subseteq doubled' /\ doubled' \subseteq doubled \cup {i}
    BY <1>3, <1>8, <2>3, <2>5, Noticed
  <2>9. PICK s \in TaskState : /\ TaskInv(s)' /\ s.pc \notin Counting
                               /\ task' = [task EXCEPT ![t] = s]
    <3>1. CASE m.feat
      <4>1. PICK s \in TaskState : s = [task[t] EXCEPT !.pc = "add"]
        BY <1>3 DEF TaskState
      <4>2. s.pc = "add" /\ s.conn = c /\ s.msg = m
        BY <1>1, <1>2, <1>3, <4>1 DEF TaskState
      <4>3. /\ s.dials = task[t].dials /\ s.retry = task[t].retry
            /\ task' = [task EXCEPT ![t] = s]
        BY <1>3, <1>8, <3>1, <4>1 DEF TaskState
      <4>4. TaskInv(s)'
        BY <1>1, <1>2, <1>3, <1>4, <2>3, <2>5, <4>2, <4>3, P2PAssumption DEF TaskInv
      <4>5. s.pc \notin Counting
        BY <4>2 DEF Counting
      <4> QED
        BY <4>3, <4>4, <4>5
    <3>2. CASE ~ m.feat
      <4>1. PICK s \in TaskState : TaskInv(s) /\ s.pc \in {"idle", "fail"} /\ task' = [task EXCEPT ![t] = s]
        BY <1>8, <3>2, Ends
      <4>2. s.conn \in Conn \cup {NoConn}
        BY DEF TaskState
      <4>3. TaskInv(s)'
        BY <2>3, <2>5, <4>1, <4>2 DEF TaskInv
      <4> QED
        BY <4>1, <4>3 DEF Counting
    <3> QED
      BY <3>1, <3>2
  <2>10. task' \in [Task -> TaskState] /\ \A u \in Task : TaskInv(task[u])'
    <3>1. task' \in [Task -> TaskState] /\ task'[t] = s /\ \A u \in Task \ {t} : task'[u] = task[u]
      BY <1>3, <2>9
    <3>2. ASSUME NEW u \in Task \ {t} PROVE TaskInv(task[u])'
      <4>1. TaskInv(task[u]) /\ task[u].conn \in Conn \cup {NoConn}
        BY <1>3 DEF Inv, TaskState
      <4> QED
        BY <2>3, <2>5, <3>1, <4>1 DEF TaskInv
    <3> QED
      BY <2>9, <3>1, <3>2
  <2>11. TypeOK'
    BY <1>3, <1>5, <1>8, <2>5, <2>6, <2>7, <2>8, <2>10 DEF Inv, TypeOK
  <2>12. \A j \in Id : CountInv(j)'
    <3>1. \A u \in Task : task'[u] = task[u] \/ task'[u].pc \notin Counting
      BY <1>3, <2>9
    <3> QED
      BY <1>5, <1>8, <2>10, <3>1, NoCounts
  <2>13. \A d \in Conn : ConnInv(d)'
    <3>1. ConnInv(c)'
      BY <1>3, <1>4, <1>5, <1>8, <2>1, <2>3, <2>5, <2>6 DEF ConnInv
    <3>2. ASSUME NEW d \in Conn \ {c} PROVE ConnInv(d)'
      BY <1>5, <1>8, <2>5, <2>6, <2>7 DEF Inv, ConnInv
    <3> QED
      BY <3>1, <3>2
  <2>14. \A j \in Id : PeerInv(j)'
    <3> SUFFICES ASSUME NEW j \in Id, peers[j] # NoConn PROVE PeerInv(j)'
      BY <1>5 DEF PeerInv
    <3>1. PeerInv(j) /\ peers[j] \in Conn /\ j # NoId
      BY P2PAssumption DEF Inv, TypeOK
    <3>2. CASE peers[j] # c
      BY <1>5, <1>8, <2>5, <2>6, <2>7, <3>1, <3>2 DEF PeerInv
    <3>3. CASE peers[j] = c
      <4>1. c \notin late \cup renamed' => j = i /\ conn[c].reader = "reading"
        BY <2>7, <3>1, <3>3 DEF PeerInv
      <4> QED
        BY <1>5, <1>8, <2>3, <2>5, <2>6, <3>1, <3>3, <4>1 DEF PeerInv
    <3> QED
      BY <3>2, <3>3
  <2>15. OpenPeersListed'
    <3> SUFFICES ASSUME NEW d \in listed, conn'[d].reader = "reading", d \notin renamed',
                        conn'[d].id \notin doubled'
                 PROVE  peers[conn'[d].id] = d
      BY <1>5, <1>8 DEF OpenPeersListed
    <3>1. d \in Conn /\ ConnInv(d)
      BY DEF Inv, TypeOK
    <3>2. CASE d # c
      BY <2>5, <2>7, <2>8, <3>1, <3>2 DEF Inv, OpenPeersListed
    <3>3. CASE d = c
      <4>1. conn[c].id = i
        <5>1. conn[c].id \in Id
          BY <1>3, <3>3 DEF ConnInv, Inv, TypeOK
        <5> QED
          BY <2>7, <3>3, <5>1, P2PAssumption
      <4> QED
        BY <2>3, <2>5, <2>7, <2>8, <3>3, <4>1 DEF Inv, OpenPeersListed
    <3> QED
      BY <3>2, <3>3
  <2> QED
    BY <1>5, <2>1, <2>8, <2>10, <2>11, <2>12, <2>13, <2>14, <2>15 DEF Inv
<1> QED
  BY <1>1, <1>2, <1>6, <1>7, <1>8 DEF HandleDone

\* The connection is listed under the id it has proved.
LEMMA AddPeerStep == ASSUME Inv, NEW t \in Task, AddPeer(t) PROVE Inv'
<1>1. PICK c \in Conn : c = task[t].conn
  BY DEF AddPeer, Inv, TypeOK, TaskInv, TaskState
<1>2. /\ task \in [Task -> TaskState] /\ task[t] \in TaskState /\ TaskInv(task[t])
      /\ conn \in [Conn -> ConnState] /\ conn[c] \in ConnState /\ ConnInv(c) /\ conn[c].hs
      /\ peers \in [Id -> Conn \cup {NoConn}] /\ pending \in [Id -> Conn \cup {NoConn}]
      /\ task[t].pc = "add"
  BY <1>1 DEF AddPeer, Inv, TypeOK, TaskInv
<1>3. PICK i \in Id : i = conn[c].id
  BY <1>2 DEF ConnInv, Inv, TypeOK
<1>4. /\ conn[c].main # "free" /\ conn[c].reader \in {"reading", "draining"}
      /\ c # NoConn /\ i # NoId
  BY <1>1, InUse, P2PAssumption
<1>5. /\ UNCHANGED <<flags, blocklists, failures, conn, proved, renamed, doubled, giveups>>
      /\ UNCHANGED <<started, starting, opened, outBlock, inBlock, ipBlock>>
      /\ peers' = [peers EXCEPT ![i] = c] /\ pending' = [pending EXCEPT ![i] = NoConn]
      /\ listed' = listed \cup {c}
      /\ late' = IF conn[c].reader = "reading" THEN late ELSE late \cup {c}
  BY <1>1, <1>3 DEF AddPeer, flags, blocklists
<1>6. /\ peers' \in [Id -> Conn \cup {NoConn}] /\ pending' \in [Id -> Conn \cup {NoConn}]
      /\ peers'[i] = c /\ \A j \in Id \ {i} : peers'[j] = peers[j]
      /\ late \subseteq late' /\ late' \subseteq late \cup {c}
  BY <1>2, <1>5
<1>7. PICK s \in TaskState : /\ TaskInv(s) /\ s.pc \notin Counting
                             /\ task' = [task EXCEPT ![t] = s]
  <2>1. CASE Done(t)
    BY <2>1, Ends DEF Counting
  <2>2. ASSUME NEW j \in Id \cup {NoId}, task' = [task EXCEPT ![t].pc = "check", ![t].target = j]
        PROVE  \E s \in TaskState : /\ TaskInv(s) /\ s.pc \notin Counting
                                    /\ task' = [task EXCEPT ![t] = s]
    <3> DEFINE s == [task[t] EXCEPT !.pc = "check", !.target = j]
    <3>1. task' = [task EXCEPT ![t] = s]
      BY <1>2, <2>2
    <3>2. s \in TaskState /\ s.pc = "check"
      BY <1>2 DEF TaskState
    <3>3. TaskInv(s)
      BY <1>2, <1>4 DEF TaskInv, TaskState
    <3>4. s.pc \notin Counting
      BY <3>2 DEF Counting
    <3> HIDE DEF s
    <3> QED
      BY <3>1, <3>2, <3>3, <3>4
  <2> QED
    BY <1>1, <1>3, <2>1, <2>2 DEF AddPeer
<1>8. /\ task' \in [Task -> TaskState] /\ \A u \in Task : TaskInv(task[u])'
      /\ \A u \in Task : task'[u] = task[u] \/ task'[u].pc \notin Counting
  <2>1. task'[t] = s /\ \A u \in Task \ {t} : task'[u] = task[u]
    BY <1>2, <1>7
  <2>2. \A u \in Task : TaskInv(task'[u])
    BY <1>7, <2>1 DEF Inv
  <2> QED
    BY <1>2, <1>5, <1>7, <2>1, <2>2 DEF TaskInv
<1>9. TypeOK'
  BY <1>2, <1>5, <1>6, <1>8 DEF Inv, TypeOK
<1>10. \A j \in Id : CountInv(j)'
  BY <1>5, <1>8, NoCounts
<1>11. \A d \in Conn : ConnInv(d)'
  BY <1>2, <1>4, <1>5, <1>6 DEF Inv, ConnInv
<1>12. \A j \in Id : PeerInv(j)'
  <2>1. PeerInv(i)'
    BY <1>2, <1>3, <1>4, <1>5, <1>6 DEF PeerInv, ConnInv
  <2>2. ASSUME NEW j \in Id \ {i} PROVE PeerInv(j)'
    BY <1>5, <1>6 DEF PeerInv, Inv
  <2> QED
    BY <2>1, <2>2
<1>13. DoubledInv'
  BY <1>5 DEF Inv, DoubledInv
<1>14. OpenPeersListed'
  <2> SUFFICES ASSUME NEW d \in listed', conn[d].reader = "reading", d \notin renamed,
                      conn[d].id \notin doubled
               PROVE  peers'[conn[d].id] = d
    BY <1>5 DEF OpenPeersListed
  <2>1. CASE d = c
    BY <1>3, <1>6, <2>1
  <2>2. CASE d # c
    <3>1. d \in listed /\ d \in Conn /\ peers[conn[d].id] = d /\ conn[d].id \in Id
      BY <1>5, <2>2 DEF Inv, TypeOK, OpenPeersListed, ConnInv
    <3>2. conn[d].id # i
      BY <1>3, <1>4, <2>2, <3>1 DEF Inv, DoubledInv
    <3> QED
      BY <1>6, <3>1, <3>2
  <2> QED
    BY <2>1, <2>2
<1> QED
  BY <1>5, <1>8, <1>9, <1>10, <1>11, <1>12, <1>13, <1>14 DEF Inv

\* A dial succeeds: a connection nobody has used bears the id dialled.
LEMMA DialOkStep ==
    ASSUME Inv, NEW t \in Task, NEW c \in Conn, NEW ip \in IP, DialOk(t, c, ip)
    PROVE  Inv'
<1>1. PICK i \in Id : i = task[t].target
  BY DEF DialOk, Inv, TaskInv
<1> DEFINE k == [FreeConn EXCEPT !.main = "new", !.socket = "open", !.dialed = i, !.id = i, !.ip = ip]
<1>2. /\ task \in [Task -> TaskState] /\ conn \in [Conn -> ConnState] /\ ConnInv(c)
      /\ pending \in [Id -> Conn \cup {NoConn}] /\ failures \in [Id -> Nat]
      /\ conn[c] = FreeConn /\ proved[c] = {} /\ c \notin listed \cup renamed \cup late /\ i # NoId
  BY P2PAssumption DEF DialOk, Inv, TypeOK, ConnInv
<1>3. /\ UNCHANGED <<flags, peers, blocklists, proved, listed, renamed, late, giveups>>
      /\ UNCHANGED <<started, starting, opened, outBlock, inBlock, ipBlock>>
      /\ failures' = [failures EXCEPT ![i] = 0] /\ conn' = [conn EXCEPT ![c] = k]
      /\ pending' = [pending EXCEPT ![i] = c] /\ task' = [task EXCEPT ![t] = Idle]
      /\ doubled' = IF Bearers(i, c) = {} THEN doubled ELSE doubled \cup {i}
  BY <1>1 DEF DialOk, Done, flags, blocklists
<1>4. k \in ConnState
  BY FreshOk DEF ConnState, Fresh
<1>5. /\ k.id = i /\ k.dialed = i /\ k.hs = FALSE /\ k.reader = "none" /\ k.ip = ip /\ k.main = "new"
      /\ FreeConn.reader = "none" /\ FreeConn.hs = FALSE
  BY DEF FreeConn
<1> HIDE DEF k
<1>6. /\ conn' \in [Conn -> ConnState] /\ conn'[c] = k /\ \A d \in Conn \ {c} : conn'[d] = conn[d]
      /\ pending' \in [Id -> Conn \cup {NoConn}]
  BY <1>2, <1>3, <1>4
<1>7. failures' \in [Id -> Nat] /\ \A j \in Id : failures'[j] <= failures[j]
  BY <1>2, <1>3
<1>8. DoubledInv' /\ doubled \subseteq doubled' /\ doubled' \subseteq doubled \cup {i}
  BY <1>3, <1>5, <1>6, Noticed
<1>9. /\ task' \in [Task -> TaskState] /\ task'[t] = Idle /\ \A u \in Task \ {t} : task'[u] = task[u]
      /\ Idle.pc \notin Counting
  BY <1>2, <1>3, FreshOk DEF Fresh, Counting
<1>10. ASSUME NEW u \in Task PROVE TaskInv(task[u])'
  <2>1. CASE u = t
    BY <1>9, <2>1, FreshOk, P2PAssumption DEF TaskInv, Fresh
  <2>2. CASE u # t
    <3>1. TaskInv(task[u]) /\ task[u].conn \in Conn \cup {NoConn} /\ task'[u] = task[u]
      BY <1>2, <1>9, <2>2 DEF Inv, TaskState
    <3>2. task[u].conn # NoConn => task[u].conn # c
      BY <1>2, <1>5, <3>1 DEF TaskInv
    <3> QED
      BY <1>6, <3>1, <3>2 DEF TaskInv
  <2> QED
    BY <2>1, <2>2
<1>11. TypeOK'
  BY <1>3, <1>6, <1>7, <1>8, <1>9 DEF Inv, TypeOK
<1>12. \A j \in Id : CountInv(j)'
  BY <1>3, <1>7, <1>9, CountsKept
<1>13. \A d \in Conn : ConnInv(d)'
  <2>1. ConnInv(c)'
    BY <1>2, <1>3, <1>5, <1>6 DEF ConnInv
  <2>2. ASSUME NEW d \in Conn \ {c} PROVE ConnInv(d)'
    BY <1>3, <1>6 DEF Inv, ConnInv
  <2> QED
    BY <2>1, <2>2
<1>14. \A j \in Id : PeerInv(j)'
  <2> SUFFICES ASSUME NEW j \in Id, peers[j] # NoConn PROVE PeerInv(j)'
    BY <1>3 DEF PeerInv
  <2>1. PeerInv(j) /\ peers[j] \in Conn
    BY DEF Inv, TypeOK
  <2>2. peers[j] # c
    BY <1>2, <2>1 DEF PeerInv
  <2> QED
    BY <1>3, <1>6, <2>1, <2>2 DEF PeerInv
<1>15. OpenPeersListed'
  <2> SUFFICES ASSUME NEW d \in listed, conn'[d].reader = "reading", d \notin renamed,
                      conn'[d].id \notin doubled'
               PROVE  peers[conn'[d].id] = d
    BY <1>3 DEF OpenPeersListed
  <2>1. d \in Conn /\ d # c
    BY <1>2 DEF Inv, TypeOK
  <2> QED
    BY <1>6, <1>8, <2>1 DEF Inv, OpenPeersListed
<1> QED
  BY <1>3, <1>8, <1>10, <1>11, <1>12, <1>13, <1>14, <1>15 DEF Inv

-----------------------------------------------------------------------------
(* Theorems *)

LEMMA StepInv == Inv /\ [Next]_vars => Inv'
<1> SUFFICES ASSUME Inv, [Next]_vars PROVE Inv'
  OBVIOUS
<1>1. CASE UNCHANGED vars
  <2>1. UNCHANGED <<flags, peers, pending, blocklists, failures, conn, task, history>>
    BY <1>1 DEF vars
  <2>2. /\ conn' \in [Conn -> ConnState] /\ task' \in [Task -> TaskState]
        /\ \A u \in Task : TaskInv(task'[u]) /\ task'[u] = task[u]
        /\ outBlock' \subseteq Id /\ inBlock' \subseteq Id /\ ipBlock' \subseteq IP /\ outBlock' = outBlock
    BY <2>1 DEF Inv, TypeOK, blocklists
  <2>3. \A c \in Conn : SameConn(c)
    BY <2>1 DEF SameConn
  <2> QED
    BY <2>1, <2>2, <2>3, Quiet
<1>2. CASE Lifecycle
  BY <1>2, LifecycleStep
<1>3. ASSUME NEW c \in Conn, ConnStep(c) \/ RemoteClose(c) \/ \E ip \in IP : Accept(c, ip) PROVE Inv'
  BY <1>3, SocketSteps, ConnBegins, ReaderSteps DEF ConnStep
<1>4. ASSUME NEW t \in Task, \E c \in Conn, m \in Inputs : Deliver(c, m, t) PROVE Inv'
  BY <1>4, MessageSteps
<1>5. ASSUME NEW t \in Task, HandlerStep(t) PROVE Inv'
  BY <1>5, MessageSteps, HandlerMoves, HandshakeStep, AddPeerStep DEF HandlerStep
<1>6. ASSUME NEW t \in Task, DialStep(t) \/ Panics(t) \/ \E i \in Initial : DialBegin(t, i) PROVE Inv'
  BY <1>6, HandlerMoves, BlockSteps, DialOkStep, GiveUpStep, CountStep, PanicStep DEF DialStep, Dial
<1> QED
  BY <1>1, <1>2, <1>3, <1>4, <1>5, <1>6 DEF Next

\* The inductive invariant of the peer-to-peer service.
THEOREM Invariance == Spec => []Inv
BY InitInv, StepInv, PTL DEF Spec

\* The maps, connections and goroutines have their types; in particular errChan
\* never holds more than its capacity.
THEOREM TypeCorrect == Spec => []TypeOK
<1>1. Inv => TypeOK
  BY DEF Inv
<1> QED
  BY <1>1, Invariance, PTL

\* For any number of connections, no order of handshakes, closes and dials lists
\* a connection in peers under an id whose key did not sign its challenge
\* (HandshakeDone.HandleMessage, AddPeer).
THEOREM Authenticated == Spec => []PeersAuthenticated
<1>1. Inv => PeersAuthenticated
  BY DEF Inv, PeerInv, PeersAuthenticated
<1> QED
  BY <1>1, Invariance, PTL

\* No handler touches the buckets before StorageService.Start has opened them.
THEOREM BucketsOpen == Spec => []BucketsOpenBeforeUse
<1>1. ASSUME Inv, NEW t \in Task, task[t].pc = "use" PROVE opened
  <2>1. TaskInv(task[t]) /\ task[t].conn \in Conn /\ conn[task[t].conn].hs
    BY <1>1 DEF Inv, TypeOK, TaskState, TaskInv
  <2> QED
    BY <2>1, <1>1 DEF Inv, ConnInv
<1>2. Inv => BucketsOpenBeforeUse
  BY <1>1 DEF BucketsOpenBeforeUse
<1> QED
  BY <1>2, Invariance, PTL

\* Whatever MaxConnectionAttempts is, one call of ConnectToNode dials at most
\* twice more.
THEOREM BoundedDials == Spec => []DialsBounded
<1>1. Inv => DialsBounded
  BY DEF Inv, TaskInv, DialsBounded
<1> QED
  BY <1>1, Invariance, PTL

\* For any number of dialling goroutines and any limit, lost updates of
\* outgoingPeerFailures never block an id before that many dials gave up.
THEOREM BlockedRightly == Spec => []BlockedForCause
<1>1. Inv => BlockedForCause
  BY DEF Inv, TypeOK, CountInv, BlockedForCause
<1> QED
  BY <1>1, Invariance, PTL

\* A closed connection that is still in peers was added after OnClose, or had
\* changed its id.
THEOREM Zombies == Spec => []ZombiesExplained
<1>1. Inv => ZombiesExplained
  BY P2PAssumption DEF Inv, PeerInv, ZombiesExplained
<1> QED
  BY <1>1, Invariance, PTL

\* A connection that is being read after its handshake is the one listed under
\* its id, unless the id was borne twice or changed.
THEOREM OpenListed == Spec => []OpenPeersListed
<1>1. Inv => OpenPeersListed
  BY DEF Inv
<1> QED
  BY <1>1, Invariance, PTL
=============================================================================
