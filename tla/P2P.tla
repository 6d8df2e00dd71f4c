-------------------------------- MODULE P2P --------------------------------
(***************************************************************************)
(* The peer-to-peer service of one node: dialling with retries and         *)
(* blocklists (ConnectToNode), the life of a connection (OnNewPeer,        *)
(* OnNewPeerListen, WebSocketPeer.ListenForMessages), the handshake        *)
(* (HandshakeOpen, HandshakeDone, AnnouncePeers) and the start and stop of *)
(* the services around it.                                                 *)
(*                                                                         *)
(* A Conn is one peer object with its socket and the two goroutines made   *)
(* for it: OnNewPeer and the reader.  A Task is a goroutine that handles   *)
(* one message of a connection, or one that dials on behalf of Start or of *)
(* the embedding program.  The maps of the service are locked one access   *)
(* at a time only.  A step is one access, or several where no test of the  *)
(* code falls in between: the two removals of OnClose, the two tests of    *)
(* DialCheck, the fields of the peer that HandleDone sets, and the put and *)
(* the removal of AddPeer.                                                 *)
(***************************************************************************)
EXTENDS Naturals, FiniteSets

CONSTANTS
    Id,           \* node ids, as the strings the maps are keyed by
    Self,         \* localNodeID
    IP,           \* addresses, as the strings of GetIPString
    Conn,         \* peer objects; each is used for one connection
    Task,         \* message handlers and dialling goroutines
    Initial,      \* Config().P2P.Peers.Initial: ids dialled by Start
    Inputs,       \* the messages a remote node may send
    ConfigBlock,  \* Config().P2P.Peers.Blocklist
    MaxAttempts,  \* Config().P2P.MaxConnectionAttempts
    MaxFailures,  \* maxOutgoingPeerFailures
    ErrCap,       \* capacity of errChan (10)
    NoId, NoIP, NoConn, NoMsg

\* good: for "open" the network ids agree, for "done" the challenge is the one
\* this connection sent.  signer is the node id whose signature verified,
\* feat that supportedFeatures match, uri the node id in the first connection
\* URI (NoId: no URI for "done", an unusable one for "announce").
Message == [kind : {"open", "done", "announce", "query", "bad"},
            signer : Id \cup {NoId}, good : BOOLEAN, feat : BOOLEAN, uri : Id \cup {NoId}]

ASSUME P2PAssumption ==
    /\ Self \in Id
    /\ ConfigBlock \subseteq Id /\ Initial \subseteq Id
    /\ Inputs \subseteq Message
    /\ \A m \in Inputs : m.kind = "done" => m.signer \in Id
    /\ MaxAttempts \in Nat /\ MaxFailures \in Nat \ {0} /\ ErrCap \in Nat \ {0}
    /\ Id \cap IP = {}
    /\ NoId \notin Id \cup IP /\ NoIP \notin Id \cup IP /\ NoConn \notin Conn
    /\ NoMsg \notin Message

VARIABLES
    started, starting,   \* the flags of ServicesImpl
    opened,              \* StorageService.Start has opened the cache bucket
    peers, pending,      \* peers and peersPending: node id to peer object
    outBlock,            \* outgoingPeerBlocklist
    inBlock,             \* incomingPeerBlockList
    ipBlock,             \* incomingIPBlocklist
    failures,            \* outgoingPeerFailures; 0: no such key
    conn,                \* the state of each peer object
    task,                \* the state of each goroutine
    proved,              \* history: ids that signed the connection's challenge
    listed,              \* history: connections AddPeer has put into peers
    renamed,             \* history: connections whose id a second handshake changed
    late,                \* history: connections AddPeer put there after OnClose
    doubled,             \* history: ids borne by two connections at once
    giveups              \* history: dials of an id that ran out of attempts

flags == <<started, starting, opened>>
blocklists == <<outBlock, inBlock, ipBlock>>
history == <<proved, listed, renamed, late, doubled, giveups>>
vars == <<flags, peers, pending, blocklists, failures, conn, task, history>>

\* main: the OnNewPeer goroutine.  reader: the loop of ListenForMessages;
\* "draining" is between OnClose and the end of wg.Wait.  dialed: the id
\* ConnectToNode asked for, NoId for an accepted connection (verifyId).
ConnState == [main : {"free", "new", "opening", "waiting", "returned"},
              reader : {"none", "reading", "draining", "ended"},
              socket : {"none", "open", "closed"},
              dialed : Id \cup {NoId}, id : Id \cup {NoId}, ip : IP \cup {NoIP},
              hs : BOOLEAN, errs : 0 .. ErrCap]

TaskState == [pc : {"idle", "handle", "add", "use", "fail", "check", "blocked", "dial",
                    "giveUp", "tally", "count", "block"},
              conn : Conn \cup {NoConn}, msg : Inputs \cup {NoMsg},
              target : Id \cup {NoId}, retry : Nat, counter : Nat, dials : Nat]

FreeConn == [main |-> "free", reader |-> "none", socket |-> "none", dialed |-> NoId,
             id |-> NoId, ip |-> NoIP, hs |-> FALSE, errs |-> 0]

Idle == [pc |-> "idle", conn |-> NoConn, msg |-> NoMsg, target |-> NoId,
         retry |-> 0, counter |-> 0, dials |-> 0]

TypeOK ==
    /\ started \in BOOLEAN /\ starting \in BOOLEAN /\ opened \in BOOLEAN
    /\ peers \in [Id -> Conn \cup {NoConn}]
    /\ pending \in [Id -> Conn \cup {NoConn}]
    /\ outBlock \subseteq Id /\ inBlock \subseteq Id /\ ipBlock \subseteq IP
    /\ failures \in [Id -> Nat]
    /\ conn \in [Conn -> ConnState]
    /\ task \in [Task -> TaskState]
    /\ proved \in [Conn -> SUBSET Id]
    /\ listed \subseteq Conn /\ renamed \subseteq Conn /\ late \subseteq Conn
    /\ doubled \subseteq Id
    /\ giveups \in [Id -> 0 .. MaxFailures]

\* After Init of the services: the configured ids are on both id blocklists.
Init ==
    /\ started = FALSE /\ starting = FALSE /\ opened = FALSE
    /\ peers = [i \in Id |-> NoConn]
    /\ pending = [i \in Id |-> NoConn]
    /\ outBlock = ConfigBlock /\ inBlock = ConfigBlock /\ ipBlock = {}
    /\ failures = [i \in Id |-> 0]
    /\ conn = [c \in Conn |-> FreeConn]
    /\ task = [t \in Task |-> Idle]
    /\ proved = [c \in Conn |-> {}]
    /\ listed = {} /\ renamed = {} /\ late = {} /\ doubled = {}
    /\ giveups = [i \in Id |-> 0]

-----------------------------------------------------------------------------
(* ServicesImpl.Start and Stop *)

StartBegin ==
    /\ ~ started /\ ~ starting
    /\ starting' = TRUE
    /\ UNCHANGED <<started, opened, peers, pending, blocklists, failures, conn, task, history>>

\* storage is the last of All(); an error of any Start leaves starting set.
StorageStart ==
    /\ starting /\ ~ opened
    /\ opened' = TRUE
    /\ UNCHANGED <<started, starting, peers, pending, blocklists, failures, conn, task, history>>

StartEnd ==
    /\ starting /\ opened
    /\ started' = TRUE /\ starting' = FALSE
    /\ UNCHANGED <<opened, peers, pending, blocklists, failures, conn, task, history>>

Stop ==
    /\ started
    /\ started' = FALSE
    /\ UNCHANGED <<starting, opened, peers, pending, blocklists, failures, conn, task, history>>

-----------------------------------------------------------------------------
(* The life of a connection *)

\* p2pHandler of the HTTP service: the client's id is not known yet.
Accept(c, ip) ==
    /\ conn[c].main = "free"
    /\ conn' = [conn EXCEPT ![c] = [FreeConn EXCEPT !.main = "new", !.socket = "open", !.ip = ip]]
    /\ UNCHANGED <<flags, peers, pending, blocklists, failures, task, history>>

\* The blocklist tests at the head of OnNewPeer: the id is looked up in the
\* list of addresses and the address in the list of ids.
Blocklisted(c) == conn[c].id \in ipBlock \/ conn[c].ip \in inBlock

OnNewPeer(c) ==
    /\ conn[c].main = "new"
    /\ conn' = [conn EXCEPT ![c] = IF Blocklisted(c)
                                   THEN [@ EXCEPT !.main = "returned", !.socket = "closed"]
                                   ELSE [@ EXCEPT !.main = "opening", !.reader = "reading"]]
    /\ UNCHANGED <<flags, peers, pending, blocklists, failures, task, history>>

\* SendMessage of the HandshakeOpen; an error returns without wg.Wait.
SendHandshakeOpen(c) ==
    /\ conn[c].main = "opening"
    /\ \E m \in {"waiting", "returned"} : conn' = [conn EXCEPT ![c].main = m]
    /\ UNCHANGED <<flags, peers, pending, blocklists, failures, task, history>>

\* wg.Wait() is over when OnNewPeerListen has returned.
OnNewPeerReturn(c) ==
    /\ conn[c].main = "waiting"
    /\ conn[c].reader = "ended"
    /\ conn' = [conn EXCEPT ![c].main = "returned"]
    /\ UNCHANGED <<flags, peers, pending, blocklists, failures, task, history>>

\* The remote node closes the socket, or the network breaks it.
RemoteClose(c) ==
    /\ conn[c].socket = "open"
    /\ conn' = [conn EXCEPT ![c].socket = "closed"]
    /\ UNCHANGED <<flags, peers, pending, blocklists, failures, task, history>>

\* socket.Read returns a message; a goroutine takes it, and one error at most
\* is drained from errChan.
Deliver(c, m, t) ==
    /\ conn[c].reader = "reading"
    /\ conn[c].socket = "open"
    /\ task[t].pc = "idle"
    /\ task' = [task EXCEPT ![t] = [Idle EXCEPT !.pc = "handle", !.conn = c, !.msg = m]]
    /\ conn' = [conn EXCEPT ![c].errs = IF @ > 0 THEN @ - 1 ELSE 0]
    /\ UNCHANGED <<flags, peers, pending, blocklists, failures, history>>

OnCloseKeepsPeer(c) ==                                            \* mutant
    /\ conn[c].reader = "reading"
    /\ conn[c].socket = "closed"
    /\ conn' = [conn EXCEPT ![c].reader = "draining"]
    /\ pending' = IF conn[c].id = NoId THEN pending ELSE [pending EXCEPT ![conn[c].id] = NoConn]
    /\ UNCHANGED <<flags, peers, blocklists, failures, task, history>>

OnCloseKeepsPending(c) ==                                         \* mutant
    /\ conn[c].reader = "reading"
    /\ conn[c].socket = "closed"
    /\ conn' = [conn EXCEPT ![c].reader = "draining"]
    /\ peers' = IF conn[c].id = NoId THEN peers ELSE [peers EXCEPT ![conn[c].id] = NoConn]
    /\ UNCHANGED <<flags, pending, blocklists, failures, task, history>>

\* socket.Read fails: onDone drops the id from both maps, whatever peer object
\* they hold, before the goroutines still running are waited for.
OnClose(c) ==
    /\ conn[c].reader = "reading"
    /\ conn[c].socket = "closed"
    /\ conn' = [conn EXCEPT ![c].reader = "draining"]
    /\ IF conn[c].id = NoId
       THEN UNCHANGED <<peers, pending>>
       ELSE /\ peers' = [peers EXCEPT ![conn[c].id] = NoConn]
            /\ pending' = [pending EXCEPT ![conn[c].id] = NoConn]
    /\ UNCHANGED <<flags, blocklists, failures, task, history>>

\* wg.Wait of ListenForMessages, then the rest of errChan is drained.
ReaderEnd(c) ==
    /\ conn[c].reader = "draining"
    /\ \A t \in Task : task[t].conn # c
    /\ conn' = [conn EXCEPT ![c].reader = "ended", ![c].errs = 0]
    /\ UNCHANGED <<flags, peers, pending, blocklists, failures, task, history>>

-----------------------------------------------------------------------------
(* Message handlers *)

Handling(t, k) == task[t].pc = "handle" /\ task[t].msg.kind = k

Done(t) == task' = [task EXCEPT ![t] = Idle]

\* A handler's error goes to errChan; a dialling goroutine only logs it.
Failed(t) ==
    task' = [task EXCEPT ![t] = IF @.conn = NoConn THEN Idle ELSE [@ EXCEPT !.pc = "fail"]]

ReportErrorUnbounded(t) ==                                        \* mutant
    /\ task[t].pc = "fail"
    /\ conn' = [conn EXCEPT ![task[t].conn].errs = @ + 1]
    /\ Done(t)
    /\ UNCHANGED <<flags, peers, pending, blocklists, failures, history>>

ReportErrorWithoutDone(t) ==                                      \* mutant
    /\ task[t].pc = "fail"
    /\ conn[task[t].conn].errs < ErrCap
    /\ conn' = [conn EXCEPT ![task[t].conn].errs = @ + 1]
    /\ Done(t)
    /\ UNCHANGED <<flags, peers, pending, blocklists, failures, history>>

\* select { case errChan <- err: case <-doneChan: }
ReportError(t) ==
    /\ task[t].pc = "fail"
    /\ LET c == task[t].conn
       IN  \/ /\ conn[c].errs < ErrCap
              /\ conn' = [conn EXCEPT ![c].errs = @ + 1]
           \/ /\ conn[c].reader = "draining"
              /\ UNCHANGED conn
    /\ Done(t)
    /\ UNCHANGED <<flags, peers, pending, blocklists, failures, history>>

\* HandshakeOpen.HandleMessage answers with a signed HandshakeDone; a message
\* that cannot be decoded or is of an unknown kind is an error as well (but see
\* Panics).
HandleOpen(t) ==
    /\ Handling(t, "open") \/ Handling(t, "bad")
    /\ \/ task[t].msg.kind = "open" /\ task[t].msg.good /\ Done(t)
       \/ Failed(t)
    /\ UNCHANGED <<flags, peers, pending, blocklists, failures, conn, history>>

\* Connections that bear id i now, other than c.
Bearers(i, c) == {d \in Conn \ {c} : conn[d].id = i /\ conn[d].reader # "ended"}

HandshakeOkAnyId(t) == task[t].msg.good                           \* mutant

\* The challenge is this connection's own and, on a connection we dialled, the
\* signer is the node we dialled.
HandshakeOk(t) ==
    LET c == task[t].conn
        m == task[t].msg
    IN  m.good /\ (conn[c].dialed # NoId => conn[c].id = m.signer)

\* HandshakeDone.HandleMessage up to AddPeer.
HandleDone(t) ==
    /\ Handling(t, "done")
    /\ LET c == task[t].conn
           m == task[t].msg
       IN  \/ /\ ~ started
              /\ conn' = [conn EXCEPT ![c].socket = "closed"]
              /\ Done(t)
              /\ UNCHANGED history
           \/ /\ started /\ ~ HandshakeOk(t)
              /\ Failed(t)
              /\ UNCHANGED <<conn, history>>
           \/ /\ started /\ HandshakeOk(t)
              /\ conn' = [conn EXCEPT ![c].id = m.signer, ![c].hs = TRUE]
              /\ IF m.feat THEN task' = [task EXCEPT ![t].pc = "add"] ELSE Failed(t)
              /\ proved' = [proved EXCEPT ![c] = @ \cup (IF m.good THEN {m.signer} ELSE {})]
              /\ renamed' = IF conn[c].id \in {NoId, m.signer} THEN renamed ELSE renamed \cup {c}
              /\ doubled' = IF Bearers(m.signer, c) = {} THEN doubled ELSE doubled \cup {m.signer}
              /\ UNCHANGED <<listed, late, giveups>>
    /\ UNCHANGED <<flags, peers, pending, blocklists, failures>>

AddPeerUnlisted(t) ==                                             \* mutant
    /\ task[t].pc = "add"
    /\ pending' = [pending EXCEPT ![conn[task[t].conn].id] = NoConn]
    /\ listed' = listed \cup {task[t].conn}
    /\ Done(t)
    /\ UNCHANGED <<flags, peers, blocklists, failures, conn, proved, renamed, late, doubled, giveups>>

\* AddPeer, then the call of ConnectToNode with the first of the peer's URIs,
\* into which the peer's id has been written (NoId: its scheme is unsupported).
AddPeer(t) ==
    /\ task[t].pc = "add"
    /\ LET c == task[t].conn
           i == conn[c].id
       IN  /\ peers' = [peers EXCEPT ![i] = c]
           /\ pending' = [pending EXCEPT ![i] = NoConn]
           /\ IF task[t].msg.uri = NoId
              THEN Done(t)
              ELSE \E j \in {i, NoId} : task' = [task EXCEPT ![t].pc = "check", ![t].target = j]
           /\ listed' = listed \cup {c}
           /\ late' = IF conn[c].reader = "reading" THEN late ELSE late \cup {c}
    /\ UNCHANGED <<flags, blocklists, failures, conn, proved, renamed, doubled, giveups>>

\* AnnouncePeers.HandleMessage, behind the test of SignedMessage.HandleMessage.
HandleAnnounce(t) ==
    /\ Handling(t, "announce")
    /\ IF conn[task[t].conn].hs
       THEN task' = [task EXCEPT ![t].pc = "check", ![t].target = task[t].msg.uri]
       ELSE Done(t)
    /\ UNCHANGED <<flags, peers, pending, blocklists, failures, conn, history>>

HandleQueryUnshaken(t) ==                                         \* mutant
    /\ Handling(t, "query")
    /\ task' = [task EXCEPT ![t].pc = "use"]
    /\ UNCHANGED <<flags, peers, pending, blocklists, failures, conn, history>>

\* The messages that require a handshake and read or write the buckets.
HandleQuery(t) ==
    /\ Handling(t, "query")
    /\ IF conn[task[t].conn].hs THEN task' = [task EXCEPT ![t].pc = "use"] ELSE Done(t)
    /\ UNCHANGED <<flags, peers, pending, blocklists, failures, conn, history>>

UseBuckets(t) ==
    /\ task[t].pc = "use"
    /\ Done(t) \/ Failed(t)
    /\ UNCHANGED <<flags, peers, pending, blocklists, failures, conn, history>>

-----------------------------------------------------------------------------
(* ConnectToNode *)

\* A goroutine of Start dials an initial peer, or the embedding program dials
\* one again.
DialBegin(t, i) ==
    /\ task[t].pc = "idle"
    /\ starting \/ started
    /\ task' = [task EXCEPT ![t] = [Idle EXCEPT !.pc = "check", !.target = i]]
    /\ UNCHANGED <<flags, peers, pending, blocklists, failures, conn, history>>

Goto(t, l) == task' = [task EXCEPT ![t].pc = l]

\* The flags, the URI's scheme and user, and the test "already connected".
DialCheck(t) ==
    /\ task[t].pc = "check"
    /\ LET i == task[t].target
       IN  \/ /\ ~ started /\ ~ starting
              /\ Done(t)
           \/ /\ started \/ starting
              /\ i = NoId
              /\ Failed(t)
           \/ /\ started \/ starting
              /\ i # NoId
              /\ IF pending[i] # NoConn \/ peers[i] # NoConn THEN Done(t) ELSE Goto(t, "blocked")
    /\ UNCHANGED <<flags, peers, pending, blocklists, failures, conn, history>>

\* The peer that sent us to a bad id is put on both incoming blocklists and its
\* socket is closed; closing a socket that is closed already is an error.
BlockFrom(t) ==
    LET c == task[t].conn
    IN  /\ inBlock' = inBlock \cup ({conn[c].id} \ {NoId})
        /\ ipBlock' = ipBlock \cup {conn[c].ip}
        /\ conn' = [conn EXCEPT ![c].socket = "closed"]

DialBlocked(t) ==
    /\ task[t].pc = "blocked"
    /\ LET i == task[t].target
       IN  \/ /\ i \in outBlock /\ task[t].conn # NoConn
              /\ BlockFrom(t)
              /\ IF conn[task[t].conn].socket = "open" THEN Done(t) ELSE Failed(t)
           \/ /\ i \in outBlock /\ task[t].conn = NoConn
              /\ Done(t)
              /\ UNCHANGED <<inBlock, ipBlock, conn>>
           \/ /\ i \notin outBlock
              /\ IF i = Self THEN Done(t) ELSE Goto(t, "dial")
              /\ UNCHANGED <<inBlock, ipBlock, conn>>
    /\ UNCHANGED <<flags, peers, pending, outBlock, failures, history>>

\* CreateTransportSocket succeeds: the new peer is pending and OnNewPeer runs.
DialOk(t, c, ip) ==
    /\ task[t].pc = "dial"
    /\ conn[c].main = "free"
    /\ LET i == task[t].target
       IN  /\ failures' = [failures EXCEPT ![i] = 0]
           /\ conn' = [conn EXCEPT ![c] = [FreeConn EXCEPT !.main = "new", !.socket = "open",
                                              !.dialed = i, !.id = i, !.ip = ip]]
           /\ pending' = [pending EXCEPT ![i] = c]
           /\ doubled' = IF Bearers(i, c) = {} THEN doubled ELSE doubled \cup {i}
    /\ Done(t)
    /\ UNCHANGED <<flags, peers, blocklists, proved, listed, renamed, late, giveups>>

DialFailsOnceMore(t) ==                                           \* mutant
    /\ task[t].pc = "dial"
    /\ IF task[t].retry > MaxAttempts + 1
       THEN task' = [task EXCEPT ![t].pc = "giveUp", ![t].dials = @ + 1]
       ELSE task' = [task EXCEPT ![t].pc = "check", ![t].dials = @ + 1, ![t].retry = @ + 1]
    /\ UNCHANGED <<flags, peers, pending, blocklists, failures, conn, history>>

DialFailsUncounted(t) ==                                          \* mutant
    /\ task[t].pc = "dial"
    /\ task' = [task EXCEPT ![t].pc = "check"]
    /\ UNCHANGED <<flags, peers, pending, blocklists, failures, conn, history>>

\* It fails: give up when retry > MaxConnectionAttempts, else sleep and call
\* ConnectToNode again with retry + 1.
DialFails(t) ==
    /\ task[t].pc = "dial"
    /\ IF task[t].retry > MaxAttempts
       THEN task' = [task EXCEPT ![t].pc = "giveUp", ![t].dials = @ + 1]
       ELSE task' = [task EXCEPT ![t].pc = "check", ![t].dials = @ + 1, ![t].retry = @ + 1]
    /\ UNCHANGED <<flags, peers, pending, blocklists, failures, conn, history>>

\* ErrTransportNotSupported, of a tcp URI: an error at the first attempt.
DialUnsupported(t) ==
    /\ task[t].pc = "dial" /\ task[t].retry = 0
    /\ Failed(t)
    /\ UNCHANGED <<flags, peers, pending, blocklists, failures, conn, history>>

\* Contains, and then GetUInt and PutUInt, each in a step of its own.
GiveUp(t) ==
    /\ task[t].pc = "giveUp"
    /\ IF failures[task[t].target] = 0
       THEN task' = [task EXCEPT ![t].pc = "count", ![t].counter = 1]
       ELSE Goto(t, "tally")
    /\ giveups' = [giveups EXCEPT ![task[t].target] = IF @ < MaxFailures THEN @ + 1 ELSE @]
    /\ UNCHANGED <<flags, peers, pending, blocklists, failures, conn,
                   proved, listed, renamed, late, doubled>>

Tally(t) ==
    /\ task[t].pc = "tally" /\ failures[task[t].target] # 0
    /\ task' = [task EXCEPT ![t].pc = "count", ![t].counter = failures[task[t].target] + 1]
    /\ UNCHANGED <<flags, peers, pending, blocklists, failures, conn, history>>

\* A dial that succeeded has removed the key and the nil pointer GetUInt returns
\* is dereferenced, or the node id of a signed message is not of the length that
\* ed25519.Verify asks for: the process dies, and starts again from nothing.
Panics(t) ==
    /\ \/ task[t].pc = "tally" /\ failures[task[t].target] = 0
       \/ Handling(t, "bad")
    /\ started' = FALSE /\ starting' = FALSE /\ opened' = FALSE
    /\ peers' = [i \in Id |-> NoConn] /\ pending' = [i \in Id |-> NoConn]
    /\ outBlock' = ConfigBlock /\ inBlock' = ConfigBlock /\ ipBlock' = {}
    /\ failures' = [i \in Id |-> 0]
    /\ conn' = [c \in Conn |-> FreeConn]
    /\ task' = [u \in Task |-> Idle]
    /\ proved' = [c \in Conn |-> {}]
    /\ listed' = {} /\ renamed' = {} /\ late' = {} /\ doubled' = {}
    /\ giveups' = [i \in Id |-> 0]

CountEarly(t) ==                                                  \* mutant
    /\ task[t].pc = "count"
    /\ failures' = [failures EXCEPT ![task[t].target] = task[t].counter]
    /\ IF task[t].counter + 1 >= MaxFailures THEN Goto(t, "block") ELSE Done(t)
    /\ UNCHANGED <<flags, peers, pending, blocklists, conn, history>>

Count(t) ==
    /\ task[t].pc = "count"
    /\ failures' = [failures EXCEPT ![task[t].target] = task[t].counter]
    /\ IF task[t].counter >= MaxFailures THEN Goto(t, "block") ELSE Done(t)
    /\ UNCHANGED <<flags, peers, pending, blocklists, conn, history>>

\* An error of EndForAbuse returns before the id is put on the blocklist.
Block(t) ==
    /\ task[t].pc = "block"
    /\ \/ /\ task[t].conn = NoConn
          /\ outBlock' = outBlock \cup {task[t].target}
          /\ Done(t)
          /\ UNCHANGED <<inBlock, ipBlock, conn>>
       \/ /\ task[t].conn # NoConn
          /\ BlockFrom(t)
          /\ IF conn[task[t].conn].socket = "open"
             THEN outBlock' = outBlock \cup {task[t].target} /\ Done(t)
             ELSE outBlock' = outBlock /\ Failed(t)
    /\ UNCHANGED <<flags, peers, pending, failures, history>>

-----------------------------------------------------------------------------
Lifecycle == StartBegin \/ StorageStart \/ StartEnd \/ Stop

ConnStep(c) ==
    \/ OnNewPeer(c) \/ SendHandshakeOpen(c) \/ OnNewPeerReturn(c)
    \/ OnClose(c) \/ ReaderEnd(c)

HandlerStep(t) ==
    \/ ReportError(t) \/ HandleOpen(t) \/ HandleDone(t) \/ AddPeer(t)
    \/ HandleAnnounce(t) \/ HandleQuery(t) \/ UseBuckets(t)

Dial(t) ==
    \/ \E c \in Conn, ip \in IP : DialOk(t, c, ip)
    \/ DialFails(t)
    \/ DialUnsupported(t)

DialStep(t) ==
    \/ DialCheck(t) \/ DialBlocked(t) \/ Dial(t) \/ GiveUp(t) \/ Tally(t) \/ Count(t) \/ Block(t)

Next ==
    \/ Lifecycle
    \/ \E c \in Conn : ConnStep(c) \/ RemoteClose(c) \/ \E ip \in IP : Accept(c, ip)
    \/ \E c \in Conn, m \in Inputs, t \in Task : Deliver(c, m, t)
    \/ \E t \in Task : HandlerStep(t) \/ DialStep(t) \/ Panics(t) \/ \E i \in Initial : DialBegin(t, i)

Spec == Init /\ [][Next]_vars

\* A goroutine that waits for a remote node: websocket.Dial and socket.Write
\* have no deadline, so nothing but the remote node, or the end of the socket
\* written to, makes them return.  (The handlers at "use" send to other peers.)
Waits(t) ==
    \/ task[t].pc \in {"dial", "use"}
    \/ /\ Handling(t, "open") /\ task[t].msg.good
       /\ conn[task[t].conn].socket = "open"

SendWaits(c) == conn[c].main = "opening" /\ conn[c].socket = "open"

\* Goroutines that are ready run.  Nothing forces the remote side to answer, to
\* take what is sent, to send or to close, or Start to be called.
Fairness ==
    /\ \A c \in Conn : WF_vars(~ SendWaits(c) /\ ConnStep(c))
    /\ \A t \in Task : WF_vars(~ Waits(t) /\ (HandlerStep(t) \/ DialStep(t) \/ Panics(t)))

FairSpec == Spec /\ Fairness

-----------------------------------------------------------------------------
(* Properties *)

\* Whoever is listed in peers under an id has signed, with that id's key, the
\* challenge of the very connection listed: no order of handshakes, closes and
\* dials attaches a connection to an id it has not proved (HandshakeDone,
\* AddPeer).  A connection we dialled is listed under the id dialled only.
PeersAuthenticated ==
    \A i \in Id : peers[i] # NoConn =>
        /\ i \in proved[peers[i]]
        /\ conn[peers[i]].dialed \in {NoId, i}

\* No handler touches the buckets before StorageService.Start has opened the
\* last of them, although connections are made and read while the services are
\* still starting: HandshakeDone turns away everyone until started is set.
BucketsOpenBeforeUse == \A t \in Task : task[t].pc = "use" => opened

\* One call of ConnectToNode dials at most MaxConnectionAttempts + 2 times: one
\* attempt, and one more for each retry from 1 to MaxConnectionAttempts + 1.
DialsBounded == \A t \in Task : task[t].dials <= MaxAttempts + 2

\* An id is on the outgoing blocklist by configuration, or because that many
\* calls of ConnectToNode used up their attempts: concurrent updates of the
\* failure counter never block an id too early.
BlockedForCause == \A i \in outBlock : i \in ConfigBlock \/ giveups[i] = MaxFailures

\* A closed connection that is still listed in peers got there in one of two
\* ways: its AddPeer ran after OnClose, or a second handshake had given it
\* another id.
ZombiesExplained ==
    \A i \in Id : \A c \in Conn :
        peers[i] = c /\ conn[c].reader \in {"draining", "ended"} => c \in late \cup renamed

\* A connection that has completed its handshake and is being read is the one
\* listed under its id, unless the id was borne by two connections at once
\* (then closing one drops the other from peers) or it changed its id.
OpenPeersListed ==
    \A c \in listed :
        (conn[c].reader = "reading" /\ c \notin renamed /\ conn[c].id \notin doubled)
        => peers[conn[c].id] = c

\* When a socket is closed its reader ends, with the goroutines it started, and
\* so does OnNewPeer, unless there is always one of them that waits for a remote
\* node, in a dial or a send without a deadline (the WaitGroup then holds the
\* reader).  A full errChan, a dial that sleeps and retries or a handler that
\* has still to dial never hold it.
\* (A free connection is one that a panic of the process has swept away.)
ClosedConnectionsEnd ==
    \A c \in Conn :
        (conn[c].socket = "closed")
        ~> (\/ conn[c].main \in {"returned", "free"} /\ conn[c].reader \in {"none", "ended"}
            \/ [](\E t \in Task : task[t].conn = c /\ Waits(t)))

\* A connection that is closed does not stay pending, so its id can be dialled
\* again.
ClosedNotPending ==
    \A c \in Conn : (conn[c].socket = "closed") ~> (\A i \in Id : pending[i] # c)

\* Every handler and every call of ConnectToNode ends, has an error to report and
\* no room for it, or hangs in one dial or send: no run of failures and retries
\* keeps it going.
TasksEnd ==
    \A t \in Task :
        (task[t].pc # "idle") ~> (task[t].pc \in {"idle", "fail"} \/ []Waits(t))
=============================================================================
