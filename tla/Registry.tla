------------------------------ MODULE Registry ------------------------------
(***************************************************************************)
(* The registry service of one node (service/default/registry.go) and the  *)
(* two message handlers that call it (protocol/registry_entry.go and       *)
(* protocol/registry_query.go).                                            *)
(*                                                                         *)
(* Set, Get and Listen run on goroutines of their own: every message of    *)
(* every peer gets one (net/ws.go), and the embedding program has more.    *)
(* The service has no lock, so a call is a sequence of steps and each      *)
(* access to shared state (the bucket, the streams and subs maps, the map  *)
(* of peers) is one step.  A Task is such a goroutine; it makes one call   *)
(* after another.                                                          *)
(*                                                                         *)
(* raced, lowered and overlapped are history variables: no action reads    *)
(* them.                                                                   *)
(***************************************************************************)
EXTENDS Naturals, FiniteSets

CONSTANTS
    PK,            \* the 33-byte public keys in use
    Ed25519PK,     \* those whose first byte is HashTypeEd25519
    Data,          \* entry payloads
    LongData,      \* those longer than RegistryMaxDataSize
    MaxRevision,   \* stands for 2^48, the largest revision accepted
    TrustedEntry,  \* entries local callers pass to Set with trusted = true
    Peer,          \* remote nodes
    Task,          \* goroutines that call the service
    PollLimit,     \* stands for the 200 polls of Get
    NoEntry, NoPeer, NoTask

Revision == 0 .. (MaxRevision + 1)

\* signed is what Verify() answers for the entry.
Entry == [pk : PK, rev : Revision, data : Data, signed : BOOLEAN]

ASSUME RegistryAssumption ==
    /\ Ed25519PK \subseteq PK
    /\ LongData \subseteq Data
    /\ MaxRevision \in Nat
    /\ PollLimit \in Nat \ {0}
    /\ TrustedEntry \subseteq Entry
    /\ NoEntry \notin Entry
    /\ NoPeer \notin Peer
    /\ NoTask \notin Task

VARIABLES
    store,       \* the "registry" bucket: the entry kept for a key
    streams,     \* streams: the emitter of a key, named by the task that made it
    subs,        \* subs: keys some Get has subscribed to
    listeners,   \* callbacks attached with On, as <<key, emitter, caller>>
    peers,       \* the keys of P2P().Peers()
    pc,          \* where each task is
    op,          \* the task's present or last call
    ent,         \* the entry a Set was given
    key,         \* the key a call is about
    from,        \* the peer a call was made for, NoPeer for a local caller
    polls,       \* polls made by the loop of Get
    found,       \* what Get last read from the bucket
    status,      \* "ok" or "error" once the call returned
    sent,        \* <<peer, entry>> messages sent during the call
    asked,       \* peers sent a RegistryQuery during the call
    emitting,    \* emitter the goroutine of "go event.Emit" has yet to run on
    had,         \* history: the bucket held the key when the Get began
    raced,       \* history: another Put hit the key since this Set read it
    lowered,     \* history: keys whose stored revision was once lowered
    overlapped   \* history: keys for which two stream creations overlapped

shared == <<store, streams, subs, listeners, peers>>
local == <<pc, op, ent, key, from, polls, found, status, sent, asked, emitting>>
history == <<had, raced, lowered, overlapped>>
vars == <<shared, local, history>>

PCs == {"idle",
        "setRead", "setEmit", "setPut", "setBroadcast",
        "getSubs", "getCachedRead", "getCachedAsk", "getLastRead",
        "getAsk", "getSubscribe", "getCheck", "getStream", "getRead", "getPoll",
        "listenCheck", "listenStream", "listenAsk", "listenOn"}

TypeOK ==
    /\ store \in [PK -> Entry \cup {NoEntry}]
    /\ streams \in [PK -> Task \cup {NoTask}]
    /\ subs \subseteq PK
    /\ listeners \subseteq PK \X Task \X Task
    /\ peers \subseteq Peer
    /\ pc \in [Task -> PCs]
    /\ op \in [Task -> {"none", "set", "get", "listen"}]
    /\ ent \in [Task -> Entry \cup {NoEntry}]
    /\ key \in [Task -> PK \cup {NoEntry}]
    /\ from \in [Task -> Peer \cup {NoPeer}]
    /\ polls \in [Task -> 0 .. (PollLimit - 1)]
    /\ found \in [Task -> Entry \cup {NoEntry}]
    /\ status \in [Task -> {"none", "ok", "error"}]
    /\ sent \in [Task -> SUBSET (Peer \X Entry)]
    /\ asked \in [Task -> SUBSET Peer]
    /\ emitting \in [Task -> Task \cup {NoTask}]
    /\ had \in [Task -> BOOLEAN]
    /\ raced \in [Task -> BOOLEAN]
    /\ lowered \subseteq PK
    /\ overlapped \subseteq PK

Init ==
    /\ store = [k \in PK |-> NoEntry]
    /\ streams = [k \in PK |-> NoTask]
    /\ subs = {}
    /\ listeners = {}
    /\ peers \in SUBSET Peer
    /\ pc = [t \in Task |-> "idle"]
    /\ op = [t \in Task |-> "none"]
    /\ ent = [t \in Task |-> NoEntry]
    /\ key = [t \in Task |-> NoEntry]
    /\ from = [t \in Task |-> NoPeer]
    /\ polls = [t \in Task |-> 0]
    /\ found = [t \in Task |-> NoEntry]
    /\ status = [t \in Task |-> "none"]
    /\ sent = [t \in Task |-> {}]
    /\ asked = [t \in Task |-> {}]
    /\ emitting = [t \in Task |-> NoTask]
    /\ had = [t \in Task |-> FALSE]
    /\ raced = [t \in Task |-> FALSE]
    /\ lowered = {}
    /\ overlapped = {}

-----------------------------------------------------------------------------
(* Steps shared by the calls. *)

Goto(t, l) == pc' = [pc EXCEPT ![t] = l]

\* The call returns; its loop counter and the queries it sent are history.
Return(t, s) ==
    /\ pc' = [pc EXCEPT ![t] = "idle"]
    /\ status' = [status EXCEPT ![t] = s]
    /\ polls' = [polls EXCEPT ![t] = 0]
    /\ asked' = [asked EXCEPT ![t] = {}]

\* A task starts a call; the locals of its previous one are gone.
Begin(t, o, e, k, p) ==
    /\ pc[t] = "idle"
    /\ emitting[t] = NoTask
    /\ op' = [op EXCEPT ![t] = o]
    /\ ent' = [ent EXCEPT ![t] = e]
    /\ key' = [key EXCEPT ![t] = k]
    /\ from' = [from EXCEPT ![t] = p]
    /\ found' = [found EXCEPT ![t] = NoEntry]
    /\ sent' = [sent EXCEPT ![t] = {}]
    /\ had' = [had EXCEPT ![t] = store[k] # NoEntry]
    /\ raced' = [raced EXCEPT ![t] = FALSE]
    /\ UNCHANGED <<shared, polls, asked, emitting, lowered, overlapped>>

\* SendRegistryRequest: the first failing peer ends the loop, and the inner
\* err that shadows the outer one makes it return nil all the same.
SendRegistryRequest(t) ==
    \E reached \in SUBSET peers : asked' = [asked EXCEPT ![t] = reached]

-----------------------------------------------------------------------------
(* Set *)

\* The checks an entry passes when trusted is false.
Acceptable(e) ==
    /\ e.pk \in Ed25519PK
    /\ e.rev <= MaxRevision
    /\ e.data \notin LongData
    /\ e.signed

\* A refused entry is dropped with the call's locals.
SetRejected(t, e, p) ==
    /\ ~ Acceptable(e)
    /\ Begin(t, "set", NoEntry, e.pk, p)
    /\ status' = [status EXCEPT ![t] = "error"]
    /\ UNCHANGED pc

SetAdmittedUnverified(t, e, trusted, p) ==                        \* mutant
    /\ trusted \/ e.pk \in Ed25519PK
    /\ Begin(t, "set", e, e.pk, p)
    /\ Goto(t, "setRead")
    /\ status' = [status EXCEPT ![t] = "none"]

SetAdmitted(t, e, trusted, p) ==
    /\ trusted \/ Acceptable(e)
    /\ Begin(t, "set", e, e.pk, p)
    /\ Goto(t, "setRead")
    /\ status' = [status EXCEPT ![t] = "none"]

Newer(e, existing) == existing # NoEntry => existing.rev < e.rev

SetReadUncompared(t) ==                                           \* mutant
    /\ pc[t] = "setRead"
    /\ Goto(t, "setEmit")
    /\ UNCHANGED <<shared, op, ent, key, from, polls, found, status, sent, asked, emitting, history>>

\* getFromDB and the comparison with the existing revision.
SetRead(t) ==
    /\ pc[t] = "setRead"
    /\ LET e == ent[t]
           existing == store[e.pk]
       IN  \/ Return(t, "error") /\ UNCHANGED sent                   \* bucket.Get failed
           \/ /\ Newer(e, existing)
              /\ Goto(t, "setEmit")
              /\ UNCHANGED <<status, sent, polls, asked>>
           \/ /\ ~ Newer(e, existing)
              /\ existing.rev = e.rev
              /\ Return(t, "ok")
              /\ UNCHANGED sent
           \/ /\ ~ Newer(e, existing)
              /\ existing.rev > e.rev
              /\ \/ /\ sent' = [sent EXCEPT ![t] = @ \cup {<<from[t], existing>>}]
                    /\ Return(t, "ok")
                 \/ /\ Return(t, "error")                             \* SendMessage failed
                    /\ UNCHANGED sent
    /\ UNCHANGED <<shared, op, ent, key, from, found, emitting, history>>

\* streams.Get, and "go event.Emit" on the emitter found.
SetEmit(t) ==
    /\ pc[t] = "setEmit"
    /\ emitting' = [emitting EXCEPT ![t] = streams[ent[t].pk]]
    /\ Goto(t, "setPut")
    /\ UNCHANGED <<shared, op, ent, key, from, polls, found, status, sent, asked, history>>

SetPutIgnoringError(t) ==                                         \* mutant
    /\ pc[t] = "setPut"
    /\ \/ store' = [store EXCEPT ![key[t]] = ent[t]]
       \/ UNCHANGED store
    /\ Goto(t, "setBroadcast")
    /\ UNCHANGED <<streams, subs, listeners, peers, op, ent, key, from, polls, found, status,
                   sent, asked, emitting, history>>

\* bucket.Put.  The bucket is a map here; KVStore says how far a store behind a
\* cache is one when goroutines that overlap write the same key.
SetPut(t) ==
    /\ pc[t] = "setPut"
    /\ LET e == ent[t]
       IN  \/ /\ store' = [store EXCEPT ![e.pk] = e]
              /\ Goto(t, "setBroadcast")
              /\ lowered' = IF Newer(e, store[e.pk]) THEN lowered ELSE lowered \cup {e.pk}
              /\ raced' = [u \in Task |->
                             raced[u] \/ (u # t /\ pc[u] \in {"setEmit", "setPut"}
                                                /\ key[u] = e.pk)]
              /\ UNCHANGED <<status, polls, asked>>
           \/ /\ Return(t, "error")                                   \* bucket.Put failed
              /\ UNCHANGED <<store, lowered, raced>>
    /\ UNCHANGED <<streams, subs, listeners, peers, op, ent, key, from, found,
                   sent, emitting, had, overlapped>>

\* BroadcastEntry: of the connected peers, only the one the entry came from is
\* sent it.  The shadowed err turns a failed send into a nil result.
BroadcastEntry(t) ==
    /\ pc[t] = "setBroadcast"
    /\ \/ from[t] \in peers /\ sent' = [sent EXCEPT ![t] = @ \cup {<<from[t], ent[t]>>}]
       \/ UNCHANGED sent
    /\ Return(t, "ok")
    /\ UNCHANGED <<shared, op, ent, key, from, found, emitting, history>>

\* The goroutine of "go event.Emit" runs the callbacks and ends.
Emit(t) ==
    /\ emitting[t] # NoTask
    /\ emitting' = [emitting EXCEPT ![t] = NoTask]
    /\ UNCHANGED <<shared, pc, op, ent, key, from, polls, found, status, sent, asked, history>>

-----------------------------------------------------------------------------
(* Get, and the reply RegistryQuery.HandleMessage makes of its result *)

GetBegin(t, k, p) ==
    /\ Begin(t, "get", NoEntry, k, p)
    /\ status' = [status EXCEPT ![t] = "none"]
    /\ Goto(t, "getSubs")

GetSubs(t) ==
    /\ pc[t] = "getSubs"
    /\ Goto(t, IF key[t] \in subs THEN "getCachedRead" ELSE "getAsk")
    /\ UNCHANGED <<shared, op, ent, key, from, polls, found, status, sent, asked, emitting, history>>

\* Get returns e; a peer that asked is sent it unless it is nil.
GetReturn(t, e) ==
    /\ found' = [found EXCEPT ![t] = e]
    /\ IF e # NoEntry /\ from[t] # NoPeer
       THEN \/ /\ sent' = [sent EXCEPT ![t] = @ \cup {<<from[t], e>>}]
               /\ Return(t, "ok")
            \/ sent' = sent /\ Return(t, "error")                     \* SendMessage failed
       ELSE sent' = sent /\ Return(t, "ok")

DBFailedUnnoticed(t) ==                                           \* mutant
    /\ Return(t, "ok")
    /\ UNCHANGED <<found, sent>>

\* bucket.Get failed: the call returns its error.
DBFailed(t) ==
    /\ Return(t, "error")
    /\ UNCHANGED <<found, sent>>

GetCachedRead(t) ==
    /\ pc[t] = "getCachedRead"
    /\ \/ DBFailed(t)
       \/ /\ store[key[t]] # NoEntry
          /\ GetReturn(t, store[key[t]])
       \/ /\ store[key[t]] = NoEntry
          /\ Goto(t, "getCachedAsk")
          /\ UNCHANGED <<status, found, sent, polls, asked>>
    /\ UNCHANGED <<shared, op, ent, key, from, emitting, history>>

\* The request, then the sleep of 200 ms.
GetCachedAsk(t) ==
    /\ pc[t] = "getCachedAsk"
    /\ SendRegistryRequest(t)
    /\ Goto(t, "getLastRead")
    /\ UNCHANGED <<shared, op, ent, key, from, polls, found, status, sent, emitting, history>>

GetLastRead(t) ==
    /\ pc[t] = "getLastRead"
    /\ \/ DBFailed(t)
       \/ GetReturn(t, store[key[t]])
    /\ UNCHANGED <<shared, op, ent, key, from, emitting, history>>

GetAsk(t) ==
    /\ pc[t] = "getAsk"
    /\ SendRegistryRequest(t)
    /\ Goto(t, "getSubscribe")
    /\ UNCHANGED <<shared, op, ent, key, from, polls, found, status, sent, emitting, history>>

GetSubscribe(t) ==
    /\ pc[t] = "getSubscribe"
    /\ subs' = subs \cup {key[t]}
    /\ Goto(t, "getCheck")
    /\ UNCHANGED <<store, streams, listeners, peers, op, ent, key, from, polls, found,
                   status, sent, asked, emitting, history>>

StreamCheckSkipped(t, here, absent, present) ==                   \* mutant
    /\ pc[t] = here
    /\ Goto(t, absent)
    /\ UNCHANGED <<shared, op, ent, key, from, polls, found, status, sent, asked, emitting, history>>

\* if !r.streams.Contains(keyString)
StreamCheck(t, here, absent, present) ==
    /\ pc[t] = here
    /\ Goto(t, IF streams[key[t]] = NoTask THEN absent ELSE present)
    /\ UNCHANGED <<shared, op, ent, key, from, polls, found, status, sent, asked, emitting, history>>

\* r.streams.Put of a new emitter: whatever is there is replaced.
StreamPut(t, here, next) ==
    /\ pc[t] = here
    /\ streams' = [streams EXCEPT ![key[t]] = t]
    /\ Goto(t, next)
    /\ overlapped' =
         IF \E u \in Task \ {t} : pc[u] \in {"getStream", "listenStream"} /\ key[u] = key[t]
         THEN overlapped \cup {key[t]} ELSE overlapped
    /\ UNCHANGED <<store, subs, listeners, peers, op, ent, key, from, polls, found,
                   status, sent, asked, emitting, had, raced, lowered>>

GetCheck(t) == StreamCheck(t, "getCheck", "getStream", "getRead")

GetStream(t) == StreamPut(t, "getStream", "getRead")

GetRead(t) ==
    /\ pc[t] = "getRead"
    /\ \/ DBFailed(t)
       \/ /\ store[key[t]] # NoEntry
          /\ GetReturn(t, store[key[t]])
       \/ /\ store[key[t]] = NoEntry
          /\ Goto(t, "getPoll")
          /\ UNCHANGED <<status, found, sent, polls, asked>>
    /\ UNCHANGED <<shared, op, ent, key, from, emitting, history>>

GetPollOnceMore(t) ==                                             \* mutant
    /\ pc[t] = "getPoll"
    /\ IF store[key[t]] # NoEntry \/ polls[t] = PollLimit
       THEN GetReturn(t, store[key[t]])
       ELSE /\ polls' = [polls EXCEPT ![t] = @ + 1]
            /\ UNCHANGED <<pc, status, found, sent, asked>>
    /\ UNCHANGED <<shared, op, ent, key, from, emitting, history>>

GetPollForever(t) ==                                              \* mutant
    /\ pc[t] = "getPoll"
    /\ store[key[t]] # NoEntry /\ GetReturn(t, store[key[t]])
    /\ UNCHANGED <<shared, op, ent, key, from, emitting, history>>

\* One round of the loop: sleep 10 ms, read, leave with an entry or at the end.
GetPoll(t) ==
    /\ pc[t] = "getPoll"
    /\ \/ DBFailed(t)
       \/ /\ store[key[t]] # NoEntry \/ polls[t] + 1 = PollLimit
          /\ GetReturn(t, store[key[t]])
       \/ /\ store[key[t]] = NoEntry /\ polls[t] + 1 < PollLimit
          /\ polls' = [polls EXCEPT ![t] = @ + 1]
          /\ UNCHANGED <<pc, status, found, sent, asked>>
    /\ UNCHANGED <<shared, op, ent, key, from, emitting, history>>

-----------------------------------------------------------------------------
(* Listen *)

\* A caller has at most one callback on a key, which names the callback.
ListenBegin(t, k) ==
    /\ \A l \in listeners : ~ (l[1] = k /\ l[3] = t)
    /\ Begin(t, "listen", NoEntry, k, NoPeer)
    /\ status' = [status EXCEPT ![t] = "none"]
    /\ Goto(t, "listenCheck")

ListenCheck(t) == StreamCheck(t, "listenCheck", "listenStream", "listenOn")

ListenStream(t) == StreamPut(t, "listenStream", "listenAsk")

ListenAsk(t) ==
    /\ pc[t] = "listenAsk"
    /\ SendRegistryRequest(t)
    /\ Goto(t, "listenOn")
    /\ UNCHANGED <<shared, op, ent, key, from, polls, found, status, sent, emitting, history>>

\* streams.Get again, and On with the callback's proxy.
ListenOn(t) ==
    /\ pc[t] = "listenOn"
    /\ listeners' = listeners \cup {<<key[t], streams[key[t]], t>>}
    /\ Return(t, "ok")
    /\ UNCHANGED <<store, streams, subs, peers, op, ent, key, from, found,
                   sent, emitting, history>>

\* The function Listen returned: stream.Off on the emitter it attached to.
Off(l) ==
    /\ l \in listeners
    /\ listeners' = listeners \ {l}
    /\ UNCHANGED <<store, streams, subs, peers, local, history>>

-----------------------------------------------------------------------------
\* The P2P service adds a peer after its handshake and removes it on close.
PeersChange ==
    /\ \/ \E p \in Peer \ peers : peers' = peers \cup {p}
       \/ \E p \in peers : peers' = peers \ {p}
    /\ UNCHANGED <<store, streams, subs, listeners, local, history>>

SetStep(t) == SetRead(t) \/ SetEmit(t) \/ SetPut(t) \/ BroadcastEntry(t)

GetStep(t) ==
    \/ GetSubs(t) \/ GetCachedRead(t) \/ GetCachedAsk(t) \/ GetLastRead(t)
    \/ GetAsk(t) \/ GetSubscribe(t) \/ GetCheck(t) \/ GetStream(t)
    \/ GetRead(t) \/ GetPoll(t)

ListenStep(t) == ListenCheck(t) \/ ListenStream(t) \/ ListenAsk(t) \/ ListenOn(t)

Call(t) ==
    \/ \E e \in Entry, p \in Peer : SetRejected(t, e, p)
    \/ \E e \in Entry, p \in Peer : SetAdmitted(t, e, FALSE, p)
    \/ \E e \in TrustedEntry, p \in Peer : SetAdmitted(t, e, TRUE, p)
    \/ \E k \in PK, p \in Peer \cup {NoPeer} : GetBegin(t, k, p)
    \/ \E k \in PK : ListenBegin(t, k)

Next ==
    \/ \E t \in Task :
          Call(t) \/ SetStep(t) \/ GetStep(t) \/ ListenStep(t) \/ Emit(t)
    \/ \E l \in listeners : Off(l)
    \/ PeersChange

Spec == Init /\ [][Next]_vars

\* The Go scheduler runs every goroutine that is ready.
Fairness ==
    \A t \in Task : /\ WF_vars(SetStep(t) \/ GetStep(t) \/ ListenStep(t))
                    /\ WF_vars(Emit(t))

FairSpec == Spec /\ Fairness

-----------------------------------------------------------------------------
(* Properties *)

Good(e) == Acceptable(e) \/ e \in TrustedEntry

\* Whatever is kept, sent to a peer or returned by Get is filed under its own
\* key and passed the checks of Set, unless a local caller vouched for it: no
\* interleaving lets an entry that Set refused leave the node (Set, Get,
\* RegistryQuery.HandleMessage).
Vouched ==
    /\ \A k \in PK : store[k] # NoEntry => store[k].pk = k /\ Good(store[k])
    /\ \A t \in Task : \A m \in sent[t] : m[2].pk = key[t] /\ Good(m[2])
    /\ \A t \in Task : found[t] # NoEntry => found[t].pk = key[t] /\ Good(found[t])

\* A Put replaces an entry by one that is not newer only when another Put hit
\* the key after this Set compared revisions: the comparison in Set protects
\* the bucket exactly as long as nobody else writes the key.
RevisionDropsOnlyInRace ==
    [][\A k \in PK :
          (store[k] # NoEntry /\ store'[k] # store[k] /\ ~ Newer(store'[k], store[k]))
          => \E t \in Task : pc[t] = "setPut" /\ key[t] = k /\ raced[t]]_vars

\* Once a Set returned without error the bucket holds the entry's revision or
\* a later one, for as long as no race lowered the key.
AcceptedIsKept ==
    \A t \in Task :
        (op[t] = "set" /\ pc[t] = "idle" /\ status[t] = "ok" /\ key[t] \notin lowered)
        => store[key[t]] # NoEntry /\ store[key[t]].rev >= ent[t].rev

\* A Get that began when the bucket held its key does not come back empty:
\* neither a missing subscription, nor the poll loop, nor a concurrent Set
\* makes an entry disappear.
GetFindsStored ==
    \A t \in Task :
        (op[t] = "get" /\ pc[t] = "idle" /\ status[t] = "ok" /\ had[t])
        => found[t] # NoEntry

\* A callback attached by Listen sits on the emitter Set fires, unless two
\* creations of the key's emitter overlapped: then the second Put of Get or
\* Listen leaves the callback on an emitter nobody fires.
ListenersReachable ==
    \A l \in listeners : l[1] \notin overlapped => streams[l[1]] = l[2]

\* Every call of Set, Get and Listen returns: the poll loop of Get is bounded
\* and no step waits for another task.
CallsReturn == \A t \in Task : (pc[t] # "idle") ~> (pc[t] = "idle")

\* The stored revision of a key never goes down, as the error "Revision number
\* too low" of Set promises.
RevisionNeverLowered ==
    [][\A k \in PK : store[k] # NoEntry =>
          store'[k] # NoEntry /\ store'[k].rev >= store[k].rev]_vars
=============================================================================
