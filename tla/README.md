# A verification project for libs5-go

TLA+ models of the node implemented in `src/`: the registry, the peer-to-peer
service, the routing of hash queries, the download of blobs, the key-value
stores below them, and the identifiers and documents they carry. TLC checks the
models on small instances; TLAPS proves their safety properties, and that the cached
key-value stores are maps to callers with keys of their own, for all instances.

## 1. The system

A node keeps long-lived peer connections over WebSockets, exchanges signed
messages on them, and answers and forwards three kinds of question: what is the
current entry of a registry key, who stores a hash, and who else is in the
network.

| component | state | operations | correct when |
|---|---|---|---|
| Registry service (`service/default/registry.go`) | bucket `registry`, maps `streams` (event emitters) and `subs` | `Set`, `Get`, `Listen`, broadcast and request; called by the handlers of `protocol/registry_*.go` and by the embedding program | only verified entries are kept, sent and returned; an accepted entry is never replaced by an older one; what is stored is found; listeners are told; calls return |
| P2P service (`service/default/p2p.go`) | `peers`, `peersPending`, three blocklists, failure counters | `Start`, `ConnectToNode` with retries, `OnNewPeer`, `OnNewPeerListen`, `AddPeer`, votes, `SendHashRequest` | a listed peer has proved its id; open peers are listed and closed ones are not; an id is blocked only for a cause; dials end |
| Transport (`net/`) | per connection: socket, challenge, id, handshake flag, `errChan`, `doneChan` | reader loop, one goroutine per message, close | a closed connection is wound up, with all its goroutines |
| Handshake and messages (`protocol/`) | the peer object | `HandshakeOpen`, `HandshakeDone`, `AnnouncePeers`, `HashQuery`, `StorageLocation`, registry messages | nothing that needs a handshake or an open bucket runs without it |
| Services and node (`node/`) | `started`, `starting` | `Init`, `Start`, `Stop` | connections made during start do no harm |
| Hash routing (`protocol/hash_query.go`, `storage_location.go`) | `hashQueryRoutingTable`, cached locations | answer, remember the asker, forward; store a location, pass it back | an asker is not forgotten; a request dies out; the requester learns of a provider |
| Storage service, provider (`service/default/storage.go`, `storage/provider/`) | locations bucket; per download `availableNodes`, `nodeUris`, `isTimedOut`, retry count | `AddStorageLocation`, `DownloadBytesByHash`, `Start`, `Next`, the poller | every known node is tried before a timeout; `Next` returns |
| Key-value stores (`db/`) | database, one LRU cache per store | `Get`, `Put`, `Delete`, `Bucket` | a bucket looks like an atomic map to the only caller of a key; the cache goes stale for others only through a race |
| HTTP service | none of its own | `p2pHandler` hands an accepted socket to the P2P service | |
| CIDs, multihashes, node ids (`encoding/`, `utils/`, `internal/bases`) | none | constructors, copies, and a writer and a reader for each form | what is written is read back; bad bytes are refused |
| Metadata (`metadata/`, `serialize/`, `GetMetadataByCID` of the storage service) | documents; `metadataCache` | build, encode, decode, verify proofs, cache | what is published is read back, under one hash; proofs cover the body read; every caller gets what the bytes say |
| Keys, configuration, types | none | library wrappers and declarations | |

How they interact. The reader of a connection (`net/ws.go`) starts a goroutine
for every message; it calls the message's handler, which calls the registry, the
storage service or the P2P service through the mediator. These services share
their maps and buckets and have no locks beyond one per map access, so any two
handlers may interleave at every access. Handlers dial (`HandshakeDone`,
`AnnouncePeers` call `ConnectToNode`), so a reader that ends waits for dials that
sleep. A download runs beside the poller of its provider, which sends the hash
requests that make the network send locations back.

Hard to get right, and hard to test: read-compare-write without a lock (registry
`Set`, votes, `AddStorageLocation`, failure counters); check-then-create
(emitters, routing entries, dials); callbacks that run before the work they
conclude (`onDone`); goroutines blocked on a full channel; lost messages; the
order of start; one cache for several buckets; queries that are answered by
queries; numbers whose Go type depends on their size. `PROJECT.json` lists each of them
under `hazards` with its line and the properties that watch it.

## 2. Modules

| module | models | runs |
|---|---|---|
| `Registry` | the registry service and its two message handlers | `registry`, `registry_one_caller` |
| `RegistryNet` | the registry services of two nodes and their messages | `registry_net` |
| `P2P` | P2P service, transport, handshake, start and stop | `p2p_two_connections`, `p2p_messages`, `p2p_ends` |
| `HashRouting` | hash queries and locations on a network of nodes | `hash_routing` |
| `Download` | a download, its provider and poller, votes | `download` |
| `KVMap` | abstract specification: buckets as atomic maps | by refinement |
| `KVStore` | the stores behind the shared LRU cache | `kvstore`, `kvstore_buckets` |
| `CidCodec` | identifiers as byte strings and text: pure operators | through `Cid` and `Metadata` |
| `Cid` | the life of an identifier | `cid` |
| `MetadataCodec` | documents and their msgpack form: pure operators | through `Metadata` |
| `Metadata` | the life of a document, `GetMetadataByCID` and its cache | `metadata` |
| `MC*` | constants and inputs for TLC | |
| `Registry_proofs`, `P2P_proofs`, `HashRouting_proofs`, `Download_proofs`, `KVStore_proofs`, `CidCodec_proofs`, `Cid_proofs`, `Metadata_proofs` | theorems about the module of that name, with their inductive invariants and lemmas | proved |

An operator marked `\* mutant` stands before the definition it alters and is used
by no specification: it is that definition with a plausible slip in it, kept to
show that a property notices.

### Registry

A `Task` is a goroutine that makes one call after another; `pc` says where in
`Set`, `Get` or `Listen` it is, and every access to the bucket, to `streams`, to
`subs` or to the peers is a step. `SetRejected` and `SetAdmitted` are the checks
at the head of `Set` (revision range, length, key type, signature; a trusted
local caller skips them), `SetRead` the comparison with the stored entry and the
reply to a sender that is behind, `SetEmit` the start of `go event.Emit`, `SetPut`
the bucket, `BroadcastEntry` the loop over the peers. `Get` has its two paths
(already subscribed, or not) and the poll loop; the answer to a `RegistryQuery` is
part of `GetReturn`. Buckets and sends may fail wherever the code handles an
error. An entry is a record of what the checks look at; the byte layout and the
signature are what `Verify` answers. `raced`, `lowered`, `overlapped` and `had`
are history variables. The bucket is an atomic map here. `KVStore` ties that to the
stores for keys with one caller only; when goroutines that overlap write one key, the
cache can keep an older entry than the database (`CacheStaleOnlyIfOvertaken`), which
`Registry` does not show beyond the entries its own races lower.

### RegistryNet

Two nodes with the steps of `Registry` that matter between nodes, for one key. A
message in flight and its handler are one job, as in `HashRouting`; an entry is its
revision, because entries that fail their checks change nothing (`Vouched`, proved
for `Registry`). What `Registry` leaves open, the answers of the peers, is here the
other node: a query is answered by a `Get`, and a `Get` asks the peers of its own
node, the asker among them. `seen` and `lowered` are history variables. Sends and
buckets do not fail, as a lost message may leave an asker without its answer for
good; the polls of `Get` may end at any time.

### P2P

A `Conn` is a peer object with its socket, its `OnNewPeer` goroutine (`main`) and
its reader; a `Task` is the goroutine of one message, or one that dials for
`Start` or for the embedding program. `ConnectToNode` is the chain `DialCheck`,
`DialBlocked`, `DialOk` or `DialFails`, `GiveUp`, `Tally`, `Count`, `Block`, in which
the retry is the recursive call of the code. `GiveUp` and `Tally` are `Contains` and
`GetUInt` of the failure counter. `Panics` ends the process, and it begins again from
the initial state: when another dial has removed the key in between, or when the node
id of a signed message does not have the length `ed25519.Verify` asks for. `OnClose`
is the `onDone` callback, which runs before `ReaderEnd` has waited for the handlers.
`DialCheck`, `OnClose`, `HandleDone` and `AddPeer` each make several accesses, to maps
of their own, in one step; the module's header says which. A message is a record of what
its checks find: who signed it, whether the challenge or network id agrees, which
id its URI names. A connection is used once, so the number of connections bounds
the behaviours; handlers are reused.

The blocklist test of `OnNewPeer` is modelled as written: the id is looked up in
the list of addresses and the address in the list of ids
(`service/default/p2p.go` lines 376 and 384), so an address on
`incomingIPBlocklist` is not refused.

### HashRouting

Several nodes, one hash. A message in flight and the goroutine that handles it
are one job with a `pc`; jobs are a set, because goroutines are not ordered.
`QueryRoute` and `QueryPut` are the look at the routing table and the write that
may overwrite what another query put there; `LocationAdd` and `LocationStore` are
the read and the write of `AddStorageLocation`; `LocationSend` and
`LocationRemove` are the rounds of the loop over the askers, which removes the
entry after every send. Who provides, who asks and whether anything fails is the
`scenario`, chosen in the initial state; with `Faults`, any bucket access and any
send may fail.

### Download

One call of `DownloadBytesByHash` with the poller of its provider. Only the poller
takes the mutex, so both read `availableNodes` in one step and write it back in
another, and the poller sorts in place an array that `Next` has a slice of. `Next`
reads the slice a second time to cut off its first node: if the poller has been at it
since, the one cut off may be another than the one taken, and the slice the shorter
one (`Rest`). Locations are compared as pointers, so every poll offers all cached
nodes again. The 60 seconds of a timeout are the action `TimePasses`.

### KVStore and KVMap

A call of `Get`, `Put` or `Delete` touches the cache and then the database, or the
other way round, as two or three steps, and calls of any callers interleave. Between
its two steps a call holds a value for the cache. When another call writes the key
meanwhile, the first is `overtaken`, and what it leaves in the cache is `outdated`
until the next call that is not overtaken comes by: the code does keep such a value,
for as long as the cache does. `CacheStaleOnlyIfOvertaken` says that a late write and
this are the only ways for the cache to go stale. `late`, `overtaken` and `outdated`
are history variables.

`KVMap` is what a caller expects: the effect of a call happens at one instant between
its start and its return. With the race just described a store cannot promise that for
a key that is shared, nor for one that is used in two buckets; it does for the others
(`OwnPairs`), whatever happens to the shared ones in the same cache. What the map holds
for such a key is what its owner would read (`Visible`): what the call in progress has
done so far, else the cached value, else the database.

A write to etcd whose context expires is an error to the caller, and may still be
applied: at once, much later, or never (`TimesOut`, `Applied`). `KVMap` says what
can be promised then: such a write is in `unsure` and comes in at any time (`Late`)
or not at all (`Lost`). The mapping counts a write that etcd has applied but the
cache still hides as one that is under way. `MaxInFlight` is 0 for bbolt, whose
updates fail or succeed.

### Cid and CidCodec

`CidCodec` has the writers and readers of `encoding/` as operators on sequences of
digits, with the layouts of the code and constants for the widths. `DecodeEndian` is
the loop of `utils/endian.go`, in which total and multiplier wrap at the width of a
size; `Pow` is a recursive function so that it can be proved about. A result is `Ok`,
`Error`, `Panic` or `Overrun`, a slice expression that goes past the length of its
operand; Go then panics or, with spare capacity, reads what is there. `Cid` uses them
in any order: an identifier is made, copied with another type, encrypted, written in
one of its forms, cut or extended on the way, read, and written again. A node id in
text is read by the reader of its form only; other text that does not begin with a
multibase prefix is refused or, when its first character happens to be one, garbled.

### Metadata and MetadataCodec

`MetadataCodec` has the encoders and decoders of `metadata/`. What a decoder does
depends on the Go type that msgpack gives an item, because it asserts that type, so
an item is a pair of its type and its value, and a number is its type alone (`"int8"`
for 0 to 127, `"uint8"` for 128 to 255, and so on to `"uint64"`). An encoder that
ranges over a Go map yields one outcome per order. A linked map is the sequence of
its entries, and the loops over one are recursive functions (`PutAll`, `Kept`), so
that they can be proved about. `Directory` and `WebApp` are the documents a program
can have, and `Readable` says which foreign bytes are considered: those in which a
field that the library decodes straight into a Go type has that type, as the library
itself refuses others; what the code asserts or indexes itself may be anything.
`Metadata` follows one hash:
a document is put together through the operations its types have, published, and
read by callers of `GetMetadataByCID` whose download may end in the published bytes,
in other bytes or in an error; a caller goes on to edit the object it was given,
which is the one in the cache, and publishes it again. A panic ends the process and
with it the cache; an overrun is taken for one.

## 3. Runs

| run | instance | shows |
|---|---|---|
| `registry` | 2 tasks, 1 key, revisions 0 to 2 of which 2 is too large, short and too long data, 1 peer | type; `Vouched`: only checked entries are kept, sent, returned; `AcceptedIsKept`; `GetFindsStored`; `ListenersReachable`; `RevisionDropsOnlyInRace` |
| `registry_one_caller` | 1 task, 2 keys (one not ed25519), 2 peers, revisions up to 3, a trusted entry | without a second caller the revision never drops; every call returns |
| `registry_net` | 2 nodes, 1 key, 2 revisions published anywhere, one node asks | `QueriesEnd`: once an entry exists the messages die out; `AskersCatchUp`: who asked comes to have what its peers had |
| `p2p_two_connections` | 2 connections, 1 handler, 2 remote ids | `PeersAuthenticated`, `ZombiesExplained`, `OpenPeersListed` |
| `p2p_messages` | 1 connection, 2 handlers, every kind of message and refusal, 2 failures until blocked | type, `BucketsOpenBeforeUse`, `DialsBounded`, `BlockedForCause` |
| `p2p_ends` | 1 connection, 2 handlers that dial and send, error channel of one place | `ClosedConnectionsEnd`, `ClosedNotPending`, `TasksEnd` |
| `kvstore` | 2 callers of one key, one of which has another key in another bucket, cache of 1, 1 late write | type, `CacheStaleOnlyIfOvertaken`, `ImplementsMap` (refinement, for the key with one caller) |
| `kvstore_buckets` | 1 caller, one key in 2 buckets | **violated**: `Get` answers from the other bucket |
| `hash_routing` | path of 3 nodes: two ask the provider in the middle, with faults; two ask one at an end, without; the middle asks providers at both ends | type, `NoAskerForgotten`, `Quiescence`, `RequesterLearns` |
| `download` | 1 download, this node, a remote one, an excluded one, faults | type, `AvailableHaveUri`, `KnownNodesTried`, `NextReturnsIfPolled` |
| `cid` | bytes of 6 values, hashes and sizes of 2 bytes, keys and paddings of 1 | type; `RoundTrip`: exactly bridge CIDs and CIDs of a bare public key are not read back; `EqualsExact`; `FailsSafely` |
| `metadata` | 2 readers, documents of up to 2 parts, entries of 2 names, some fifty foreign documents, 2 wrong answers of a server | type; `ReadBack`: exactly which documents survive; `SignedBodyRead`; `HonestAnswers`; `OneHash` |

Bounds. `MaxRevision` stands for 2^48: the code only compares revisions, and one
value above it is kept so that the range check is exercised. `PollLimit` stands
for 200 polls, `RetryLimit` for 32 retries, `ErrCap` for 10 places, `MaxAttempts`
and `MaxFailures` for the configured limits: each is a counter compared with a
limit, and a limit of one or two reaches both sides and the boundary.
`giveups` in `P2P` saturates at `MaxFailures`. Two concurrent calls show every
race of two accesses; two connections under one id are what dropping the wrong
one takes. Two callers of a key make every race of a fill or an update with a write,
and a key of its own beside it what the race could do to others; `MaxInFlight` is one
because two late writes with shared keys exceed a complete search, and one already
arrives before, during or after any call. The networks of
`HashRouting` are paths: two nodes that ask each other already form the loop a
location could take, while a triangle has more interleavings than a complete
search reaches, so of networks with cycles only what is proved is claimed. Two nodes are the
smallest registry network in which queries answer queries, and two revisions the
fewest with which one can be late; a third node is not claimed to behave alike.
Six values of a byte leave room for every CID type that is told apart, an unknown
one, and the two hash types; two bytes of size have a leading and a trailing zero
and a carry. A document of two parts shows every pair of parts that the formats
could confuse, and a document the cache shares is edited once. Symmetry is used in
safety runs only, and in `kvstore` for values, of which neither the invariants nor
the refinement single any out. Where a run says `CHECK_DEADLOCK FALSE` (hash
routing, registry network) the system stops when its messages have been handled,
which is what it is for.

Fairness. Weak fairness of goroutines, because the Go scheduler runs what is
ready; in `HashRouting` of each kind of handler step, in `RegistryNet` of each kind
of step at each node, in `Download` also of time.
In `P2P` a goroutine that waits for the remote side is left out (`Waits`, `SendWaits`):
`websocket.Dial` and `socket.Write` run under `context.Background()` without a
deadline, so a dial may never return, nor a send while its socket is open. Hence
`ClosedConnectionsEnd` and `TasksEnd` end in "or a goroutine waits for the remote side
for ever"; a reader whose handler does so never ends either. `ClosedNotPending` needs
no such exception, as `OnClose` runs before the reader waits. In `Download` the
request is not fair, as the HTTP client has no timeout; `SendHashRequest`, which the
poller calls under its mutex, is part of `PollRead` and so taken to return, and
`NextReturnsIfPolled` rests on that. In `Registry`, `RegistryNet` and `HashRouting` a
send is one step, which returns. Nothing is assumed of the remote side (messages,
closes, HTTP answers), of callers, or of `Start`.

What the exceptions in the properties mean. Several properties name exactly the
interleavings in which the code does not keep the promise: `raced` and `lowered`
in the registry, `late` and `renamed` (a connection closed while its handshake is
handled stays in `peers`, and so does the first id of one that handshakes twice)
and `doubled` (two connections of one id) in `P2P`, `raced` and `failed` in
`HashRouting`, `lowered` in `RegistryNet`, `late` and `outdated` in `KVStore`, `dropped` and `broken`
in `Download`, `harmed` and `edited` in `Metadata`. That the property holds with these
exceptions says there are no others.

`RoundTrip`, `ReadBack` and `OneHash` are equivalences for the same reason: they say
which inputs survive and that no other one does.

### Disagreements found

* `kvstore_buckets`: buckets share one cache keyed by the bare key, although `Get`
  is to return "the value associated with the given key".

### Limits of the code the passing runs make exact

* `Set` reads at line 95 and writes at line 131 of `registry.go` without a lock, so
  of two concurrent entries the older one can be kept; `RevisionDropsOnlyInRace`.
* While no node has an entry of a key, two nodes that are subscribed to it go on
  asking each other (`registry.go` line 220); `QueriesEnd` says that an entry
  anywhere ends it.
* A failed read of the bucket ends the poller of a download without `isTimedOut`,
  and `Next` waits for nothing else; `NextReturnsIfPolled`.
* Bridge CIDs do not survive being written, and neither do directory details,
  subdirectories created before 2^32 or without a key, an update CID (it comes back as
  bytes), and the extra metadata of web apps; `RoundTrip`, `ReadBack`. In the formats of media 128 to 255 are read as zero;
  `SignedBodyRead`.
* What two callers of one key race for can stay in the cache for good
  (`bboltdb.go` lines 96 and 124); `CacheStaleOnlyIfOvertaken`.
* A remote node that accepts a connection and never answers holds a dial, the handler it
  runs in and the reader that waits for it (`ws.go` lines 26, 47, 103);
  `ClosedConnectionsEnd`, `TasksEnd`.
* A web app with two error pages has several hashes; `OneHash`.
* What a download brought is not compared with its hash, and is cached under it;
  `HonestAnswers` holds for honest servers and callers that do not edit.

## 4. Proofs

Every theorem holds for all values of the constants that meet the named assumption
of its module. Those say that constants are of their kinds and that the values which
stand for "none" are outside the sets they mark; `CidAssumption` and
`MetadataAssumption` also that the type bytes differ, `PathAssumption` that the order
of paths names each once, `DocumentAssumption` that what a program puts into documents
is of its type, `CidInputs` and `MetadataInputs` what the sequences are that reach the
program. TLC evaluates all of them. One theorem of `Registry` has a further hypothesis, given
with it.

| module | theorem | states |
|---|---|---|
| `Registry_proofs` | `TypeCorrect`, `OnlyVouched`, `KeepsAccepted`, `FindsStored`, `ReachesListeners` | `[]TypeOK`, `[]Vouched`, `[]AcceptedIsKept`, `[]GetFindsStored`, `[]ListenersReachable` |
| | `DropsOnlyInRace` | `RevisionDropsOnlyInRace`, an action property |
| | `OneCallerKeepsRevisions` | `RevisionNeverLowered`, if there is one task (`OneCaller`) |
| `P2P_proofs` | `TypeCorrect`, `Authenticated`, `BucketsOpen`, `BoundedDials`, `BlockedRightly`, `Zombies`, `OpenListed` | every safety invariant of the two runs of `P2P` |
| `HashRouting_proofs` | `TypeCorrect`, `NoneForgotten` | `[]TypeOK`, `[]NoAskerForgotten`, on every network, cycles included |
| `Download_proofs` | `TypeCorrect`, `HaveUri`, `TriedAll` | `[]TypeOK`, `[]AvailableHaveUri`, `[]KnownNodesTried` |
| `KVStore_proofs` | `TypeCorrect` | `[]TypeOK` |
| | `CacheFresh`, `StoreIsMap` | `[]CacheStaleOnlyIfOvertaken`, however many callers share a key, and the refinement `ImplementsMap` |
| `CidCodec_proofs` | `SizeRead`, `ReadAny`, `ReadCID`, `ReadAnyEncrypted`, `ReadEncrypted` | what the readers make of what the writers wrote, and of any bytes |
| `Cid_proofs` | `TypeCorrect`, `ReadsSafe`, `RoundTrips`, `EqualityExact` | every invariant of the run `cid`, for any base and widths |
| `Metadata_proofs` | `TypeInvariant`, `DocumentsReadBack`, `WebAppHash`, `AnswersHonest`, `SignedBodiesRead` | every invariant of the run `metadata`, for any documents, names, paths and CIDs: `[]TypeOK`, `[]ReadBack`, `[]OneHash`, `[]HonestAnswers`, `[]SignedBodyRead` |

Each state machine has a theorem `Invariance` (in `KVStore_proofs` the lemmas `Typed`
and `Fresh`) for the inductive invariant that the others follow from.

*Registry.* None of the properties is inductive. `IndInv` adds what a task knows in
the middle of a call: its arguments are those it was given (`ArgsInv`), it is where
its call can be (`OpInv`), the comparison a `Set` made still holds unless another
`Put` raced it (`NewerInv`; without it nothing can be said of the `Put` two steps
later), what was put is still there while it broadcasts (`KeptInv`), the entry it
carries passed the checks (`GoodInv`), the bucket forgets no key (`HadInv`), and a
task about to create an emitter finds none unless creations overlap (`ReachInv`).
With one task the flag `raced` stays down, hence `OneCallerKeepsRevisions`.

*P2P.* `ConnInv` says that a handshake is complete only with a proof of the id and
with the buckets open, and that an unused connection has left no trace; `TaskInv`
that a handler is waited for by its reader and that `retry` counts the dials;
`PeerInv` ties a listed connection to its id and its reader unless it came late or
was renamed; `DoubledInv` that two connections of one id were noticed. `CountInv` is
the one that was hard to find: the counter of an id, plus the goroutines that saw its
key and have not read its value, stays within the dials that gave up, although two
goroutines may write the same number. It counts goroutines, so it needs the
cardinality theorems for finite sets.

*HashRouting.* `JobInv` types a message and its handler; `ServeInv` says that while a
handler goes through its list, every asker in the entry it will remove is on the
list, was served, or came late. Nothing in the argument uses the shape of the
network.

*Download.* `CopiesInv` relates the two copies of `availableNodes`: what `Next` read
may have grown since and never shrunk, and what the poller is going to write has all
that is there. `PendingInv`: a location once known is still to be tried, was tried,
is excluded, or was lost when `Next` wrote the list back without it.

*KVStore.* `TypeInv` has the LRU cache as a sequence without a key twice, kept by
`Get`, `Put` and `Remove` with eviction. `FreshInv` is what makes
`CacheStaleOnlyIfOvertaken` inductive: the value a call carries to the cache is the
database's or out of date through a late write, unless the call was overtaken, and a
cached value is current, outdated, or awaits the writer that is on its way to the
cache. It also says that the owner of a key whose `Get` missed still misses. For the
refinement every step is shown to be a step of `KVMap` or to leave its variables alone
(`StepRefines`); the interesting ones are eviction, by the owner or by a call on a
shared key (`SharedRefines`), which may uncover a write that etcd applied late (`Late`
in the map), and a cache fill that hides one again. For keys with several callers or
in two buckets the refinement is false, which is why `OwnPairs` restricts it; the
latter is the finding of `kvstore_buckets`.

*Cid.* What the loops compute is induction over the length of a string. The
library's induction theorems take an operator, which the provers cannot instantiate,
so the lemmas `Least`, `Induction` and `Recursion` of `CidCodec_proofs` derive
induction over a set and the equations of a recursive function from the
well-foundedness of `<`, and everything is first-order from there: the digits of a
number are unique (`Digits`), the loop of `DecodeEndian` adds them up and wraps at the
width (`DecodeLoop`), and the bytes that `SizeBytes` drops do not count. The
invariant of `Cid` says that what is on the way and known to be unharmed is the form
of what was sent, and that the last result is what reading made of it.

*Metadata.* `HonestAnswers` and `SignedBodyRead` speak of the last answer, but the
next one may come from the cache, so the invariant says the same of the cache
(`CacheHonest`, `CacheFounded`), and of what is stored that it can be read at all
(`StoredInv`, so that nothing is downloaded before something was published). The
lemma `Parsed` is the reason both hold: a document that `ParseMetadata` accepts under
any type is what the bytes say under the type they are of.

`ReadBack` takes the invariant `OriginInv`, what is stored is one of the forms of the
document it came from, and the lemma `ReadBackOf`, which is about the formats alone and
is proved from the bottom up. `AllPut` says by induction over a loop that putting the
entries of a map without a key twice gives that map again; then each part is shown to
be written as something that can be read, and to be read back exactly if it is of the
kind that is kept: CIDs and encrypted CIDs by the theorems of `CidCodec_proofs`,
references, versions and files (`DirectoryReferenceRead`, `FileVersionRead`,
`FileReferenceRead`), maps of them (`ReferencesRead`), extra metadata in any order
(`IntMapRead`, `ExtraRead`), paths (`PathsRead`) and so the documents
(`DirectoryReadBack`, `WebAppReadBack`). Both directions are proved: for a document
that is not kept, some part is refused or comes back as another one. `TypeOK` needs
that whatever is read from foreign or wrong bytes is a document (`DirectoryTyped`,
`WebAppTyped`), that what this program writes is such bytes (`DirectoryReadable`,
`WebAppReadable`), and that every edit keeps a document one (`DirectoryChanged`,
`WebAppChanged`, `ReferencePut`, `PathRemoved`). `OneHash` follows from two lemmas:
`SortOfSet`, sorting depends on the set of paths alone, and `FormsDiffer`, two orders
of the error pages or of the extra metadata give different bytes, so that there is one
form exactly if there is one order.

Only model-checked. Liveness (`CallsReturn`, `ClosedConnectionsEnd`,
`ClosedNotPending`, `TasksEnd`, `Quiescence`, `RequesterLearns`, `QueriesEnd`,
`AskersCatchUp`, `NextReturnsIfPolled`) needs fairness and lies outside what the
prover handles; `RegistryNet` has no other properties. Every invariant and every
action property of the passing runs is a theorem.

## 5. Not modelled

* Cryptography: a hash is what names a document, a signature the answer of its
  verification. The digits of the multibase alphabets, which are the library's.
* In the documents: negative numbers and numbers from 2^63 on, the text of JSON and
  the JSON of web apps, the user identity types (declared, used by nothing), and
  more than one hash at a time.
* That the proofs of a media document are checked against the bytes that are decoded
  (`media_metadata.go` line 87): a document on the wire has one body in the model, so
  no property can say it.
* What JSON makes of the keys of a directory beyond whether they load: they come back as
  their base64 form (`misc.go` line 30), and a directory that was loaded cannot be
  written to msgpack again.
* The msgpack layouts of protocol messages, which only this code writes and reads;
  a message is a record of what its checks find.
* Node scores (floating point): they order nodes, so nodes are taken in any order.
* The lengths of delays, the `abuser` flag (it selects what is logged) and
  `SendPublicPeersToPeer`.
* What listeners see, and the internals of the event emitter.
* A failed send in the registry network, and networks with cycles.
* The lifetime of slices returned by bbolt, which are valid inside a transaction only
  but are cached and returned (`bboltdb.go` lines 89 to 98): values are copied in the
  model. Unsynchronised access to Go maps that crashes the process; opening and closing
  of databases.
* In `Download`, slices are their contents: of the ways in which `Next` can meet an
  array the poller is appending to and sorting, the model has every list that could
  result, not the moment of each swap; the poller appends to the list and sorts it
  in one read and one write.
* The error branch of `SendHashRequest` in the poller, which keeps the mutex
  (`provider.go` line 87): marshalling the query is its only error, and cannot fail.
* An HTTP server that never answers, as the client has no timeout: nothing is
  claimed of a download beyond `Next`. The HTTP handlers that only read.
* A `Set` without a peer (`registry.go` line 70 dereferences it first): both callers
  in the repository have one.

## 6. Plan

Done, in this order: `Registry` with its proofs, `P2P`, `KVStore` against `KVMap`,
`HashRouting`, `Download`; then `RegistryNet`, `Cid`, `Metadata`, writes to etcd that
come in late, and the panic of the failure counter; then the proofs of section 4.

Next: a listener's view in `Registry`, the order in which revisions reach a callback.
