------------------------------ MODULE Download ------------------------------
(***************************************************************************)
(* Downloading the bytes of a hash: StorageService.DownloadBytesByHash     *)
(* (service/default/storage.go), the StorageLocationProviderImpl that      *)
(* hands out the nodes to try (storage/provider/provider.go), and the      *)
(* votes on nodes that failed (P2PServiceDefault.vote).                    *)
(*                                                                         *)
(* A Download is the goroutine of one call and the poller its provider     *)
(* starts.  Only the poller takes the provider's mutex, so the two share   *)
(* availableNodes without any: each reads the slice in one step and writes *)
(* it back in another, and the poller sorts the array it shares with Next  *)
(* in place.  Nodes are sorted by score before they are handed out; scores *)
(* are not modelled, so availableNodes is a set and Next takes any member. *)
(* A location is named by its node.                                        *)
(*                                                                         *)
(* tried, dropped and broken are history variables: no action reads them.  *)
(***************************************************************************)
EXTENDS Naturals, FiniteSets

CONSTANTS
    Node,
    Local,        \* this node, when its ProviderStore can provide the hash
    Exclude,      \* ExcludeNodes of the provider's parameters
    Download,
    RetryLimit,   \* stands for the 32 retries
    Faults,       \* whether the buckets may fail
    NoNode

ASSUME DownloadAssumption ==
    /\ Local \subseteq Node /\ Exclude \subseteq Node
    /\ RetryLimit \in Nat
    /\ Faults \in BOOLEAN
    /\ NoNode \notin Node

VARIABLES
    cached,       \* nodes with an unexpired location in the bucket
    bad,          \* the bad votes of each node in the nodes bucket
    dl,           \* the downloads
    tried,        \* history: nodes each download was handed
    dropped,      \* history: nodes lost when a Next wrote the list back
    broken        \* history: downloads whose poller could not read the bucket

vars == <<cached, bad, dl, tried, dropped, broken>>
history == <<tried, dropped, broken>>

\* late: the time set in timeout has passed.  seen: availableNodes when Next took
\* its node; merged: what the poller is sorting and going to write.
DownloadState ==
    [pc : {"idle", "call", "next", "pop", "fetch", "vote", "save", "end"},
     poller : {"none", "poll", "write", "ended"},
     available : SUBSET Node, uris : SUBSET Node,
     seen : SUBSET Node, merged : SUBSET Node, node : Node \cup {NoNode},
     requestSent : BOOLEAN, late : BOOLEAN, isTimedOut : BOOLEAN,
     count : Nat, retryCount : 0 .. (RetryLimit + 1),
     result : {"none", "ok", "error", "timeout", "retries"}]

NewProvider ==
    [pc |-> "idle", poller |-> "none", available |-> {}, uris |-> {}, seen |-> {},
     merged |-> {}, node |-> NoNode, requestSent |-> FALSE, late |-> FALSE,
     isTimedOut |-> FALSE, count |-> 0, retryCount |-> 0, result |-> "none"]

TypeOK ==
    /\ cached \subseteq Node
    /\ bad \in [Node -> Nat]
    /\ dl \in [Download -> DownloadState]
    /\ tried \in [Download -> SUBSET Node]
    /\ dropped \in [Download -> SUBSET Node]
    /\ broken \subseteq Download

Init ==
    /\ cached \in SUBSET Node
    /\ bad = [n \in Node |-> 0]
    /\ dl = [d \in Download |-> NewProvider]
    /\ tried = [d \in Download |-> {}]
    /\ dropped = [d \in Download |-> {}]
    /\ broken = {}

-----------------------------------------------------------------------------
(* DownloadBytesByHash *)

End(d, r) == dl' = [dl EXCEPT ![d].pc = "end", ![d].result = r, ![d].node = NoNode]

\* Start of the provider: the cached locations and this node's own.
Start(d) ==
    /\ dl[d].pc = "idle"
    /\ LET uris == cached \cup Local
       IN  dl' = [dl EXCEPT ![d].pc = "call", ![d].poller = "poll",
                            ![d].uris = uris, ![d].available = uris \ Exclude]
    /\ UNCHANGED <<cached, bad, history>>

StartFails(d) ==
    /\ Faults /\ dl[d].pc = "idle"
    /\ End(d, "error")
    /\ UNCHANGED <<cached, bad, history>>

\* Next: the timeout starts afresh.
NextCall(d) ==
    /\ dl[d].pc = "call"
    /\ dl' = [dl EXCEPT ![d].pc = "next", ![d].late = FALSE]
    /\ UNCHANGED <<cached, bad, history>>

\* What the array of availableNodes holds: what the poller has appended, too,
\* while it sorts.
Listed(d) == dl[d].available \cup dl[d].merged

\* A node is taken off the list: read here, written in the next step.
NextTake(d, n) ==
    /\ dl[d].pc = "next"
    /\ n \in Listed(d)
    /\ dl' = [dl EXCEPT ![d].pc = "pop", ![d].node = n, ![d].seen = dl[d].available]
    /\ UNCHANGED <<cached, bad, history>>

\* The slice is read again, without its first element: what is left is the list
\* without the node taken, unless the poller has added to it or sorted it since.
\* Then another node may come first, and the slice may be the shorter one.
Rest(d) ==
    IF Listed(d) = dl[d].seen
    THEN {dl[d].seen \ {dl[d].node}}
    ELSE {rest \in SUBSET Listed(d) :
             Cardinality(rest) + 1 \in Cardinality(dl[d].seen) .. Cardinality(Listed(d))}

\* A node without a URI is passed over.
NextPop(d) ==
    /\ dl[d].pc = "pop"
    /\ \E rest \in Rest(d) :
          /\ dl' = [dl EXCEPT ![d].available = rest, ![d].seen = {},
                              ![d].pc = IF dl[d].node \in dl[d].uris THEN "fetch" ELSE "next"]
          /\ dropped' = [dropped EXCEPT ![d] = @ \cup (dl[d].available \ (rest \cup dl[d].merged))]
    /\ tried' = [tried EXCEPT ![d] = @ \cup {dl[d].node}]
    /\ UNCHANGED <<cached, bad, broken>>

NextTimedOutAnyhow(d) ==                                          \* mutant
    /\ dl[d].pc = "next"
    /\ dl[d].isTimedOut
    /\ End(d, "timeout")
    /\ UNCHANGED <<cached, bad, history>>

\* No node is left and the poller has given up; otherwise Next sleeps.
NextTimedOut(d) ==
    /\ dl[d].pc = "next"
    /\ dl[d].available = {} /\ dl[d].isTimedOut
    /\ End(d, "timeout")
    /\ UNCHANGED <<cached, bad, history>>

\* The request: the bytes, an answer to vote down, or an error that ends the
\* download (the URL cannot be parsed, the body cannot be read).
Fetch(d) ==
    /\ dl[d].pc = "fetch"
    /\ \/ End(d, "ok")
       \/ End(d, "error")
       \/ dl' = [dl EXCEPT ![d].pc = "vote"]
    /\ UNCHANGED <<cached, bad, history>>

\* Downvote reads the votes here and saves them in the next step.
VoteRead(d) ==
    /\ dl[d].pc = "vote"
    /\ dl' = [dl EXCEPT ![d].pc = "save", ![d].count = bad[dl[d].node]]
    /\ UNCHANGED <<cached, bad, history>>

VoteSaveUnlimited(d) ==                                           \* mutant
    /\ dl[d].pc = "save"
    /\ bad' = [bad EXCEPT ![dl[d].node] = dl[d].count + 1]
    /\ dl' = [dl EXCEPT ![d].retryCount = @ + 1, ![d].node = NoNode, ![d].pc = "call"]
    /\ UNCHANGED <<cached, history>>

VoteSave(d) ==
    /\ dl[d].pc = "save"
    /\ LET exceeded == dl[d].retryCount + 1 > RetryLimit
       IN  dl' = [dl EXCEPT ![d].retryCount = @ + 1, ![d].node = NoNode, ![d].count = 0,
                            ![d].pc = IF exceeded THEN "end" ELSE "call",
                            ![d].result = IF exceeded THEN "retries" ELSE @]
    /\ bad' = [bad EXCEPT ![dl[d].node] = dl[d].count + 1]
    /\ UNCHANGED <<cached, history>>

VoteFails(d) ==
    /\ Faults /\ dl[d].pc \in {"vote", "save"}
    /\ End(d, "error")
    /\ UNCHANGED <<cached, bad, history>>

-----------------------------------------------------------------------------
(* The poller of the provider *)

PollTimeoutQuiet(d) ==                                            \* mutant
    /\ dl[d].poller = "poll" /\ dl[d].late
    /\ dl' = [dl EXCEPT ![d].poller = "ended"]
    /\ UNCHANGED <<cached, bad, history>>

PollTimeout(d) ==
    /\ dl[d].poller = "poll" /\ dl[d].late
    /\ dl' = [dl EXCEPT ![d].poller = "ended", ![d].isTimedOut = TRUE]
    /\ UNCHANGED <<cached, bad, history>>

\* A request is sent when nothing is left to try and little is cached.
Request(d) ==
    dl[d].requestSent \/ (dl[d].available = {} /\ Cardinality(cached) < 2)

PollReadNoUris(d) ==                                              \* mutant
    /\ dl[d].poller = "poll" /\ ~ dl[d].late
    /\ dl' = [dl EXCEPT ![d].requestSent = Request(d), ![d].poller = "write",
                        ![d].merged = dl[d].available \cup cached]
    /\ UNCHANGED <<cached, bad, history>>

\* SendHashRequest, under the mutex, is taken to return: PollRead is one step.
\* The cached locations are read anew.  They are compared as pointers, so all
\* of them count as new and every node not in availableNodes joins it again,
\* the excluded ones unless a request has been sent.
PollRead(d) ==
    /\ dl[d].poller = "poll" /\ ~ dl[d].late
    /\ LET merged == dl[d].available \cup (IF Request(d) THEN cached \ Exclude ELSE cached)
       IN  dl' = [dl EXCEPT ![d].uris = @ \cup cached,
                            ![d].requestSent = Request(d),
                            ![d].poller = IF merged = dl[d].available THEN "poll" ELSE "write",
                            ![d].merged = IF merged = dl[d].available THEN {} ELSE merged]
    /\ UNCHANGED <<cached, bad, history>>

PollWrite(d) ==
    /\ dl[d].poller = "write"
    /\ dl' = [dl EXCEPT ![d].available = dl[d].merged, ![d].poller = "poll", ![d].merged = {}]
    /\ UNCHANGED <<cached, bad, history>>

\* The bucket cannot be read: the loop ends.
PollFails(d) ==
    /\ Faults /\ dl[d].poller = "poll" /\ ~ dl[d].late
    /\ dl' = [dl EXCEPT ![d].poller = "ended"]
    /\ broken' = broken \cup {d}
    /\ UNCHANGED <<cached, bad, tried, dropped>>

-----------------------------------------------------------------------------
\* The 60 seconds of timeoutDuration go by.
TimePasses(d) ==
    /\ dl[d].pc # "idle" /\ ~ dl[d].late
    /\ dl' = [dl EXCEPT ![d].late = TRUE]
    /\ UNCHANGED <<cached, bad, history>>

\* StorageLocation messages add locations, and locations expire.
LocationsChange ==
    /\ \E n \in Node : cached' \in {cached \cup {n}, cached \ {n}}
    /\ cached' # cached
    /\ UNCHANGED <<bad, dl, history>>

Client(d) ==
    \/ Start(d) \/ StartFails(d) \/ NextCall(d) \/ NextPop(d) \/ NextTimedOut(d)
    \/ VoteRead(d) \/ VoteSave(d) \/ VoteFails(d)
    \/ \E n \in Node : NextTake(d, n)

Poller(d) == PollTimeout(d) \/ PollRead(d) \/ PollWrite(d) \/ PollFails(d)

Next ==
    \/ \E d \in Download : Client(d) \/ Fetch(d) \/ Poller(d) \/ TimePasses(d)
    \/ LocationsChange

Spec == Init /\ [][Next]_vars

\* Goroutines that are ready run and time goes by; a remote server need never
\* answer, the HTTP client has no timeout.
Fairness == \A d \in Download : WF_vars(Client(d)) /\ WF_vars(Poller(d)) /\ WF_vars(TimePasses(d))

FairSpec == Spec /\ Fairness

-----------------------------------------------------------------------------
(* Properties *)

\* Every node in availableNodes has a URI, whatever the poller and Next do to
\* the list at the same time: Next never meets "Could not find uri for node id".
AvailableHaveUri ==
    \A d \in Download : dl[d].available \cup dl[d].seen \cup dl[d].merged \subseteq dl[d].uris

\* A download times out only after it tried every node it knew a location of,
\* except excluded nodes and those lost when Next, in a race with the poller,
\* wrote the list back without them.
KnownNodesTried ==
    \A d \in Download : dl[d].result = "timeout" =>
        dl[d].uris \subseteq Exclude \cup tried[d] \cup dropped[d]

\* Next returns unless a bucket that cannot be read has ended the poller: a
\* poller that is slow, times out while Next sleeps, or adds nodes while Next
\* takes them, does not hold Next up.
NextReturnsIfPolled ==
    \A d \in Download : (dl[d].pc = "next") ~> (dl[d].pc # "next" \/ d \in broken)
=============================================================================
