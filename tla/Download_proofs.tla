--------------------------- MODULE Download_proofs ---------------------------
(***************************************************************************)
(* What holds of any number of downloads over any set of nodes, however    *)
(* their pollers, the clock and the arrival and expiry of locations        *)
(* interleave with Next.                                                   *)
(***************************************************************************)
EXTENDS Download, TLAPS

HoldsNode == {"pop", "fetch", "vote", "save"}

\* Where the goroutine of a download is, and what it holds there.
ClientInv(d) ==
    /\ dl[d].pc = "idle" => dl[d].poller = "none" /\ dl[d].uris = {} /\ dl[d].available = {}
    /\ dl[d].pc \in HoldsNode => dl[d].node \in Node
    /\ dl[d].pc # "end" => dl[d].result = "none" /\ dl[d].retryCount <= RetryLimit
    /\ dl[d].result = "timeout" => dl[d].available = {} /\ dl[d].isTimedOut

\* The two copies of availableNodes: what Next has read may have been added to
\* since, never taken from, and what the poller is going to write has all that
\* is there now.
CopiesInv(d) ==
    /\ dl[d].pc = "pop" => dl[d].seen \subseteq dl[d].available
    /\ dl[d].pc # "pop" => dl[d].seen = {}
    /\ dl[d].poller = "write" => dl[d].available \subseteq dl[d].merged
    /\ dl[d].poller # "write" => dl[d].merged = {}
    /\ dl[d].isTimedOut => dl[d].poller = "ended"
    /\ dl[d].available \cup dl[d].seen \cup dl[d].merged \subseteq dl[d].uris

\* A location that was known once is still to be tried, unless it is excluded,
\* was handed out, or was lost when Next wrote the list back.
PendingInv(d) ==
    dl[d].uris \subseteq Exclude \cup tried[d] \cup dropped[d] \cup dl[d].available \cup dl[d].merged

Inv == TypeOK /\ \A d \in Download : ClientInv(d) /\ CopiesInv(d) /\ PendingInv(d)

\* A new download (NewStorageLocationProvider) knows nothing yet.
LEMMA InitInv == Init => Inv
BY DownloadAssumption
   DEF Init, Inv, TypeOK, NewProvider, DownloadState, ClientInv, CopiesInv, PendingInv, HoldsNode

\* Every step of a download, its poller, the clock and the bucket preserves Inv.
LEMMA StepInv == Inv /\ [Next]_vars => Inv'
<1> SUFFICES ASSUME Inv, [Next]_vars
             PROVE  Inv'
  OBVIOUS
<1> USE DownloadAssumption DEF Inv, TypeOK, DownloadState, ClientInv, CopiesInv, PendingInv, HoldsNode, history, End
<1>0. ASSUME NEW d \in Download PROVE dl[d] \in DownloadState
  OBVIOUS
<1>1. ASSUME NEW d \in Download, Start(d) PROVE Inv'
  <2>1. TypeOK'
    BY <1>1 DEF Start
  <2>2. ASSUME NEW e \in Download PROVE ClientInv(e)'
    BY <1>1 DEF Start
  <2>3. ASSUME NEW e \in Download PROVE CopiesInv(e)'
    BY <1>1 DEF Start
  <2>4. ASSUME NEW e \in Download PROVE PendingInv(e)'
    BY <1>1 DEF Start
  <2> QED
    BY <2>1, <2>2, <2>3, <2>4
<1>2. ASSUME NEW d \in Download, StartFails(d) PROVE Inv'
  <2>1. TypeOK'
    BY <1>2 DEF StartFails
  <2>2. ASSUME NEW e \in Download PROVE ClientInv(e)'
    BY <1>2 DEF StartFails
  <2>3. ASSUME NEW e \in Download PROVE CopiesInv(e)'
    BY <1>2 DEF StartFails
  <2>4. ASSUME NEW e \in Download PROVE PendingInv(e)'
    BY <1>2 DEF StartFails
  <2> QED
    BY <2>1, <2>2, <2>3, <2>4
<1>3. ASSUME NEW d \in Download, NextCall(d) PROVE Inv'
  <2> DEFINE s == [dl[d] EXCEPT !.pc = "next", !.late = FALSE]
  <2>a. s \in DownloadState
    <3> HIDE DEF Inv
    <3> QED
      BY <1>0, ZenonT(60)
  <2>b. dl' = [dl EXCEPT ![d] = s] /\ UNCHANGED <<cached, bad, history>>
    <3> HIDE DEF Inv
    <3> QED
      BY <1>3, Zenon DEF NextCall
  <2>1. TypeOK'
    BY <2>a, <2>b
  <2>2. ASSUME NEW e \in Download PROVE ClientInv(e)'
    BY <1>3 DEF NextCall
  <2>3. ASSUME NEW e \in Download PROVE CopiesInv(e)'
    BY <1>3 DEF NextCall
  <2>4. ASSUME NEW e \in Download PROVE PendingInv(e)'
    BY <1>3 DEF NextCall
  <2> QED
    BY <2>1, <2>2, <2>3, <2>4
<1>4. ASSUME NEW d \in Download, NextPop(d) PROVE Inv'
  <2>1. PICK rest \in Rest(d) :
          /\ dl' = [dl EXCEPT ![d].available = rest, ![d].seen = {},
                              ![d].pc = IF dl[d].node \in dl[d].uris THEN "fetch" ELSE "next"]
          /\ dropped' = [dropped EXCEPT ![d] = @ \cup (dl[d].available \ (rest \cup dl[d].merged))]
    BY <1>4 DEF NextPop
  <2>2. rest \subseteq dl[d].available \cup dl[d].merged /\ dl[d].available \ (rest \cup dl[d].merged) \subseteq Node
    BY <1>4 DEF NextPop, Rest, Listed
  <2>3. /\ dl[d].pc = "pop" /\ UNCHANGED <<cached, bad, broken>>
        /\ tried' = [tried EXCEPT ![d] = @ \cup {dl[d].node}]
    BY <1>4 DEF NextPop
  <2>4. TypeOK'
    BY <2>1, <2>2, <2>3, SMTT(20)
  <2>5. ASSUME NEW e \in Download PROVE ClientInv(e)'
    BY <2>1, <2>3
  <2>6. ASSUME NEW e \in Download PROVE CopiesInv(e)'
    BY <2>1, <2>2, <2>3
  <2>7. ASSUME NEW e \in Download PROVE PendingInv(e)'
    BY <2>1, <2>2, <2>3
  <2> QED
    BY <2>4, <2>5, <2>6, <2>7
<1>5. ASSUME NEW d \in Download, NextTimedOut(d) PROVE Inv'
  <2>1. TypeOK'
    BY <1>5 DEF NextTimedOut
  <2>2. ASSUME NEW e \in Download PROVE ClientInv(e)'
    BY <1>5 DEF NextTimedOut
  <2>3. ASSUME NEW e \in Download PROVE CopiesInv(e)'
    BY <1>5 DEF NextTimedOut
  <2>4. ASSUME NEW e \in Download PROVE PendingInv(e)'
    BY <1>5 DEF NextTimedOut
  <2> QED
    BY <2>1, <2>2, <2>3, <2>4
<1>6. ASSUME NEW d \in Download, VoteRead(d) PROVE Inv'
  <2> DEFINE s == [dl[d] EXCEPT !.pc = "save", !.count = bad[dl[d].node]]
  <2>0. bad[dl[d].node] \in Nat
    BY <1>6 DEF VoteRead
  <2>a. s \in DownloadState
    <3> HIDE DEF Inv
    <3> QED
      BY <1>0, <2>0, ZenonT(60)
  <2>b. dl' = [dl EXCEPT ![d] = s] /\ UNCHANGED <<cached, bad, history>>
    <3> HIDE DEF Inv
    <3> QED
      BY <1>6, Zenon DEF VoteRead
  <2>1. TypeOK'
    BY <2>a, <2>b
  <2>2. ASSUME NEW e \in Download PROVE ClientInv(e)'
    BY <1>6 DEF VoteRead
  <2>3. ASSUME NEW e \in Download PROVE CopiesInv(e)'
    BY <1>6 DEF VoteRead
  <2>4. ASSUME NEW e \in Download PROVE PendingInv(e)'
    BY <1>6 DEF VoteRead
  <2> QED
    BY <2>1, <2>2, <2>3, <2>4
<1>7. ASSUME NEW d \in Download, VoteSave(d) PROVE Inv'
  <2> DEFINE s == [dl[d] EXCEPT !.retryCount = @ + 1, !.node = NoNode, !.count = 0,
                       !.pc = IF dl[d].retryCount + 1 > RetryLimit THEN "end" ELSE "call",
                       !.result = IF dl[d].retryCount + 1 > RetryLimit THEN "retries" ELSE @]
  <2>1. TypeOK'
    BY <1>7, SMTT(20) DEF VoteSave
  <2>a. dl' = [dl EXCEPT ![d] = s] /\ UNCHANGED <<cached, history>> /\ dl[d].pc = "save"
    <3> HIDE DEF Inv
    <3> QED
      BY <1>7, Zenon DEF VoteSave
  <2>b. /\ s.poller = dl[d].poller /\ s.available = dl[d].available /\ s.seen = dl[d].seen
        /\ s.merged = dl[d].merged /\ s.uris = dl[d].uris /\ s.isTimedOut = dl[d].isTimedOut
        /\ s.pc \in {"end", "call"} /\ s.result # "timeout"
        /\ s.pc # "end" => s.result = "none" /\ s.retryCount <= RetryLimit
    BY <1>0, <2>a
  <2> HIDE DEF s
  <2>2. ASSUME NEW e \in Download PROVE ClientInv(e)'
    BY <2>a, <2>b
  <2>3. ASSUME NEW e \in Download PROVE CopiesInv(e)'
    BY <2>a, <2>b
  <2>4. ASSUME NEW e \in Download PROVE PendingInv(e)'
    BY <2>a, <2>b
  <2> QED
    BY <2>1, <2>2, <2>3, <2>4
<1>8. ASSUME NEW d \in Download, VoteFails(d) PROVE Inv'
  <2>1. TypeOK'
    BY <1>8 DEF VoteFails
  <2>2. ASSUME NEW e \in Download PROVE ClientInv(e)'
    BY <1>8 DEF VoteFails
  <2>3. ASSUME NEW e \in Download PROVE CopiesInv(e)'
    BY <1>8 DEF VoteFails
  <2>4. ASSUME NEW e \in Download PROVE PendingInv(e)'
    BY <1>8 DEF VoteFails
  <2> QED
    BY <2>1, <2>2, <2>3, <2>4
<1>9. ASSUME NEW d \in Download, Fetch(d) PROVE Inv'
  <2>1. TypeOK'
    <3>1. CASE End(d, "ok") \/ End(d, "error")
      BY <1>9, <3>1 DEF Fetch
    <3>2. CASE dl' = [dl EXCEPT ![d].pc = "vote"]
      BY <1>9, <3>2, SMTT(20) DEF Fetch
    <3> QED
      BY <1>9, <3>1, <3>2 DEF Fetch
  <2>2. ASSUME NEW e \in Download PROVE ClientInv(e)'
    BY <1>9, SMTT(20) DEF Fetch
  <2>3. ASSUME NEW e \in Download PROVE CopiesInv(e)'
    BY <1>9, SMTT(20) DEF Fetch
  <2>4. ASSUME NEW e \in Download PROVE PendingInv(e)'
    BY <1>9, SMTT(20) DEF Fetch
  <2> QED
    BY <2>1, <2>2, <2>3, <2>4
<1>10. ASSUME NEW d \in Download, PollTimeout(d) PROVE Inv'
  <2>1. TypeOK'
    BY <1>10 DEF PollTimeout
  <2>2. ASSUME NEW e \in Download PROVE ClientInv(e)'
    BY <1>10 DEF PollTimeout
  <2>3. ASSUME NEW e \in Download PROVE CopiesInv(e)'
    BY <1>10 DEF PollTimeout
  <2>4. ASSUME NEW e \in Download PROVE PendingInv(e)'
    BY <1>10 DEF PollTimeout
  <2> QED
    BY <2>1, <2>2, <2>3, <2>4
<1>11. ASSUME NEW d \in Download, PollRead(d) PROVE Inv'
  <2> DEFINE m == dl[d].available \cup (IF Request(d) THEN cached \ Exclude ELSE cached)
             s(r) == [dl[d] EXCEPT !.uris = @ \cup cached, !.requestSent = r,
                                   !.poller = IF m = dl[d].available THEN "poll" ELSE "write",
                                   !.merged = IF m = dl[d].available THEN {} ELSE m]
  <2>1. /\ dl[d].available \subseteq m /\ cached \ Exclude \subseteq m
        /\ m \subseteq dl[d].available \cup cached
    OBVIOUS
  <2>2. Request(d) \in BOOLEAN
    BY Zenon DEF Request
  <2>3. PICK r \in BOOLEAN : dl' = [dl EXCEPT ![d] = s(r)]
    <3> HIDE DEF Inv, m
    <3> QED
      BY <1>11, <2>2, Zenon DEF PollRead, m
  <2> HIDE DEF m
  <2>4. s(r) \in DownloadState
    <3>1. dl[d].uris \cup cached \in SUBSET Node /\ m \in SUBSET Node
      BY <2>1
    <3>2. dl[d] \in DownloadState
      BY <1>0
    <3> HIDE DEF Inv
    <3>3. CASE m = dl[d].available
      BY <3>1, <3>2, <3>3
    <3>4. CASE m # dl[d].available
      BY <3>1, <3>2, <3>4, Zenon
    <3> QED
      BY <3>3, <3>4
  <2>5. UNCHANGED <<cached, bad, tried, dropped, broken>> /\ dl[d].poller = "poll"
    BY <1>11 DEF PollRead
  <2>6. TypeOK'
    BY <2>3, <2>4, <2>5
  <2>7. ASSUME NEW e \in Download PROVE ClientInv(e)'
    BY <2>3, <2>5
  <2>8. ASSUME NEW e \in Download PROVE CopiesInv(e)' /\ PendingInv(e)'
    BY <2>1, <2>3, <2>5
  <2> QED
    BY <2>6, <2>7, <2>8
<1>12. ASSUME NEW d \in Download, PollWrite(d) PROVE Inv'
  <2>1. TypeOK'
    BY <1>12 DEF PollWrite
  <2>2. ASSUME NEW e \in Download PROVE ClientInv(e)'
    BY <1>12 DEF PollWrite
  <2>3. ASSUME NEW e \in Download PROVE CopiesInv(e)'
    BY <1>12 DEF PollWrite
  <2>4. ASSUME NEW e \in Download PROVE PendingInv(e)'
    BY <1>12 DEF PollWrite
  <2> QED
    BY <2>1, <2>2, <2>3, <2>4
<1>13. ASSUME NEW d \in Download, PollFails(d) PROVE Inv'
  <2>1. TypeOK'
    BY <1>13, SMTT(20) DEF PollFails
  <2>2. ASSUME NEW e \in Download PROVE ClientInv(e)'
    BY <1>13 DEF PollFails
  <2>3. ASSUME NEW e \in Download PROVE CopiesInv(e)'
    BY <1>13 DEF PollFails
  <2>4. ASSUME NEW e \in Download PROVE PendingInv(e)'
    BY <1>13 DEF PollFails
  <2> QED
    BY <2>1, <2>2, <2>3, <2>4
<1>14. ASSUME NEW d \in Download, TimePasses(d) PROVE Inv'
  <2> DEFINE s == [dl[d] EXCEPT !.late = TRUE]
  <2>a. s \in DownloadState
    <3> HIDE DEF Inv
    <3> QED
      BY <1>0, ZenonT(60)
  <2>b. dl' = [dl EXCEPT ![d] = s] /\ UNCHANGED <<cached, bad, history>>
    <3> HIDE DEF Inv
    <3> QED
      BY <1>14, <1>0 DEF TimePasses
  <2>1. TypeOK'
    BY <2>a, <2>b
  <2>2. ASSUME NEW e \in Download PROVE ClientInv(e)'
    BY <1>14 DEF TimePasses
  <2>3. ASSUME NEW e \in Download PROVE CopiesInv(e)'
    BY <1>14 DEF TimePasses
  <2>4. ASSUME NEW e \in Download PROVE PendingInv(e)'
    BY <1>14 DEF TimePasses
  <2> QED
    BY <2>1, <2>2, <2>3, <2>4
<1>15. ASSUME NEW d \in Download, NEW n \in Node, NextTake(d, n) PROVE Inv'
  <2> DEFINE s == [dl[d] EXCEPT !.pc = "pop", !.node = n, !.seen = dl[d].available]
  <2>a. s \in DownloadState
    <3> dl[d].available \in SUBSET Node
      BY <1>0
    <3> HIDE DEF Inv
    <3> QED
      BY <1>0, ZenonT(60)
  <2>b. dl' = [dl EXCEPT ![d] = s] /\ UNCHANGED <<cached, bad, history>>
    <3> HIDE DEF Inv
    <3> QED
      BY <1>15, Zenon DEF NextTake
  <2>1. TypeOK'
    BY <2>a, <2>b
  <2>2. ASSUME NEW e \in Download PROVE ClientInv(e)'
    BY <1>15 DEF NextTake
  <2>3. ASSUME NEW e \in Download PROVE CopiesInv(e)'
    BY <1>15 DEF NextTake
  <2>4. ASSUME NEW e \in Download PROVE PendingInv(e)'
    BY <1>15 DEF NextTake
  <2> QED
    BY <2>1, <2>2, <2>3, <2>4
<1>16. CASE LocationsChange
  BY <1>16 DEF LocationsChange
<1>17. CASE UNCHANGED vars
  BY <1>17 DEF vars
<1> QED
  BY <1>1, <1>2, <1>3, <1>4, <1>5, <1>6, <1>7, <1>8, <1>9, <1>10, <1>11, <1>12, <1>13, <1>14, <1>15, <1>16, <1>17 DEF Next, Client, Poller

\* The inductive invariant of the downloads holds in every reachable state.
THEOREM Invariance == Spec => []Inv
<1> QED
  BY InitInv, StepInv, PTL DEF Spec

\* Every variable keeps its type; in particular a download never makes more than
\* one retry beyond the limit of 32 (DownloadBytesByHash).
THEOREM TypeCorrect == Spec => []TypeOK
<1>1. Inv => TypeOK
  BY DEF Inv
<1> QED
  BY Invariance, <1>1, PTL

\* Next never meets a node without a URI, although it and the poller write
\* availableNodes over each other without a lock (provider.go Next, Start).
THEOREM HaveUri == Spec => []AvailableHaveUri
<1>1. Inv => AvailableHaveUri
  BY DEF Inv, CopiesInv, AvailableHaveUri
<1> QED
  BY Invariance, <1>1, PTL

\* A download times out only after every node it knew a location of was handed
\* out, excluded, or lost when Next wrote the list back without it.
THEOREM TriedAll == Spec => []KnownNodesTried
<1>1. Inv => KnownNodesTried
  BY DEF Inv, ClientInv, CopiesInv, PendingInv, KnownNodesTried
<1> QED
  BY Invariance, <1>1, PTL
=============================================================================
